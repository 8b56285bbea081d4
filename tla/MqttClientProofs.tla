------------------------- MODULE MqttClientProofs --------------------------
(***************************************************************************)
(* Proofs about MqttClient, for any tasks, publications and bounds, and an *)
(* application that does not connect from a timed task: the bookkeeping of *)
(* the tasks is right, a closed connection leaves nothing behind, and the  *)
(* client implements Delivery.  The invariant Inv, and half of the lemmas  *)
(* that show it is kept, are in MqttTasksProofs.                           *)
(***************************************************************************)
EXTENDS MqttTasksProofs

-----------------------------------------------------------------------------
(* A task the library makes for itself.                                     *)
LEMMA MadeStays ==
  ASSUME NEW a \in Memory, a.abort = "none", NEW t \in Internal, NEW b, Made(a, b, t)
  PROVE  /\ Stays(a, b) /\ b \in Memory /\ b.abort = "none" /\ Sound(b) /\ Waits(b, t)
         /\ b.calls = a.calls /\ b.data = a.data /\ b.conn = a.conn /\ b.io = a.io
         /\ b.keepalive_event = a.keepalive_event /\ b.last_msg_id = a.last_msg_id
         /\ b.session = a.session /\ Queued(b) = Queued(a) /\ (Starting(b) <=> Starting(a))
<1>1. t \notin UserTasks BY TaskNames
<1>2. /\ b.calls = a.calls /\ b.data = a.data /\ b.conn = a.conn /\ b.io = a.io
      /\ b.keepalive_event = a.keepalive_event /\ b.last_msg_id = a.last_msg_id
      /\ b.session = a.session /\ b.abort = a.abort /\ b.q0 = a.q0 /\ b.q12 = a.q12
      /\ b.saved = a.saved /\ b.current = a.current
  BY DEF Made, Edits, Fields
<1>3. Queued(b) = Queued(a) /\ (Starting(b) <=> Starting(a)) BY <1>2 DEF Queued, Starting
<1>4. Stays(a, b) BY <1>1, <1>2 DEF Made, Stays
<1> QED BY <1>2, <1>3, <1>4 DEF Made

(* The io layer is connected: the connect task is made.                     *)
LEMMA LogicConnectQuietly ==
  ASSUME c \in Memory, Running, Sound(c), LogicConnect
  PROVE  Quietly(c, c')
<1> DEFINE a == Popped
<1>1. Called("logic", "connect") /\ c' = LogicConnectHandler(a, Call.st) BY DEF LogicConnect, Becomes
<1>2. /\ a \in Memory /\ Popped1(c, a, Call) /\ Call \in Calls /\ Call.layer = "logic" /\ Call.fn = "connect"
      /\ Call.st \in Statuses /\ a.abort = "none" /\ c.abort = "none"
  BY <1>1, CalledIs
<1>3. Call \notin LogicInits /\ (Call \in Inits <=> Call.st = "OK") /\ Call \notin Users
  BY <1>2, KindOf
<1>4. a.last_msg_id = c.last_msg_id /\ a.session = c.session BY <1>2 DEF Popped1, Edits, Fields
<1>5. CASE Call.st # "OK"
  <2>1. Stays(c, a) /\ Sound(a) /\ ~Starting(a) BY <1>1, <1>3, <1>5, CalledStays
  <2> HIDE DEF a
  <2>2. c' = ContinueWith(a, "logic", "connect", "top", NoMsg, Call.st)
    BY <1>1, <1>5 DEF LogicConnectHandler, OnSucc, Succ
  <2>3. Stays(a, c')
    <3> DEFINE st == Call.st
    <3>1. /\ "logic" \in Layers /\ "top" \in Layers /\ "connect" \in {"close", "close_externally", "connect", "post_connect"}
          /\ st \in Statuses /\ st # "OK"
      BY <1>2, <1>5 DEF Layers
    <3>2. c' = ContinueWith(a, "logic", "connect", "top", NoMsg, st) BY <2>2
    <3> HIDE DEF st
    <3>3. Stays(a, ContinueWith(a, "logic", "connect", "top", NoMsg, st)) BY <2>1, <1>2, <3>1, SayStays
    <3> QED BY <3>2, <3>3
  <2> QED BY <2>1, <2>3, StaysTrans, StaysEnds DEF Quietly
<1>6. CASE Call.st = "OK"
  <2>1. /\ Begun(a) /\ Sound(a) /\ Stays(c, a) /\ ~Starting(a) BY <1>1, <1>3, <1>6, ChainCalled
  <2> DEFINE b == MakeTask(a, "connect", "UNSET")
             m == [NoMsg EXCEPT !.task = "connect"]
  <2>2. c' = LogicPushHandler(b, m, "OK") BY <1>1, <1>6 DEF LogicConnectHandler
  <2>3. b = MakeTask(a, "connect", "UNSET") /\ m.task = "connect" BY NoMsgIs, TaskNames
  <2> HIDE DEF a, b, m
  <2>4. "connect" \in Internal /\ "connect" \in Tasks /\ "connect" \notin UserTasks /\ "connect" # "control"
    BY TaskNames
  <2>5. ~Pending(a, "connect") BY <2>1 DEF Sound, Fit, InternalInv, RestOnce
  <2>6. Made(a, b, "connect")
    <3>1. "connect" \notin Queued(a) BY <2>1, <2>4 DEF Begun
    <3> QED BY <3>1, <1>2, <2>1, <2>3, <2>4, <2>5, MakeSound
  <2>7. /\ Stays(a, b) /\ b \in Memory /\ b.abort = "none" /\ Sound(b) /\ Waits(b, "connect")
        /\ b.calls = a.calls /\ b.conn = a.conn /\ b.keepalive_event = a.keepalive_event
        /\ b.last_msg_id = a.last_msg_id /\ b.session = a.session /\ Queued(b) = Queued(a)
        /\ ~Starting(b)
    BY <1>2, <2>1, <2>4, <2>6, MadeStays
  <2>8. ~Has(a.calls, Opened) /\ ~Pending(a, "control")
    <3>1. a.calls \in Seq(Calls) BY <1>2, FieldsOf
    <3>2. "control" \in Internal BY TaskNames
    <3> QED BY <3>1, <3>2, <2>1, OnlyStart DEF Begun, Pending
  <2>9. Admits(b, "connect")
    <3>1. "keepalive" \notin Queued(a) /\ "control" \notin Queued(a) BY <2>1, TaskNames DEF Begun
    <3> QED BY <3>1, <2>1, <2>7, <2>8 DEF Admits, Begun, Pending
  <2>10. Quietly(b, c') BY <2>2, <2>3, <2>4, <2>7, <2>9, PushHandlerRuns
  <2>11. Quietly(a, c') BY <2>7, <2>10, StaysThenQuietly
  <2> QED BY <2>1, <2>11, <1>4, StaysThenQuietly
<1> QED BY <1>5, <1>6

(* The timer of the next ping.                                              *)
LEMMA KeepaliveQuietly ==
  ASSUME c \in Memory, Running, Sound(c), KeepaliveOnce
  PROVE  Quietly(c, c')
<1> DEFINE a == [c EXCEPT !.keepalive_event = FALSE]
           b == MakeTask(a, "keepalive", "UNSET")
           m == [NoMsg EXCEPT !.task = "keepalive"]
<1>1. c.keepalive_event /\ c' = LogicPushHandler(b, m, "OK") BY DEF KeepaliveOnce
<1>2. b = MakeTask(a, "keepalive", "UNSET") /\ m.task = "keepalive" /\ c.abort = "none"
  BY NoMsgIs, TaskNames DEF Running
<1>3. Edits(c, a, {"keepalive_event"}) /\ a.keepalive_event = FALSE
  <2>1. FALSE \in BOOLEAN /\ a = [c EXCEPT !.keepalive_event = FALSE] OBVIOUS
  <2> HIDE DEF a
  <2> QED BY ONLY <2>1, c \in Memory, EditEvent
<1> HIDE DEF a, b, m
<1>4. /\ a \in Memory /\ a.calls = c.calls /\ a.current = c.current /\ a.connect_handler = c.connect_handler
      /\ a.io = c.io /\ a.conn = c.conn /\ a.data = c.data /\ a.shutdown_started = c.shutdown_started
      /\ a.queue = c.queue /\ a.recv = c.recv /\ a.task = c.task /\ a.q0 = c.q0
      /\ a.q12 = c.q12 /\ a.saved = c.saved /\ a.outcome = c.outcome /\ a.session = c.session
      /\ a.saved_id = c.saved_id /\ a.last_msg_id = c.last_msg_id /\ a.abort = c.abort
  BY <1>3 DEF Edits, Fields
<1>5. Alike(c, a) BY <1>4 DEF Alike, Pending
<1>6. /\ Book(a) /\ Queued(a) = Queued(c) /\ \A t \in UserTasks : Fate(a, t) = Fate(c, t)
  BY <1>5, AlikeBook DEF Sound, Book
<1>7. StartInv(a) BY <1>3, <1>4, <1>6 DEF Sound, Fit, StartInv, Starting, Rest
<1>8. DataInv(a) BY <1>3, <1>4 DEF Sound, Fit, DataInv, Rest
<1>9. EndInv(a) /\ CodecInv(a) BY <1>4 DEF Sound, Fit, EndInv, CodecInv
<1>10. InternalInv(a)
  BY <1>3, <1>4, <1>6 DEF Sound, Fit, InternalInv, ConnectOnce, PingOnce, RestOnce, Pending
<1>11. Keeps(c, a)
  <2>1. MailSame(c, a) BY <1>4 DEF MailSame
  <2> QED BY <2>1, <1>4, KeepsStill
<1>12. Sound(a) /\ Stays(c, a) /\ a.abort = "none"
  BY <1>2, <1>4, <1>6, <1>7, <1>8, <1>9, <1>10, <1>11 DEF Stays, Sound, Fit
<1>13. ~Starting(a)
  <2>1. ~Starting(c) BY <1>1 DEF Sound, Fit, StartInv
  <2> QED BY <2>1, <1>4 DEF Starting
<1>14. "keepalive" \in Internal /\ "keepalive" \in Tasks /\ "keepalive" \notin UserTasks
  BY TaskNames
<1>15. "keepalive" \notin Queued(a) /\ ~Pending(a, "keepalive") /\ "connect" \notin Queued(a)
  BY <1>1, <1>4, <1>6 DEF Sound, Fit, InternalInv, ConnectOnce, PingOnce, RestOnce, Pending
<1>16. Made(a, b, "keepalive") BY <1>2, <1>4, <1>12, <1>14, <1>15, MakeSound
<1>17. /\ Stays(a, b) /\ b \in Memory /\ b.abort = "none" /\ Sound(b) /\ Waits(b, "keepalive")
       /\ b.keepalive_event = a.keepalive_event
       /\ b.last_msg_id = a.last_msg_id /\ b.session = a.session /\ Queued(b) = Queued(a)
       /\ ~Starting(b)
  BY <1>4, <1>12, <1>13, <1>14, <1>16, MadeStays
<1>18. Admits(b, "keepalive") BY <1>3, <1>15, <1>17 DEF Admits
<1>19. Quietly(b, c') BY <1>1, <1>2, <1>14, <1>17, <1>18, PushHandlerRuns
<1>20. Quietly(a, c') BY <1>17, <1>19, StaysThenQuietly
<1> QED BY <1>4, <1>12, <1>20, StaysThenQuietly

(* A timer that is due is disarmed first.                                   *)
LEMMA CancelStays ==
  ASSUME NEW a \in Memory, a.abort = "none", Sound(a), NEW t \in Tasks, a.task[t].timeout
  PROVE  LET b == CancelTimeout(a, t)
         IN  /\ Stays(a, b) /\ b \in Memory /\ b.abort = "none" /\ Sound(b) /\ ~Starting(b) /\ At(b, t)
             /\ b.last_msg_id = a.last_msg_id /\ b.data = a.data /\ ~Starting(a) /\ a.data["logic"]
<1> DEFINE b == CancelTimeout(a, t)
<1>1. At(a, t) BY DEF Sound, Book, BookBut, Timers
<1>2. ~Starting(a) BY DEF Sound, Fit, StartInv
<1>3. Ready(a, t) /\ a.data["logic"] BY <1>1, LayersTask
<1>4. /\ b \in Memory /\ Edits(a, b, {"task"})
      /\ b.task = [a.task EXCEPT ![t] = [a.task[t] EXCEPT !.timeout = FALSE]]
  BY CancelIs
<1>5. Led(a, b, t)
  <2>1. Led(a, a, t) BY <1>3, LedSame
  <2> QED BY <2>1, LedTask
<1> HIDE DEF b
<1>6. /\ b.abort = "none" /\ b.last_msg_id = a.last_msg_id /\ b.data = a.data /\ b.outcome = a.outcome
      /\ b.calls = a.calls
  BY <1>4 DEF Edits, Fields
<1>7. Leads(a, b, t) /\ At(b, t) BY <1>2, <1>3, <1>5, <1>6, LightStruct
<1>8. \A u \in UserTasks : Fate(b, u) = Fate(a, u)
  <2>1. \A u \in Tasks : b.task[u].cs = a.task[u].cs /\ b.task[u].session = a.task[u].session
    <3>1. a.task \in [Tasks -> TaskTypes] BY FieldsOf
    <3> QED BY <3>1, <1>4 DEF TaskTypes
  <2> QED BY <2>1, <1>6, TaskNames DEF Fate, Heard, WasOk
<1> QED BY <1>2, <1>3, <1>4, <1>6, <1>7, <1>8 DEF Leads, Stays, b

(* The timer of a task is due.                                              *)
LEMMA TimeoutDoes ==
  ASSUME c \in Memory, Running, Sound(c), NEW t \in Tasks, TaskTimeout(t)
  PROVE  \E x : Does(c, c', x, x \notin Q1 \cup Subs)
<1> DEFINE a == CancelTimeout(c, t)
           st == IF c.task[t].cs = "retry" THEN "RESEND" ELSE "TIMEOUT"
<1>1. /\ c.task[t].timeout
      /\ c' = IF t = "connect" THEN DoMqttConnectTimeout(a) ELSE Resume(a, t, st, NoMsg)
  BY DEF TaskTimeout
<1>2. st \in Statuses /\ st # "OK" BY DEF Statuses
<1>3. c.abort = "none" BY DEF Running
<1>4. /\ Stays(c, a) /\ a \in Memory /\ a.abort = "none" /\ Sound(a) /\ ~Starting(a) /\ At(a, t)
      /\ a.last_msg_id = c.last_msg_id /\ a.data = c.data /\ c.data["logic"]
  BY <1>1, <1>3, CancelStays
<1> HIDE DEF a, st
<1>5. Does(a, c', t, t \notin Q1 \cup Subs)
  <2>1. CASE t = "connect"
    <3>1. c' = DoMqttConnectTimeout(a) BY <1>1, <2>1
    <3>2. Ready(a, "connect") /\ Good(a, None) BY <1>4, <2>1, LayersTask
    <3>3. Goes(a, c', "connect") BY <1>4, <3>1, <3>2, ConnectTimeoutGoes
    <3>4. Leads(a, c', "connect") BY <1>4, <3>3, GoesLeads DEF Sound
    <3>5. "connect" \notin UserTasks BY TaskNames
    <3>6. Change(a, c', "connect", "connect" \notin Q1 \cup Subs) BY <3>5 DEF Change
    <3> QED BY <3>4, <3>6, <1>4, <2>1, LeadsDoes
  <2>2. CASE t # "connect"
    <3>1. c' = Resume(a, t, st, NoMsg) BY <1>1, <2>2
    <3>2. Does(a, Resume(a, t, st, NoMsg), t,
               t \in Q1 \cup Subs => /\ st = "OK" /\ (t \in Q1 <=> NoMsg.task \in Q1)
                                     /\ NoMsg.task \in Q1 \cup SubTasks)
      BY <1>2, <1>4, ResumeDoes
    <3>3. Does(a, c', t, t \in Q1 \cup Subs => /\ st = "OK" /\ (t \in Q1 <=> NoMsg.task \in Q1)
                                     /\ NoMsg.task \in Q1 \cup SubTasks)
      BY ONLY <3>1, <3>2
    <3> HIDE DEF Does
    <3> QED BY <3>3, <1>2, DoesMay
  <2> QED BY <2>1, <2>2
<1>6. Does(c, c', t, t \notin Q1 \cup Subs)
  BY <1>4, <1>5, StaysThenDoes
<1> QED BY <1>6
-----------------------------------------------------------------------------
(* A stored task is sent again: the engine makes light changes only.        *)
LEMMA ResendLed ==
  ASSUME NEW a \in Memory, NEW t \in Q12, Ready(a, t)
  PROVE  Led(a, Resume(a, t, "RESEND", NoMsg), t)
<1> DEFINE P(b) == Led(a, b, t)
<1>1. t \in Tasks BY TaskNames
<1>2. P(a) /\ P(CancelTimeout(a, t)) BY <1>1, LedSame, LedTask
<1>3. P(Send(a, t)) /\ P(Send(CancelTimeout(a, t), t)) BY <1>1, <1>2, LedSend
<1>4. P([CancelTimeout(a, t) EXCEPT !.task[t].cs = "new"])
  <2> DEFINE e == CancelTimeout(a, t)
  <2>1. Led(a, e, t) BY <1>2
  <2> HIDE DEF e
  <2>2. Led(a, [e EXCEPT !.task[t].cs = "new"], t) BY <2>1, <1>1, LedTask
  <2> QED BY <2>2 DEF e
<1>5. P(Send(CheckNoTimer(a, t, "q1_start"), t))
  BY <1>1, <1>2, AssertNames, LedNoTimer, LedSend
<1>6. P(ArmTimeout([CheckNoTimer(a, t, "subscribe_retry") EXCEPT !.task[t].cs = "retry"], t))
  <2> DEFINE e == CheckNoTimer(a, t, "subscribe_retry")
  <2>1. Led(a, e, t) BY <1>2, AssertNames, LedNoTimer
  <2> HIDE DEF e
  <2>2. Led(a, [e EXCEPT !.task[t].cs = "retry"], t) BY <2>1, <1>1, LedTask
  <2>3. P(ArmTimeout([e EXCEPT !.task[t].cs = "retry"], t)) BY <2>2, <1>1, LedTask
  <2> QED BY <2>3 DEF e
<1>7. P(Send(Check(CheckNoTimer(a, t, "subscribe_resend_timer"), TRUE, "subscribe_resend_state"), t))
  <2> DEFINE e == CheckNoTimer(a, t, "subscribe_resend_timer")
             f == Check(e, TRUE, "subscribe_resend_state")
  <2>1. Led(a, e, t) BY <1>2, AssertNames, LedNoTimer
  <2> HIDE DEF e
  <2>2. Led(a, f, t) BY <2>1, AssertNames, LedCheck
  <2> HIDE DEF f
  <2>3. P(Send(f, t)) BY <2>2, <1>1, LedSend
  <2> QED BY <2>3 DEF e, f
<1> HIDE DEF P
<1>8. /\ Q0 \cap (Q1 \cup SubTasks) = {} /\ Q1 \cap (SubTasks \cup Internal) = {}
       /\ SubTasks \cap {"connect", "keepalive", "shutdown"} = {}
  BY TaskAssumption DEF SubTasks, Internal
<1>9. CASE t \in Q1
  <2>1. P(DoMqttPublishQ1(a, t, "RESEND", NoMsg))
    BY <1>2, <1>3, <1>4, <1>5 DEF DoMqttPublishQ1, SentAgain
  <2>2. Resume(a, t, "RESEND", NoMsg) = DoMqttPublishQ1(a, t, "RESEND", NoMsg)
    <3>1. t \notin Q0 /\ t \notin SubTasks /\ t \notin Internal BY <1>8, <1>9
    <3> QED BY <3>1, <1>9 DEF Resume, Internal
  <2> QED BY <2>1, <2>2 DEF P
<1>10. CASE t \in SubTasks
  <2>1. P(DoMqttSubscribe(a, t, "RESEND", NoMsg))
    BY <1>2, <1>3, <1>6, <1>7 DEF DoMqttSubscribe
  <2>2. Resume(a, t, "RESEND", NoMsg) = DoMqttSubscribe(a, t, "RESEND", NoMsg)
    <3>1. t \notin Q0 /\ t \notin Q1 /\ t \notin {"connect", "keepalive", "shutdown"} BY <1>8, <1>10
    <3> QED BY <3>1, <1>10 DEF Resume
  <2> QED BY <2>1, <2>2 DEF P
<1> QED BY <1>9, <1>10 DEF Q12

(* From a to b, tasks of the queue were sent again.                         *)
Resends(a, b) ==
  /\ Stays(a, b)
  /\ b.abort = "none" => ~Starting(b) /\ b.q12 = a.q12 /\ b.data = a.data

(* One stored task is sent again,                                           *)
LEMMA ResendStoredStays ==
  ASSUME NEW a \in Memory, a.abort = "none", Sound(a), a.data["logic"], NEW b, Resends(a, b),
         NEW t \in Range(a.q12)
  PROVE  Resends(a, ResendStored(b, t))
<1> DEFINE d == Resume(b, t, "RESEND", NoMsg)
<1>1. b \in Memory BY DEF Resends, Stays
<1>2. t \in Q12 /\ t \in Tasks
  <2>1. a.q12 \in Seq(Q12) BY FieldsOf
  <2> QED BY <2>1, RangeIs, TaskNames
<1>3. CASE b.task[t].session # "STORE" BY <1>3 DEF ResendStored
<1>4. CASE b.task[t].session = "STORE"
  <2>1. b.abort = "none" => At(b, t) /\ Sound(b) /\ ~Starting(b) /\ b.data["logic"]
    BY <1>2 DEF Resends, At, Stays
  <2>2. Ready(b, t)
    <3>1. CASE b.abort = "none" BY <3>1, <2>1, <1>1, LayersTask
    <3>2. CASE b.abort # "none" BY <3>2 DEF Ready
    <3> QED BY <3>1, <3>2
  <2>3. Led(b, d, t) BY <1>1, <1>2, <2>2, ResendLed
  <2>4. ResendStored(b, t) = d BY <1>4 DEF ResendStored
  <2> HIDE DEF d
  <2>5. CASE d.abort # "none"
    <3>1. d \in Memory BY <2>3 DEF Led
    <3> QED BY <3>1, <2>4, <2>5, StaysAborted DEF Resends
  <2>6. CASE d.abort = "none"
    <3>1. b.abort = "none" BY <2>3, <2>6 DEF Led, Light
    <3>2. Leads(b, d, t) BY <2>1, <2>3, <2>6, <3>1, <1>1, LightStruct
    <3>3. /\ d.q12 = b.q12 /\ d.outcome = b.outcome /\ Grows(b.calls, d.calls, Plain(b))
          /\ d.task[t].session = b.task[t].session
          /\ d.task[t].cs = "none" <=> b.task[t].cs = "none"
          /\ d.task[t].cs = "freed" <=> b.task[t].cs = "freed"
      <4>1. TaskLight(b, d, t) /\ Edits(b, d, LightFields) /\ Grows(b.calls, d.calls, Plain(b))
        BY <2>3, <2>6 DEF Led, Light
      <4>2. d.q12 = b.q12 /\ d.outcome = b.outcome BY <4>1 DEF Edits, Fields, LightFields
      <4>3. d.task[t].session = b.task[t].session BY <4>1, <1>2, <1>4 DEF TaskLight
      <4> QED BY <4>1, <4>2, <4>3, <1>2 DEF TaskLight
    <3>4. t \in UserTasks => Fate(d, t) = Fate(b, t)
      <4>1. d \in Memory BY <2>3 DEF Led
      <4> QED BY <4>1, <1>1, <3>3, FateSame
    <3>5. Stays(b, d) BY <3>1, <3>2, <3>4, <2>6 DEF Leads, Stays
    <3>6. Stays(a, d) BY <3>5, StaysTrans DEF Resends
    <3> QED BY <2>4, <3>1, <3>2, <3>3, <3>6, <2>6 DEF Resends, Leads
  <2> QED BY <2>5, <2>6
<1> QED BY <1>3, <1>4

(* Tasks sent again, one after the other: g[n] is the memory after n.       *)
Resending(a, n, g) ==
  /\ g[0] = a
  /\ \A k \in 1 .. n : g[k] = ResendStored(g[k - 1], a.q12[k])

(* then one after the other,                                                *)
LEMMA ResendingStays ==
  ASSUME NEW a \in Memory, a.abort = "none", Sound(a), ~Starting(a), a.data["logic"],
         NEW g, Resending(a, Len(a.q12), g)
  PROVE  Resends(a, g[Len(a.q12)])
<1> DEFINE n == Len(a.q12)
           Right(j) == Resends(a, g[j])
           Bad == {j \in 0 .. n : ~Right(j)}
<1>1. a.q12 \in Seq(Q12) BY FieldsOf
<1>2. n \in Nat /\ \A j \in 1 .. n : a.q12[j] \in Range(a.q12) BY <1>1, RangeIs
<1>3. Right(0)
  <2>1. Stays(a, a) BY KeepsSame DEF Stays
  <2> QED BY <2>1 DEF Resends, Resending
<1>4. ASSUME NEW j \in 1 .. n, Right(j - 1) PROVE Right(j)
  <2>1. g[j] = ResendStored(g[j - 1], a.q12[j]) BY DEF Resending
  <2> QED BY <2>1, <1>2, <1>4, ResendStoredStays
<1> HIDE DEF Right
<1>5. ASSUME Bad # {} PROVE FALSE
  <2>1. Bad \in SUBSET Nat BY <1>2
  <2>2. PICK j \in Bad : \A m \in Bad : j <= m BY <2>1, <1>5, LeastOne
  <2>3. j \in 1 .. n BY <1>2, <1>3
  <2>4. j - 1 \in 0 .. n /\ ~(j <= j - 1) BY <2>3, <1>2
  <2>5. Right(j - 1) BY <2>4, <2>2
  <2> QED BY <2>3, <2>5, <1>4
<1>6. n \in 0 .. n BY <1>2
<1>7. Right(n) BY <1>5, <1>6
<1> QED BY <1>7 DEF Right

(* The equation of the function Resent defines.                             *)
ResendRule(a, g) ==
  [k \in 0 .. Len(a.q12) |-> IF k = 0 THEN a ELSE ResendStored(g[k - 1], a.q12[k])]

(* as Resent does: recursion over the natural numbers.                      *)
LEMMA ResendingExists ==
  ASSUME NEW a, Len(a.q12) \in Nat
  PROVE  \E g : g = ResendRule(a, g)
<1> DEFINE s == Len(a.q12)
           Right(n) == \E g : Resending(a, n, g)
           Bad == {n \in 0 .. s : ~Right(n)}
<1>1. s \in Nat OBVIOUS
<1>2. Right(0)
  <2>1. Resending(a, 0, [k \in {0} |-> a]) BY DEF Resending
  <2> QED BY <2>1
<1>3. ASSUME NEW n \in 1 .. s, Right(n - 1) PROVE Right(n)
  <2>1. PICK g : Resending(a, n - 1, g) BY <1>3
  <2> DEFINE h == [k \in 0 .. n |-> IF k = n THEN ResendStored(g[n - 1], a.q12[n]) ELSE g[k]]
  <2>2. n \in Nat \ {0} BY <1>1
  <2>3. /\ h[0] = g[0] /\ h[n] = ResendStored(g[n - 1], a.q12[n])
        /\ \A k \in 0 .. (n - 1) : h[k] = g[k]
    BY <2>2
  <2> HIDE DEF h
  <2>4. ASSUME NEW k \in 1 .. n PROVE h[k] = ResendStored(h[k - 1], a.q12[k])
    <3>1. k - 1 \in 0 .. (n - 1) BY <2>2
    <3>2. CASE k = n BY <3>1, <3>2, <2>3
    <3>3. CASE k # n
      <4>1. k \in 0 .. (n - 1) /\ k \in 1 .. (n - 1) BY <3>3, <2>2
      <4> QED BY <4>1, <3>1, <2>1, <2>3 DEF Resending
    <3> QED BY <3>2, <3>3
  <2>5. Resending(a, n, h) BY <2>1, <2>3, <2>4 DEF Resending
  <2> QED BY <2>5
<1> HIDE DEF Right
<1>4. ASSUME Bad # {} PROVE FALSE
  <2>1. Bad \in SUBSET Nat BY <1>1
  <2>2. PICK j \in Bad : \A m \in Bad : j <= m BY <2>1, <1>4, LeastOne
  <2>3. j \in 1 .. s BY <1>2, <1>1
  <2>4. j - 1 \in 0 .. s /\ ~(j <= j - 1) BY <2>3, <1>1
  <2>5. Right(j - 1) BY <2>4, <2>2
  <2> QED BY <2>3, <2>5, <1>3
<1>5. PICK g : Resending(a, s, g) BY <1>4, <1>1 DEF Right
<1> DEFINE h == [k \in 0 .. s |-> g[k]]
           d == ResendRule(a, h)
<1>6. ASSUME NEW k \in 0 .. s PROVE h[k] = d[k]
  <2>1. CASE k = 0 BY <2>1, <1>5 DEF Resending, ResendRule
  <2>2. CASE k # 0
    <3>1. k \in 1 .. s /\ k - 1 \in 0 .. s BY <2>2, <1>1
    <3>2. g[k] = ResendStored(g[k - 1], a.q12[k]) BY <3>1, <1>5 DEF Resending
    <3> QED BY <3>1, <3>2, <2>2 DEF ResendRule
  <2> QED BY <2>1, <2>2
<1>7. h = d BY <1>6 DEF ResendRule
<1> QED BY <1>7

(* The queue after all of them.                                             *)
LEMMA ResentStays ==
  ASSUME NEW a \in Memory, a.abort = "none", Sound(a), ~Starting(a), a.data["logic"]
  PROVE  Resends(a, Resent(a))
<1> DEFINE k == CHOOSE g : g = ResendRule(a, g)
<1>1. Len(a.q12) \in Nat
  <2>1. a.q12 \in Seq(Q12) BY FieldsOf
  <2> QED BY <2>1
<1>2. k = ResendRule(a, k) BY <1>1, ResendingExists
<1>3. Resent(a) = k[Len(a.q12)] BY DEF Resent, ResendRule
<1> HIDE DEF k
<1>4. Resending(a, Len(a.q12), k)
  <2>1. k[0] = a BY <1>1, <1>2 DEF ResendRule
  <2>2. ASSUME NEW j \in 1 .. Len(a.q12) PROVE k[j] = ResendStored(k[j - 1], a.q12[j])
    <3>1. j \in 0 .. Len(a.q12) /\ j # 0 BY <1>1
    <3> QED BY <3>1, <1>2 DEF ResendRule
  <2> QED BY <2>1, <2>2 DEF Resending
<1> QED BY <1>3, <1>4, ResendingStays

(* The connection is open: what is stored is sent again.                    *)
LEMMA LogicPostConnectStays ==
  ASSUME c \in Memory, Running, Sound(c), LogicPostConnect
  PROVE  Stays(c, c')
<1> DEFINE a == Popped
           b == Resent(a)
           st == Call.st
<1>1. Called("logic", "post_connect") /\ c' = LogicPostConnectHandler(a, st)
  BY DEF LogicPostConnect, Becomes
<1>2. /\ a \in Memory /\ Popped1(c, a, Call) /\ Call \in Calls /\ Call.layer = "logic" /\ Call.fn = "post_connect"
      /\ st \in Statuses /\ a.abort = "none" /\ c.abort = "none"
  BY <1>1, CalledIs
<1>3. Call \notin Inits /\ Call \notin Users BY <1>2, KindOf
<1>4. Stays(c, a) /\ Sound(a) /\ ~Starting(a) BY <1>1, <1>3, CalledStays
<1>5. b = Resent(a) OBVIOUS
<1>6. c' = IF a.data["logic"] THEN ContinueWith(b, "logic", "post_connect", "codec", NoMsg, st) ELSE a
  BY <1>1 DEF LogicPostConnectHandler, OnPrev, Prev
<1> HIDE DEF a, b, st
<1>7. CASE ~a.data["logic"] BY <1>4, <1>6, <1>7
<1>8. CASE a.data["logic"]
  <2>1. Resends(a, b) BY <1>2, <1>4, <1>5, <1>8, ResentStays
  <2>2. b \in Memory BY <2>1 DEF Resends, Stays
  <2>3. c' = ContinueWith(b, "logic", "post_connect", "codec", NoMsg, st) BY <1>6, <1>8
  <2>4. "logic" \in Layers /\ "codec" \in Layers BY DEF Layers
  <2>5. CASE b.abort = "none"
    <3>1. Sound(b) /\ ~Starting(b) BY <2>1, <2>5 DEF Resends, Stays
    <3>2. Stays(b, ContinueWith(b, "logic", "post_connect", "codec", NoMsg, st))
      BY <2>2, <2>4, <2>5, <3>1, <1>2, SayStays
    <3> QED BY <2>1, <2>3, <3>2, <1>4, StaysTrans DEF Resends
  <2>6. CASE b.abort # "none"
    <3> DEFINE k == [layer |-> "codec", fn |-> "post_connect", arg |-> NoMsg, st |-> st]
    <3>1. k \in Calls BY <2>4, <1>2, QuietCall
    <3>2. Said(b, c', "logic", k) BY <2>2, <2>3, <2>4, <3>1, SaidIs
    <3> HIDE DEF k
    <3>3. c' \in Memory /\ c'.abort = b.abort BY <3>2 DEF Said, Edits, Fields
    <3> QED BY <3>3, <2>6, StaysAborted
  <2> QED BY <2>5, <2>6
<1> QED BY <1>7, <1>8
-----------------------------------------------------------------------------
(* The end of a connection, step by step.                                   *)
LEMMA EndsTrans ==
  ASSUME NEW a, NEW b, NEW d, Ends(a, b), Ends(b, d),
         b.abort = "none" => b.last_msg_id = a.last_msg_id /\ b.session = a.session
  PROVE  Ends(a, d)
<1> SUFFICES ASSUME d.abort = "none"
             PROVE  /\ a.abort = "none" /\ Sound(d) /\ (Less(a) => Keeps(a, d))
                    /\ \A t \in UserTasks : Ended(a, d, t)
  BY DEF Ends
<1>1. b.abort = "none" /\ Sound(d) /\ (Less(b) => Keeps(b, d)) /\ \A t \in UserTasks : Ended(b, d, t)
  BY DEF Ends
<1>2. a.abort = "none" /\ (Less(a) => Keeps(a, b)) /\ \A t \in UserTasks : Ended(a, b, t)
  BY <1>1 DEF Ends
<1>3. Less(a) => Keeps(a, d) BY <1>1, <1>2, KeepsTrans DEF Less
<1>4. ASSUME NEW t \in UserTasks PROVE Ended(a, d, t)
  BY <1>1, <1>2 DEF Ended
<1> QED BY <1>1, <1>2, <1>3, <1>4

(* Leading a task is an end when its fate is.                               *)
LEMMA LeadsEnds ==
  ASSUME NEW a, a.abort = "none", NEW b, NEW x, Leads(a, b, x),
         b.abort = "none" /\ x \in UserTasks => Ended(a, b, x)
  PROVE  Ends(a, b)
<1>1. ASSUME b.abort = "none", NEW t \in UserTasks PROVE Ended(a, b, t)
  <2>1. CASE t = x BY <1>1, <2>1
  <2>2. CASE t # x BY <1>1, <2>2 DEF Leads, Ended
  <2> QED BY <2>1, <2>2
<1> QED BY <1>1 DEF Leads, Ends

(* The timers of the queue are disarmed.                                    *)
LEMMA DisabledStays ==
  ASSUME NEW a \in Memory, a.abort = "none", Sound(a), ~Starting(a), a.data["logic"]
  PROVE  LET b == DisableTimeouts(a)
         IN  /\ Stays(a, b) /\ b \in Memory /\ Edits(a, b, {"task"}) /\ ~Starting(b) /\ Sound(b)
             /\ \A t \in Range(a.q12) : ~b.task[t].timeout
<1> DEFINE v == [t \in Tasks |-> IF t \in Range(a.q12) THEN [a.task[t] EXCEPT !.timeout = FALSE]
                                                       ELSE a.task[t]]
           b == DisableTimeouts(a)
<1>1. b = [a EXCEPT !.task = v] BY DEF DisableTimeouts
<1>2. a.task \in [Tasks -> TaskTypes] /\ a.q12 \in Seq(Q12) /\ a.calls \in Seq(Calls) BY FieldsOf
<1>3. v \in [Tasks -> TaskTypes]
  <2>1. ASSUME NEW t \in Tasks PROVE [a.task[t] EXCEPT !.timeout = FALSE] \in TaskTypes
    BY <1>2 DEF TaskTypes
  <2> QED BY <2>1, <1>2
<1>4. \A t \in Tasks : v[t] = a.task[t] \/ v[t] = [a.task[t] EXCEPT !.timeout = FALSE] OBVIOUS
<1>5. \A t \in Range(a.q12) : ~v[t].timeout
  <2>1. ASSUME NEW t \in Range(a.q12) PROVE ~v[t].timeout
    <3>1. t \in Tasks BY <1>2, RangeIs, TaskNames
    <3>2. a.task[t] \in TaskTypes BY <3>1, <1>2
    <3> QED BY <3>1, <3>2 DEF TaskTypes
  <2> QED BY <2>1
<1> HIDE DEF v, b
<1>6. Edits(a, b, {"task"}) /\ b.task = v /\ b \in Memory
  <2>1. Edits(a, b, {"task"}) /\ b.task = v BY ONLY <1>1, <1>3, a \in Memory, EditTask
  <2> QED BY <2>1 DEF Edits
<1>7. b.abort = "none" /\ b.calls = a.calls /\ b.layer = a.layer BY <1>6 DEF Edits, Fields
<1>8. TaskLight(a, b, None)
  <2>1. \A t \in Tasks : a.task[t] \in TaskTypes BY <1>2
  <2>2. \A t \in Tasks : /\ v[t].id = a.task[t].id /\ v[t].cs = a.task[t].cs
                         /\ v[t].session = a.task[t].session /\ (v[t].timeout => a.task[t].timeout)
    BY <2>1, <1>4 DEF TaskTypes
  <2> QED BY <2>2, <1>6 DEF TaskLight
<1>9. Light(a, b, None)
  <2>1. Edits(a, b, LightFields) BY <1>6 DEF Edits, LightFields
  <2>2. Grows(a.calls, b.calls, Plain(a)) BY <1>2, <1>7, GrowsSame
  <2> QED BY <2>1, <2>2, <1>7, <1>8 DEF Light
<1>10. Goes(a, b, None)
  <2>1. Moves(a, b, GoFields, None) BY <1>9, LightStep, MovesLight
  <2>2. Good(b, None) BY <1>9, LightStep DEF Good, Sound, Book
  <2> QED BY <2>1, <2>2 DEF Goes
<1>11. Leads(a, b, None) BY <1>10, GoesLeads DEF Sound
<1>12. None \notin UserTasks BY TaskNames
<1> QED BY <1>5, <1>6, <1>7, <1>11, <1>12 DEF Leads, Stays, b

(* What outlives the connection is set aside.                               *)
Saves(a, b, s, i, h, q) ==
  b = [a EXCEPT !.saved = s, !.saved_id = i, !.saved_handlers = h, !.q12 = q]

(* The session is set aside.                                                *)
LEMMA EditSaved ==
  ASSUME NEW a \in Memory, NEW s \in Seq(Q12), NEW q \in Seq(Q12), NEW h \in Seq(SubTasks),
         NEW i \in 0 .. (IdMod - 1), NEW b, Saves(a, b, s, i, h, q)
  PROVE  /\ b \in Memory /\ Edits(a, b, {"saved", "saved_id", "saved_handlers", "q12"})
         /\ b.saved = s /\ b.saved_id = i /\ b.q12 = q
BY DEF Saves, Edits, Fields, Memory

(* The tasks that are kept are the stored ones.                             *)
LEMMA SavedStays ==
  ASSUME NEW a \in Memory, a.abort = "none", Sound(a), ~Starting(a), a.data["logic"],
         \A t \in Range(a.q12) : ~a.task[t].timeout
  PROVE  LET b == SaveSession(a)
         IN  /\ Stays(a, b)
             /\ b.abort = "none" =>
                  /\ ~Starting(b) /\ b.data = a.data /\ b.session = a.session
                  /\ b.last_msg_id = a.last_msg_id /\ b.layer = a.layer
                  /\ b.session = "CONTINUE" => \A t \in Range(b.q12) : b.task[t].session # "STORE"
<1> DEFINE b == SaveSession(a)
<1>1. CASE a.session # "CONTINUE"
  <2>1. b = a BY <1>1 DEF SaveSession
  <2>2. Stays(a, a) BY KeepsSame DEF Stays
  <2> QED BY <2>1, <2>2, <1>1
<1>2. CASE a.session = "CONTINUE"
  <2> DEFINE e == Check(a, a.handlers = <<>> \/ a.saved_handlers = <<>>, "saved_handlers")
             s == Kept(a.q12, {t \in Q12 : Stored(a, t)})
             q == Kept(a.q12, {t \in Q12 : ~Stored(a, t)})
             h == IF a.handlers = <<>> THEN e.saved_handlers ELSE a.handlers
             i == a.last_msg_id
  <2>1. Saves(e, b, s, i, h, q) BY <1>2 DEF SaveSession, Saves
  <2>2. e \in Memory /\ (e.abort = "none" => e = a) BY AssertNames, CheckIs
  <2>3. a.q12 \in Seq(Q12) /\ a.last_msg_id \in 0 .. (IdMod - 1) BY FieldsOf
  <2>4. /\ s \in Seq(Q12) /\ Range(s) = Range(a.q12) \cap {t \in Q12 : Stored(a, t)}
        /\ q \in Seq(Q12) /\ Range(q) = Range(a.q12) \cap {t \in Q12 : ~Stored(a, t)}
    BY <2>3, KeptRange
  <2>5. h \in Seq(SubTasks)
    <3>1. e.saved_handlers \in Seq(SubTasks) /\ a.handlers \in Seq(SubTasks) BY <2>2, FieldsOf
    <3> QED BY <3>1
  <2>6. i \in 0 .. (IdMod - 1) /\ i = a.last_msg_id BY <2>3
  <2> HIDE DEF e, s, q, h, b, i
  <2>10. /\ b \in Memory /\ Edits(e, b, {"saved", "saved_id", "saved_handlers", "q12"})
        /\ b.saved = s /\ b.saved_id = a.last_msg_id /\ b.q12 = q
    <3>1. e \in Memory /\ s \in Seq(Q12) /\ q \in Seq(Q12) BY <2>2, <2>4
    <3>2. /\ b \in Memory /\ Edits(e, b, {"saved", "saved_id", "saved_handlers", "q12"})
          /\ b.saved = s /\ b.saved_id = i /\ b.q12 = q
      BY ONLY <2>1, <2>5, <2>6, <3>1, EditSaved
    <3> QED BY <3>2, <2>6
  <2>7. b.abort = e.abort BY <2>10 DEF Edits, Fields
  <2>8. CASE b.abort # "none"
    <3>1. Stays(a, b) BY <2>10, <2>8, StaysAborted
    <3> QED BY <3>1, <2>8 DEF b
  <2>9. CASE b.abort = "none"
    <3>1. /\ b.calls = a.calls /\ b.current = a.current /\ b.keepalive_event = a.keepalive_event
          /\ b.io = a.io /\ b.conn = a.conn /\ b.data = a.data /\ b.connect_handler = a.connect_handler
          /\ b.queue = a.queue /\ b.recv = a.recv /\ b.task = a.task /\ b.q0 = a.q0
          /\ b.outcome = a.outcome /\ b.session = a.session /\ b.shutdown_started = a.shutdown_started
          /\ b.last_msg_id = a.last_msg_id /\ b.layer = a.layer
      BY <2>2, <2>10, <2>7, <2>9 DEF Edits, Fields
    <3>2. /\ Range(b.q12) \subseteq Range(a.q12) /\ Range(b.saved) \subseteq Range(a.q12)
          /\ Range(b.q12) \cap Range(b.saved) = {} /\ Range(a.q12) \subseteq Q12
          /\ \A t \in Range(b.saved) : a.task[t].session = "STORE"
          /\ \A t \in Range(b.q12) : a.task[t].session # "STORE"
          /\ Queued(b) \subseteq Queued(a)
      <4>1. Range(a.q12) \subseteq Q12 BY <2>3, RangeIs
      <4>2. /\ Range(b.q12) \subseteq Range(a.q12) /\ Range(b.saved) \subseteq Range(a.q12)
            /\ Range(b.q12) \cap Range(b.saved) = {}
            /\ \A t \in Range(b.saved) : a.task[t].session = "STORE"
            /\ \A t \in Range(b.q12) : a.task[t].session # "STORE"
        BY <2>4, <2>10 DEF Stored
      <4> QED BY <4>1, <4>2, <3>1 DEF Queued
    <3>3. \A t : Pending(b, t) <=> Pending(a, t) BY <3>1 DEF Pending
    <3>4. Timers(b) /\ Lives(b)
      <4>1. Timers(a) /\ Lives(a) BY DEF Sound, Book, BookBut
      <4>2. Timers(b) BY <4>1, <3>1 DEF Timers, At
      <4> QED BY <4>1, <4>2, <3>1, <3>2, <3>3 DEF Lives
    <3>5. Once(b)
      <4>1. Once(a) BY DEF Sound, Book, BookBut
      <4> QED BY <4>1, <3>1, <3>2, <3>3 DEF Once
    <3>6. Told(b, None) BY <3>1 DEF Sound, Book, BookBut, Told, Heard
    <3>7. Sessions1(b)
      <4>1. Sessions1(a) BY DEF Sound, Book, BookBut
      <4>2. "control" \notin Range(b.saved)
        <5>1. SUFFICES ASSUME "control" \in Range(b.saved) PROVE FALSE OBVIOUS
        <5>2. "control" \in Range(a.q12) /\ a.task["control"].session = "STORE" BY <5>1, <3>2
        <5>3. "control" \in Queued(a) BY <5>2, <3>2, TaskNames DEF Queued
        <5> QED BY <5>2, <5>3, <4>1 DEF Sessions1
      <4> QED BY <4>1, <4>2, <3>1, <3>2, <3>3 DEF Sessions1
    <3>8. Book(b) BY <3>4, <3>5, <3>6, <3>7 DEF Book, BookBut
    <3>9. ~Starting(b) BY <3>1 DEF Starting
    <3>10. StartInv(b) BY <3>1, <3>9 DEF Sound, Fit, StartInv, Starting, Rest
    <3>11. DataInv(b) /\ EndInv(b) /\ CodecInv(b) BY <3>1 DEF Sound, Fit, DataInv, EndInv, CodecInv, Rest
    <3>12. InternalInv(b)
      BY <3>1, <3>2, <3>3 DEF Sound, Fit, InternalInv, ConnectOnce, PingOnce, RestOnce
    <3>13. \A t \in UserTasks : Fate(b, t) = Fate(a, t) BY <3>1 DEF Fate, Heard, WasOk
    <3>14. Keeps(a, b)
      <4>1. Ids(a) => Ids(b) BY <2>10, <3>1, <3>2 DEF Ids
      <4>2. \A m : Names(a, m) => Names(b, m) BY <3>1, <3>2 DEF Names
      <4>3. Mail(a) => Mail(b) BY <3>1, <4>2 DEF Mail, AllName
      <4>4. AllName(a, a.queue) => AllName(b, b.queue) BY <3>1, <4>2 DEF AllName
      <4> QED BY <4>1, <4>2, <4>3, <4>4 DEF Keeps
    <3>15. Stays(a, b)
      BY <2>10, <2>9, <3>8, <3>10, <3>11, <3>12, <3>13, <3>14 DEF Stays, Sound, Fit
    <3> QED BY <3>1, <3>2, <3>9, <3>15 DEF b
  <2> QED BY <2>8, <2>9
<1> QED BY <1>1, <1>2
-----------------------------------------------------------------------------
(* The current task is stopped: its callback gets an error, if any.         *)
LEMMA Q0TimedOut ==
  ASSUME NEW a \in Memory, NEW t \in Q0, Ready(a, t), Good(a, None)
  PROVE  Resumed(a, DoMqttPublishQ0(a, t, "TIMEOUT", NoMsg), t, FALSE)
<1> DEFINE e == Check(a, TRUE, "q0_with_message")
           P(b) == Resumed(a, b, t, FALSE)
<1>1. t \in Tasks BY TaskNames DEF UserTasks
<1>2. e = a BY DEF Check
<1>3. Led(a, a, t) BY LedSame
<1>4. P(a) /\ P(Send(a, t)) BY <1>1, <1>3, LedSend, LedResumed
<1>5. P(FinalizeTask(DeferUsersCallback(a, t, "TIMEOUT"), t))
  <2>1. "TIMEOUT" \in Statuses BY DEF Statuses
  <2>2. Resumed(a, FinalizeTask(DeferUsersCallback(a, t, "TIMEOUT"), t), t, "TIMEOUT" = "OK")
    BY <1>1, <1>3, <2>1, LedFinish
  <2> QED BY <2>2, ResumedMay
<1> HIDE DEF P
<1>6. P(DoMqttPublishQ0(a, t, "TIMEOUT", NoMsg))
  BY <1>2, <1>4, <1>5 DEF DoMqttPublishQ0
<1> QED BY <1>6 DEF P

(* Resuming a task takes none from the saved ones, and adds none.           *)
LEMMA ResumeNarrow ==
  ASSUME NEW a \in Memory, NEW t \in Tasks, Ready(a, t), Good(a, None), NEW st \in Statuses, NEW m
  PROVE  LET b == Resume(a, t, st, m)
         IN  b.abort = "none" => Range(b.q12) \subseteq Range(a.q12) /\ b.last_msg_id = a.last_msg_id
<1> DEFINE b == Resume(a, t, st, m)
           P(e, d) == d.abort = "none" =>
                        /\ e.abort = "none" /\ Range(d.q12) \subseteq Range(e.q12)
                        /\ d.last_msg_id = e.last_msg_id
<1>1. \A e, d, x : Goes(e, d, x) => P(e, d)
  BY DEF Goes, Moves, Narrow, GoFields, LightFields, Fields
<1>2. \A e, x : Led(a, e, x) => P(a, e)
  BY DEF Led, Light, Edits, LightFields, Fields
<1>3. \A e : e \in Memory => P(e, AcceptedOf(e))
  <2>1. ASSUME NEW e \in Memory PROVE P(e, AcceptedOf(e))
    <3>1. Edits(e, AcceptedOf(e), {"calls", "layer", "conn", "keepalive_event"}) BY AcceptedIs
    <3> QED BY <3>1 DEF Edits, Fields
  <2> QED BY <2>1
<1>4. \A e : e \in Memory => P(e, RearmKeepalive(e))
  <2>1. ASSUME NEW e \in Memory PROVE P(e, RearmKeepalive(e))
    <3>1. Edits(e, RearmKeepalive(e), {"keepalive_event"}) BY RearmIs
    <3> QED BY <3>1 DEF Edits, Fields
  <2> QED BY <2>1
<1>5. Goes(a, b, t) \/ Opens(a, b) \/ Rearms(a, b) BY ResumeIs
<1> HIDE DEF b
<1>6. P(a, b)
  <2>1. CASE Goes(a, b, t) BY <2>1, <1>1
  <2>2. CASE Opens(a, b)
    <3>1. PICK e \in Memory : Led(a, e, "connect") /\ Goes(AcceptedOf(e), b, "connect") BY <2>2 DEF Opens
    <3>2. P(a, e) BY <3>1, <1>2
    <3>3. P(e, AcceptedOf(e)) BY <1>3
    <3>4. P(AcceptedOf(e), b) BY <3>1, <1>1
    <3> QED BY <3>2, <3>3, <3>4
  <2>3. CASE Rearms(a, b)
    <3>1. PICK e \in Memory : Led(a, e, "keepalive") /\ Goes(RearmKeepalive(e), b, "keepalive")
      BY <2>3 DEF Rearms
    <3>2. P(a, e) BY <3>1, <1>2
    <3>3. P(e, RearmKeepalive(e)) BY <1>4
    <3>4. P(RearmKeepalive(e), b) BY <3>1, <1>1
    <3> QED BY <3>2, <3>3, <3>4
  <2> QED BY <2>1, <2>2, <2>3, <1>5
<1> QED BY <1>6 DEF b

(* A task that is not to be delivered has no session of its own.            *)
LEMMA CurrentFate ==
  ASSUME NEW a \in Memory, a.abort = "none", Sound(a), NEW t \in UserTasks, t = a.current
  PROVE  /\ t \in Q0 /\ Fate(a, t) = "accepted" /\ ~Heard(a, t) /\ a.task[t].session # "STORE"
         /\ a.task[t].cs \notin {"none", "freed"}
<1>1. At(a, t) BY TaskNames DEF At
<1>2. Ready(a, t) /\ Good(a, None) BY <1>1, LayersTask
<1>3. t \notin Q12
  <2>1. a.current \in (Tasks \ Q12) \cup {None} BY FieldsOf
  <2> QED BY <2>1, TaskNames
<1>4. t \in Q0 BY <1>3 DEF UserTasks, Q12, SubTasks
<1>5. ~Heard(a, t) /\ Fate(a, t) = IF a.task[t].session = "STORE" THEN "stored" ELSE "accepted"
  BY <1>2, ReadyFate
<1>6. a.task[t].session # "STORE"
  <2>1. t \notin Q1 \cup Subs BY <1>3 DEF Q12, SubTasks
  <2> QED BY <2>1 DEF Sound, Book, BookBut, Sessions1
<1> QED BY <1>2, <1>4, <1>5, <1>6 DEF Ready
Stops(a, b) ==
  /\ Ends(a, b)
  /\ b.abort = "none" =>
       /\ ~Starting(b) /\ b.data = a.data /\ b.last_msg_id = a.last_msg_id /\ b.session = a.session
       /\ Range(b.q12) \subseteq Range(a.q12)
       /\ \A t \in UserTasks \ Q0 : Fate(b, t) = Fate(a, t)

(* The current task is resumed or freed at the end,                         *)
LEMMA CurrentResumed ==
  ASSUME NEW a \in Memory, a.abort = "none", Sound(a), ~Starting(a), a.current # None
  PROVE  Stops(a, Resume(a, a.current, "TIMEOUT", NoMsg))
<1> DEFINE t == a.current
           b == Resume(a, t, "TIMEOUT", NoMsg)
<1>1. t \in Tasks /\ At(a, t) /\ t \notin Q12
  <2>1. t \in (Tasks \ Q12) \cup {None} BY FieldsOf
  <2> QED BY <2>1 DEF At
<1>2. "TIMEOUT" \in Statuses BY DEF Statuses
<1>3. Leads(a, b, t) BY <1>1, <1>2, ResumeLeads
<1>4. Ready(a, t) /\ Good(a, None) BY <1>1, LayersTask
<1>5. b.abort = "none" => Range(b.q12) \subseteq Range(a.q12) /\ b.last_msg_id = a.last_msg_id
  BY <1>1, <1>2, <1>4, ResumeNarrow
<1>6. t \in UserTasks => t \in Q0 /\ Fate(a, t) = "accepted" BY CurrentFate
<1>7. b.abort = "none" /\ t \in UserTasks => Ended(a, b, t)
  <2> SUFFICES ASSUME b.abort = "none", t \in UserTasks PROVE Ended(a, b, t) OBVIOUS
  <2>1. t \in Q0 BY <1>6
  <2>2. b = DoMqttPublishQ0(a, t, "TIMEOUT", NoMsg)
    <3>1. t \notin Q1 /\ t \notin SubTasks /\ t \notin {"connect", "keepalive", "shutdown"}
      BY <2>1, TaskAssumption DEF SubTasks, Internal
    <3> QED BY <2>1, <3>1 DEF Resume
  <2>3. Resumed(a, b, t, FALSE) BY <2>1, <2>2, <1>4, Q0TimedOut
  <2>4. t \notin Q1 \cup Subs BY <1>1 DEF Q12, SubTasks
  <2> QED BY <2>3, <2>4, <1>6 DEF Resumed, Outcome, Ended
<1> HIDE DEF b, t
<1>8. Ends(a, b) BY <1>3, <1>7, LeadsEnds
<1>9. b.abort = "none" => \A u \in UserTasks \ Q0 : Fate(b, u) = Fate(a, u)
  BY <1>3, <1>6 DEF Leads
<1> QED BY <1>3, <1>5, <1>8, <1>9 DEF Stops, Leads, b, t

LEMMA CurrentFreed ==
  ASSUME NEW a \in Memory, a.abort = "none", Sound(a), ~Starting(a), a.current # None, NEW b,
         b = [FreeTask(a, a.current) EXCEPT !.current = None]
  PROVE  Stops(a, b) /\ b.current = None
<1> DEFINE t == a.current
<1>1. t \in Tasks /\ At(a, t)
  <2>1. t \in (Tasks \ Q12) \cup {None} BY FieldsOf
  <2> QED BY <2>1 DEF At
<1>2. Ready(a, t) /\ Good(a, None) /\ a.data["logic"] BY <1>1, LayersTask
<1>3. Drops(a, b, t) /\ b.current = None BY FreeCurrent
<1>4. /\ Moves(a, b, GoFields, t) /\ Good(b, None)
      /\ b.abort = "none" => /\ b.task[t].cs = "freed" /\ b.outcome = a.outcome /\ b.calls = a.calls
  <2> HIDE DEF t
  <2>1. b \in Memory BY <1>3 DEF Drops, Edits
  <2>2. /\ Moves(a, b, GoFields, t) /\ Good(b, None)
        /\ b.abort = "none" =>
             /\ t \notin Queued(b) /\ b.task[t].cs = "freed" /\ b.outcome = a.outcome
             /\ b.calls = a.calls /\ b.q0 = a.q0
    BY ONLY a \in Memory, <1>1, <1>2, <1>3, <2>1, DropsBook
  <2> QED BY <2>2
<1>5. Leads(a, b, t) BY <1>2, <1>4, GoesLeads DEF Goes, Sound
<1>6. b.abort = "none" /\ t \in UserTasks => Ended(a, b, t) /\ t \in Q0
  <2> SUFFICES ASSUME b.abort = "none", t \in UserTasks PROVE Ended(a, b, t) /\ t \in Q0 OBVIOUS
  <2>1. t \in Q0 /\ Fate(a, t) = "accepted" /\ ~Heard(a, t) BY CurrentFate
  <2>2. ~Heard(b, t) BY <2>1, <1>4 DEF Heard
  <2>3. Fate(b, t) = "dropped" BY <2>2, <1>4 DEF Fate
  <2> QED BY <2>1, <2>3 DEF Ended
<1>7. b.abort = "none" => Range(b.q12) \subseteq Range(a.q12) /\ b.last_msg_id = a.last_msg_id
  BY <1>4 DEF Moves, Narrow, GoFields, LightFields, Fields
<1> HIDE DEF t
<1>8. Ends(a, b) BY <1>5, <1>6, LeadsEnds
<1>9. b.abort = "none" => \A u \in UserTasks \ Q0 : Fate(b, u) = Fate(a, u) BY <1>5, <1>6 DEF Leads
<1> QED BY <1>3, <1>5, <1>7, <1>8, <1>9 DEF Stops, Leads

(* as xi_mqtt_logic_layer_close_externally decides.                         *)
LEMMA StoppedEnds ==
  ASSUME NEW a \in Memory, a.abort = "none", Sound(a), ~Starting(a)
  PROVE  LET b == StopCurrentTask(a)
         IN  Stops(a, b) /\ (b.abort = "none" => b.current = None)
<1> DEFINE e == Resume(a, a.current, "TIMEOUT", NoMsg)
           f == [FreeTask(e, e.current) EXCEPT !.current = None]
           b == StopCurrentTask(a)
<1>1. b = IF a.current = None THEN a ELSE IF e.current = None THEN e ELSE f BY DEF StopCurrentTask
<1>2. CASE a.current = None
  <2>1. Stays(a, a) BY KeepsSame DEF Stays
  <2>2. Ends(a, a) BY <2>1, StaysEnds
  <2>3. Stops(a, a) BY <2>2 DEF Stops
  <2>4. b = a BY <1>1, <1>2
  <2> QED BY <2>3, <2>4, <1>2
<1>3. CASE a.current # None
  <2>1. Stops(a, e) BY <1>3, CurrentResumed
  <2>2. e \in Memory BY <2>1 DEF Stops, Ends
  <2>3. f = [FreeTask(e, e.current) EXCEPT !.current = None] OBVIOUS
  <2> HIDE DEF e, f
  <2>4. CASE e.current = None
    <3>1. b = e BY <1>1, <1>3, <2>4
    <3> QED BY <3>1, <2>1, <2>4
  <2>5. CASE e.current # None
    <3>1. b = f BY <1>1, <1>3, <2>5
    <3>2. CASE e.abort = "none"
      <4>1. Sound(e) /\ ~Starting(e) BY <2>1, <3>2 DEF Stops, Ends
      <4>2. Stops(e, f) /\ f.current = None BY <2>2, <2>3, <2>5, <3>2, <4>1, CurrentFreed
      <4>3. Ends(a, f) BY <2>1, <4>2, EndsTrans DEF Stops
      <4>4. Stops(a, f) BY <2>1, <4>2, <4>3, <3>2 DEF Stops
      <4> QED BY <3>1, <4>2, <4>4
    <3>3. CASE e.abort # "none"
      <4>1. e.current \in Tasks
        <5>1. e.current \in (Tasks \ Q12) \cup {None} BY <2>2, FieldsOf
        <5> QED BY <5>1, <2>5
      <4>2. Drops(e, f, e.current) BY <2>2, <2>3, <2>5, FreeCurrent
      <4>3. f \in Memory /\ f.abort # "none" BY <4>2, <3>3 DEF Drops, Edits
      <4>4. Stops(a, f) BY <4>3 DEF Stops, Ends
      <4> QED BY <3>1, <4>3, <4>4
    <3> QED BY <3>2, <3>3
  <2> QED BY <2>4, <2>5
<1> QED BY <1>2, <1>3
-----------------------------------------------------------------------------
(* Tasks are freed, wherever they are.                                      *)
LEMMA FreeAllIs ==
  ASSUME NEW a \in Memory, NEW q
  PROVE  LET b == FreeTasks(a, q)
         IN  /\ b \in Memory /\ Edits(a, b, {"task", "abort"})
             /\ b.abort = "none" =>
                  /\ a.abort = "none" /\ \A t \in Range(q) : ~a.task[t].timeout
                  /\ \A t \in Tasks : b.task[t] = IF t \in Range(q) THEN [a.task[t] EXCEPT !.cs = "freed"]
                                                                   ELSE a.task[t]
<1> DEFINE h == \A t \in Range(q) : ~a.task[t].timeout
           e == Check(a, h, "freed_with_timer")
           v == [t \in Tasks |-> IF t \in Range(q) THEN [e.task[t] EXCEPT !.cs = "freed"] ELSE e.task[t]]
           b == FreeTasks(a, q)
<1>1. b = [e EXCEPT !.task = v] BY DEF FreeTasks
<1>2. e \in Memory /\ Edits(a, e, {"abort"}) /\ (e.abort = "none" => e = a /\ h)
  <2> HIDE DEF h
  <2> QED BY AssertNames, CheckIs
<1>3. v \in [Tasks -> TaskTypes]
  <2> HIDE DEF e
  <2>1. e.task \in [Tasks -> TaskTypes] BY <1>2, FieldsOf
  <2>2. ASSUME NEW t \in Tasks PROVE [e.task[t] EXCEPT !.cs = "freed"] \in TaskTypes
    BY <2>1 DEF TaskTypes, Coroutine
  <2> QED BY <2>1, <2>2
<1>4. e.abort = "none" =>
        \A t \in Tasks : v[t] = IF t \in Range(q) THEN [a.task[t] EXCEPT !.cs = "freed"] ELSE a.task[t]
  BY <1>2
<1> HIDE DEF e, v, b
<1>5. Edits(e, b, {"task"}) /\ b.task = v BY ONLY <1>1, <1>2, <1>3, EditTask
<1>6. Edits(a, b, {"task", "abort"})
  <2>1. Edits(a, b, {"abort"} \cup {"task"}) BY <1>2, <1>5, EditsTrans
  <2>2. {"abort"} \cup {"task"} = {"task", "abort"} OBVIOUS
  <2> QED BY <2>1, <2>2
<1>7. b.abort = e.abort BY <1>5 DEF Edits, Fields
<1>8. e.abort = "none" => a.abort = "none" BY <1>2
<1> QED BY <1>2, <1>4, <1>5, <1>6, <1>7, <1>8 DEF Edits, b

(* The layer's data is released.                                            *)
Releases(a, b) ==
  b = [a EXCEPT !.keepalive_event = FALSE, !.data["logic"] = FALSE,
                !.q12 = <<>>, !.q0 = <<>>, !.recv = <<>>, !.handlers = <<>>, !.last_msg_id = 0]
ReleasedFields == {"keepalive_event", "data", "q12", "q0", "recv", "handlers", "last_msg_id"}

(* What is left of the layer's data.                                        *)
LEMMA ReleaseIs ==
  ASSUME NEW a \in Memory, NEW b, Releases(a, b)
  PROVE  /\ b \in Memory /\ Edits(a, b, ReleasedFields) /\ ~b.keepalive_event
         /\ ~b.data["logic"] /\ \A l \in Layers \ {"logic"} : b.data[l] = a.data[l]
         /\ b.q12 = <<>> /\ b.q0 = <<>> /\ b.recv = <<>> /\ b.last_msg_id = 0
<1> DEFINE d == [a.data EXCEPT !["logic"] = FALSE]
<1>1. a.data \in [Layers -> BOOLEAN] BY FieldsOf
<1>2. /\ d \in [Layers -> BOOLEAN] /\ ~d["logic"] /\ \A l \in Layers \ {"logic"} : d[l] = a.data[l]
  BY <1>1 DEF Layers
<1>3. b = [a EXCEPT !.keepalive_event = FALSE, !.data = d,
                    !.q12 = <<>>, !.q0 = <<>>, !.recv = <<>>, !.handlers = <<>>, !.last_msg_id = 0]
  BY Zenon DEF Releases, Memory
<1> HIDE DEF d
<1>4. /\ 0 \in 0 .. (IdMod - 1) /\ FALSE \in BOOLEAN
      /\ <<>> \in Seq(Q12) /\ <<>> \in Seq(Tasks \ Q12) /\ <<>> \in Seq(AckMessages) /\ <<>> \in Seq(SubTasks)
  <2>1. 0 \in 0 .. (IdMod - 1) BY TaskAssumption
  <2>2. \A T : <<>> \in Seq(T) OBVIOUS
  <2> QED BY ONLY <2>1, <2>2
<1>7. d \in [Layers -> BOOLEAN] BY <1>2
<1>5. /\ b \in Memory /\ b.keepalive_event = FALSE /\ b.data = d /\ b.q12 = <<>> /\ b.q0 = <<>> /\ b.recv = <<>>
      /\ b.last_msg_id = 0
  BY ONLY <1>3, <1>4, <1>7, a \in Memory DEF Memory
<1>6. Edits(a, b, ReleasedFields) BY <1>3, <1>5 DEF Edits, Fields, ReleasedFields, Memory
<1> QED BY <1>2, <1>5, <1>6

(* Two queues, one after the other.                                         *)
LEMMA RangeConcat ==
  ASSUME NEW T, NEW p \in Seq(T), NEW q \in Seq(T)
  PROVE  Range(p \o q) = Range(p) \cup Range(q)
<1> DEFINE r == p \o q
<1>1. /\ r \in Seq(T) /\ Len(r) = Len(p) + Len(q) /\ Len(q) \in Nat /\ Len(p) \in Nat
      /\ \A i \in 1 .. Len(r) : r[i] = IF i <= Len(p) THEN p[i] ELSE q[i - Len(p)]
  OBVIOUS
<1>2. /\ Range(r) = {r[i] : i \in 1 .. Len(r)} /\ Range(q) = {q[i] : i \in 1 .. Len(q)}
      /\ Range(p) = {p[i] : i \in 1 .. Len(p)}
  <2>1. r \in Seq(T) BY <1>1
  <2> HIDE DEF r
  <2>2. Range(r) = {r[i] : i \in 1 .. Len(r)} BY <2>1, RangeIs
  <2>3. Range(q) = {q[i] : i \in 1 .. Len(q)} BY RangeIs
  <2>4. Range(p) = {p[i] : i \in 1 .. Len(p)} BY RangeIs
  <2> QED BY <2>2, <2>3, <2>4
<1> HIDE DEF r
<1>3. ASSUME NEW y \in Range(r) PROVE y \in Range(p) \cup Range(q)
  <2>1. PICK i \in 1 .. Len(r) : y = r[i] BY <1>2
  <2>2. CASE i <= Len(p)
    <3>1. i \in 1 .. Len(p) /\ y = p[i] BY <2>1, <2>2, <1>1
    <3> QED BY <3>1, <1>2
  <2>3. CASE ~(i <= Len(p))
    <3>1. i - Len(p) \in 1 .. Len(q) /\ y = q[i - Len(p)] BY <2>1, <2>3, <1>1
    <3> QED BY <3>1, <1>2
  <2> QED BY <2>2, <2>3
<1>4. ASSUME NEW y \in Range(p) PROVE y \in Range(r)
  <2>1. PICK i \in 1 .. Len(p) : y = p[i] BY <1>2
  <2>2. i \in 1 .. Len(r) /\ y = r[i] BY <2>1, <1>1
  <2> QED BY <2>2, <1>2
<1>5. ASSUME NEW y \in Range(q) PROVE y \in Range(r)
  <2>1. PICK i \in 1 .. Len(q) : y = q[i] BY <1>2
  <2>2. Len(p) + i \in 1 .. Len(r) /\ ~(Len(p) + i <= Len(p)) /\ (Len(p) + i) - Len(p) = i
    BY <1>1
  <2>3. y = r[Len(p) + i] BY <2>1, <2>2, <1>1
  <2> QED BY <2>2, <2>3, <1>2
<1> QED BY <1>3, <1>4, <1>5 DEF r

(* The tasks that were not kept are freed.                                  *)
LEMMA ReleasedEnds ==
  ASSUME NEW a \in Memory, a.abort = "none", Sound(a), ~Starting(a), a.data["logic"], ~a.data["codec"],
         a.current = None, \A t \in UserTasks \cap Range(a.q12) : Fate(a, t) = "stored" => a.session = "CLEAN",
         NEW b, Releases(FreeTasks(a, a.q12 \o a.q0), b)
  PROVE  Ends(a, b) /\ (b.abort = "none" => ~Starting(b) /\ ~b.data["logic"])
<1> DEFINE q == a.q12 \o a.q0
           e == FreeTasks(a, q)
           S == Range(q)
<1>1. /\ a.q12 \in Seq(Q12) /\ a.q0 \in Seq(Tasks \ Q12) /\ a.saved \in Seq(Q12) /\ a.calls \in Seq(Calls)
      /\ a.task \in [Tasks -> TaskTypes]
  BY FieldsOf
<1>2. /\ Range(a.q12) \subseteq Q12 /\ Range(a.q0) \subseteq Tasks \ Q12 /\ Range(a.saved) \subseteq Q12
      /\ S = Range(a.q12) \cup Range(a.q0)
  <2>1. Range(a.q12) \subseteq Q12 /\ Range(a.q0) \subseteq Tasks \ Q12 /\ Range(a.saved) \subseteq Q12
    <3>1. Range(a.q12) \subseteq Q12 BY <1>1, RangeIs
    <3>2. Range(a.q0) \subseteq Tasks \ Q12 BY <1>1, RangeIs
    <3>3. Range(a.saved) \subseteq Q12 BY <1>1, RangeIs
    <3> QED BY <3>1, <3>2, <3>3
  <2>2. Q12 \subseteq Tasks BY TaskNames
  <2>3. a.q12 \in Seq(Tasks) /\ a.q0 \in Seq(Tasks)
    <3>1. \A A, B : A \subseteq B => Seq(A) \subseteq Seq(B) OBVIOUS
    <3> QED BY ONLY <3>1, <2>2, <1>1
  <2> QED BY <2>1, <2>3, RangeConcat
<1>3. /\ e \in Memory /\ Edits(a, e, {"task", "abort"})
      /\ e.abort = "none" =>
           /\ \A t \in S : ~a.task[t].timeout
           /\ \A t \in Tasks : e.task[t] = IF t \in S THEN [a.task[t] EXCEPT !.cs = "freed"] ELSE a.task[t]
  BY FreeAllIs
<1>4. Releases(e, b) OBVIOUS
<1> HIDE DEF q, e, S
<1>5. /\ b \in Memory /\ Edits(e, b, ReleasedFields) /\ ~b.keepalive_event
      /\ ~b.data["logic"] /\ (\A l \in Layers \ {"logic"} : b.data[l] = e.data[l])
      /\ b.q12 = <<>> /\ b.q0 = <<>> /\ b.recv = <<>> /\ b.last_msg_id = 0
  BY <1>3, <1>4, ReleaseIs
<1>6. b.abort = e.abort /\ b.task = e.task BY <1>5 DEF Edits, Fields, ReleasedFields
<1>7. CASE b.abort # "none" BY <1>5, <1>7 DEF Ends
<1>8. CASE b.abort = "none"
  <2>1. /\ b.calls = a.calls /\ b.current = None /\ b.saved = a.saved /\ b.saved_id = a.saved_id
        /\ b.io = a.io /\ b.conn = a.conn /\ b.connect_handler = a.connect_handler
        /\ b.queue = a.queue /\ b.outcome = a.outcome /\ b.session = a.session
        /\ b.shutdown_started = a.shutdown_started
    BY <1>3, <1>5 DEF Edits, Fields, ReleasedFields
  <2>2. /\ \A l \in Layers \ {"logic"} : b.data[l] = a.data[l]
        /\ b.data["codec"] = a.data["codec"] /\ b.data["io"] = a.data["io"] /\ b.data["top"] = a.data["top"]
    BY <1>3, <1>5 DEF Edits, Fields, Layers
  <2>3. /\ \A t \in S : ~a.task[t].timeout
        /\ \A t \in Tasks : b.task[t] = IF t \in S THEN [a.task[t] EXCEPT !.cs = "freed"] ELSE a.task[t]
    BY <1>3, <1>6, <1>8
  <2>4. Queued(b) = Range(a.saved) \ {None} /\ Queued(b) \subseteq Queued(a)
    BY <1>5, <2>1, RangeEmpty DEF Queued
  <2>5. S \subseteq Queued(a) /\ S \subseteq Tasks /\ S \cap Queued(b) = {}
    <3>1. Range(a.q12) \cap Range(a.saved) = {} BY DEF Sound, Book, BookBut, Once
    <3>2. Range(a.q0) \cap Range(a.saved) = {} BY <1>2
    <3>3. S \subseteq Tasks /\ None \notin Tasks BY <1>2, TaskNames
    <3>4. S \cap Range(a.saved) = {} BY <3>1, <3>2, <1>2
    <3>5. S \subseteq Queued(a) BY <3>3, <1>2 DEF Queued
    <3> QED BY <3>3, <3>4, <3>5, <2>4
  <2>6. Clears(a, b, S)
    <3>1. \A t \in S : a.task[t].cs # "none" /\ ~Pending(a, t)
      BY <2>5 DEF Sound, Book, BookBut, Lives, Once
    <3>2. \A t \in Tasks : At(a, t) => ~b.task[t].timeout
      <4>1. ASSUME NEW t \in Tasks, At(a, t) PROVE ~b.task[t].timeout
        <5>1. t \in S BY <4>1, <1>2, TaskNames DEF At
        <5>2. b.task[t] = [a.task[t] EXCEPT !.cs = "freed"] /\ ~a.task[t].timeout BY <5>1, <2>3
        <5>3. a.task[t] \in TaskTypes BY <1>1
        <5> QED BY <5>2, <5>3 DEF TaskTypes
      <4> QED BY <4>1
    <3>3. Distinct(b.q0) /\ b.current \notin Range(b.q0) /\ Range(b.q12) \cap Range(b.saved) = {}
      BY <1>5, RangeEmpty DEF Distinct
    <3>4. "control" \notin Range(b.saved) BY <2>1 DEF Sound, Book, BookBut, Sessions1
    <3> QED BY <3>1, <3>2, <3>3, <3>4, <2>1, <2>3, <2>4, <2>5 DEF Clears
  <2>7. S \in SUBSET Tasks BY <2>5
  <2>8. /\ Book(b) /\ \A t : Pending(b, t) <=> Pending(a, t)
        /\ \A t \in UserTasks \ S : Fate(b, t) = Fate(a, t)
        /\ \A t \in UserTasks : t \in S =>
             \/ Fate(b, t) = Fate(a, t)
             \/ Fate(a, t) = "accepted" /\ Fate(b, t) = "dropped"
             \/ Fate(a, t) = "stored" /\ Fate(b, t) = "dropped" /\ a.task[t].session = "STORE"
    <3>1. Book(a) BY DEF Sound
    <3> QED BY <3>1, <2>6, <2>7, <1>5, ClearsBook
  <2>9. \A t \in UserTasks : Ended(a, b, t)
    <3>1. ASSUME NEW t \in UserTasks, t \in S, a.task[t].session = "STORE", Fate(a, t) = "stored"
          PROVE  a.session = "CLEAN"
      <4>1. t \in Q1 \cup Subs BY <3>1 DEF Sound, Book, BookBut, Sessions1
      <4>2. t \in Q12 BY <4>1 DEF Q12, SubTasks
      <4>3. t \in Range(a.q12) BY <4>2, <3>1, <1>2
      <4> QED BY <4>3, <3>1
    <3> QED BY <3>1, <2>8 DEF Ended
  <2>10. ~Starting(b) BY <2>1 DEF Starting
  <2>11. StartInv(b)
    <3>1. ~Has(b.calls, Inits) /\ b.io # "connecting" BY <2>10 DEF Starting
    <3>2. \A T : T \subseteq Inits => ~Has(b.calls, T) BY <3>1 DEF Has
    <3>3. /\ LogicInits \subseteq Inits /\ Kind("codec", "init") \subseteq Inits
          /\ Kind("io", "init") \subseteq Inits /\ Kind("io", "connect") \subseteq Inits
          /\ With("codec", "connect", "OK") \cup With("logic", "connect", "OK") \subseteq Inits
          /\ Inits \ LogicInits \subseteq Inits
      BY DEF Inits
    <3>4. One(b.calls, Inits) BY <3>1 DEF One, Has
    <3> HIDE DEF Has
    <3> QED BY <3>1, <3>2, <3>3, <3>4, <2>10 DEF StartInv
  <2>12. DataInv(b)
    <3>1. DataInv(a) BY DEF Sound, Fit
    <3> QED BY <3>1, <1>5, <2>1, <2>2 DEF DataInv, Rest
  <2>13. EndInv(b) /\ CodecInv(b) BY <1>5, <2>1, <2>2 DEF Sound, Fit, EndInv, CodecInv
  <2>14. InternalInv(b)
    <3>1. "connect" \notin Queued(b) BY <2>4, <1>2, TaskNames
    <3> QED BY <3>1, <1>5, <2>1, <2>4, <2>8 DEF Sound, Fit, InternalInv, ConnectOnce, PingOnce, RestOnce
  <2>15. Keeps(a, b)
    <3>1. \A t \in Tasks : b.task[t].id = a.task[t].id /\ (a.task[t].cs # "none" => b.task[t].cs # "none")
      <4>1. \A t \in Tasks : a.task[t] \in TaskTypes BY <1>1
      <4> QED BY <4>1, <2>3 DEF TaskTypes
    <3>2. Ids(a) => Ids(b)
      <4>1. \A t \in Range(a.saved) : b.task[t].id = a.task[t].id BY <3>1, <1>2, TaskNames
      <4> QED BY <4>1, <1>5, <2>1, RangeEmpty DEF Ids
    <3>3. \A m : Names(a, m) => Names(b, m) BY <3>1, <1>5, TaskNames DEF Names
    <3>4. Mail(a) => Mail(b) BY <2>1, <3>3 DEF Mail, AllName
    <3>5. AllName(a, a.queue) => AllName(b, b.queue) BY <2>1, <3>3 DEF AllName
    <3> QED BY <3>2, <3>3, <3>4, <3>5 DEF Keeps
  <2> QED BY <1>5, <1>8, <2>8, <2>9, <2>10, <2>11, <2>12, <2>13, <2>14, <2>15 DEF Ends, Sound, Fit
<1> QED BY <1>7, <1>8
-----------------------------------------------------------------------------
(* After a failed assertion the handler goes on, and nothing is known.      *)
LEMMA StopAborted ==
  ASSUME NEW a \in Memory, a.abort # "none"
  PROVE  StopCurrentTask(a) \in Memory /\ StopCurrentTask(a).abort # "none"
<1> DEFINE t == a.current
           b == Resume(a, t, "TIMEOUT", NoMsg)
           d == [FreeTask(b, b.current) EXCEPT !.current = None]
           e == StopCurrentTask(a)
<1>1. e = IF t = None THEN a ELSE IF b.current = None THEN b ELSE d BY DEF StopCurrentTask
<1>2. CASE t = None BY <1>1, <1>2
<1>3. CASE t # None
  <2>1. t \in Tasks BY <1>3, FieldsOf
  <2>2. Ready(a, t) /\ Good(a, None) BY DEF Ready, Good
  <2>3. \/ Goes(a, b, t)
        \/ t = "connect" /\ Opens(a, b)
        \/ t = "keepalive" /\ Rearms(a, b)
    <3>1. "TIMEOUT" \in Statuses BY DEF Statuses
    <3> HIDE DEF t
    <3> QED BY <2>1, <2>2, <3>1, ResumeIs
  <2> HIDE DEF t, b, e
  <2>4. b \in Memory /\ b.abort # "none"
    <3>1. CASE Goes(a, b, t) BY <3>1 DEF Goes, Moves
    <3>2. CASE Opens(a, b)
      <4>1. PICK f \in Memory : Led(a, f, "connect") /\ Goes(AcceptedOf(f), b, "connect") BY <3>2 DEF Opens
      <4>2. f.abort # "none" BY <4>1 DEF Led, Light
      <4>3. AcceptedOf(f).abort # "none" BY <4>2, AcceptedIs
      <4> QED BY <4>1, <4>3 DEF Goes, Moves
    <3>3. CASE Rearms(a, b)
      <4>1. PICK f \in Memory : Led(a, f, "keepalive") /\ Goes(RearmKeepalive(f), b, "keepalive")
        BY <3>3 DEF Rearms
      <4>2. f.abort # "none" BY <4>1 DEF Led, Light
      <4>3. RearmKeepalive(f).abort # "none" BY <4>2, RearmIs
      <4> QED BY <4>1, <4>3 DEF Goes, Moves
    <3> QED BY <2>3, <3>1, <3>2, <3>3
  <2>5. b.current # None => d \in Memory /\ d.abort # "none"
    <3>1. d = [FreeTask(b, b.current) EXCEPT !.current = None] OBVIOUS
    <3> HIDE DEF d
    <3>2. b.current # None => Drops(b, d, b.current) BY ONLY <2>4, <3>1, FreeCurrent
    <3> QED BY <3>2, <2>4 DEF Drops, Edits
  <2>6. e = IF b.current = None THEN b ELSE d BY <1>1, <1>3 DEF t
  <2> QED BY ONLY <2>4, <2>5, <2>6 DEF e
<1> QED BY <1>2, <1>3

(* A failed assertion stays failed.                                         *)
LEMMA ReleaseAborted ==
  ASSUME NEW a \in Memory, a.abort # "none", NEW q, NEW b, Releases(FreeTasks(a, q), b)
  PROVE  b \in Memory /\ b.abort # "none"
<1> DEFINE e == FreeTasks(a, q)
<1>1. e \in Memory /\ e.abort # "none"
  <2>1. e \in Memory /\ Edits(a, e, {"task", "abort"}) /\ (e.abort = "none" => a.abort = "none") BY FreeAllIs
  <2> QED BY <2>1
<1>2. Releases(e, b) OBVIOUS
<1> HIDE DEF e
<1>3. b \in Memory /\ Edits(e, b, ReleasedFields) BY ONLY <1>1, <1>2, ReleaseIs
<1> QED BY <1>1, <1>3 DEF Edits, Fields, ReleasedFields

(* The layer gives everything up, in the order of the code.                 *)
LEMMA ResetEnds ==
  ASSUME NEW a \in Memory, a.abort = "none", Sound(a), ~Starting(a), a.data["logic"], ~a.data["codec"],
         NEW b, b = StopCurrentTask(SaveSession(DisableTimeouts(a))),
         NEW d, Releases(FreeTasks(b, b.q12 \o b.q0), d)
  PROVE  Ends(a, d) /\ (d.abort = "none" => ~Starting(d) /\ ~d.data["logic"])
<1> DEFINE e == DisableTimeouts(a)
           f == SaveSession(e)
<1>1. b = StopCurrentTask(f) OBVIOUS
<1>2. /\ Stays(a, e) /\ e \in Memory /\ Edits(a, e, {"task"}) /\ ~Starting(e) /\ Sound(e)
      /\ \A t \in Range(a.q12) : ~e.task[t].timeout
  BY DisabledStays
<1>3. /\ e.abort = "none" /\ e.data = a.data /\ e.q12 = a.q12 /\ e.session = a.session
      /\ e.last_msg_id = a.last_msg_id
  BY <1>2 DEF Edits, Fields
<1>4. /\ Stays(e, f)
      /\ f.abort = "none" =>
           /\ ~Starting(f) /\ f.data = e.data /\ f.session = e.session
           /\ f.last_msg_id = e.last_msg_id /\ f.layer = e.layer
           /\ f.session = "CONTINUE" => \A t \in Range(f.q12) : f.task[t].session # "STORE"
  <2> HIDE DEF e
  <2>1. e.data["logic"] /\ \A t \in Range(e.q12) : ~e.task[t].timeout BY <1>2, <1>3
  <2> QED BY <1>2, <1>3, <2>1, SavedStays
<1> HIDE DEF e, f
<1>5. f \in Memory BY <1>4 DEF Stays
<1>6. ASSUME b \in Memory, b.abort # "none"
      PROVE  Ends(a, d) /\ (d.abort = "none" => ~Starting(d) /\ ~d.data["logic"])
  <2>1. d \in Memory /\ d.abort # "none" BY <1>6, ReleaseAborted
  <2> QED BY <2>1 DEF Ends
<1>7. CASE f.abort # "none"
  <2>1. b \in Memory /\ b.abort # "none" BY <1>1, <1>5, <1>7, StopAborted
  <2> QED BY <2>1, <1>6
<1>8. CASE f.abort = "none"
  <2>1. Sound(f) /\ ~Starting(f) BY <1>4, <1>8 DEF Stays
  <2>2. Stops(f, b) /\ (b.abort = "none" => b.current = None) BY <1>1, <1>5, <1>8, <2>1, StoppedEnds
  <2>3. b \in Memory BY <2>2 DEF Stops, Ends
  <2>4. CASE b.abort # "none" BY <2>3, <2>4, <1>6
  <2>5. CASE b.abort = "none"
    <3>1. /\ Ends(f, b) /\ Sound(b) /\ ~Starting(b) /\ b.data = f.data /\ b.last_msg_id = f.last_msg_id
          /\ b.session = f.session /\ Range(b.q12) \subseteq Range(f.q12) /\ b.current = None
          /\ \A t \in UserTasks \ Q0 : Fate(b, t) = Fate(f, t)
      BY <2>2, <2>5 DEF Stops, Ends
    <3>2. b.data["logic"] /\ ~b.data["codec"] BY <3>1, <1>3, <1>4, <1>8
    <3>3. \A t \in UserTasks \cap Range(b.q12) : Fate(b, t) = "stored" => b.session = "CLEAN"
      <4> SUFFICES ASSUME NEW t \in UserTasks, t \in Range(b.q12), Fate(b, t) = "stored", b.session # "CLEAN"
                   PROVE  FALSE
        OBVIOUS
      <4>1. f.session = "CONTINUE" BY <3>1, <1>5, FieldsOf
      <4>2. t \in Range(f.q12) BY <3>1
      <4>3. t \in Q12
        <5>1. f.q12 \in Seq(Q12) BY <1>5, FieldsOf
        <5> QED BY <5>1, <4>2, RangeIs
      <4>4. Fate(f, t) = "stored" BY <3>1, <4>3, TaskNames
      <4>5. f.task[t].session = "STORE"
        <5>1. Fate(f, t) = "stored" => f.task[t].session = "STORE" BY DEF Fate
        <5> QED BY <5>1, <4>4
      <4> QED BY <4>1, <4>2, <4>5, <1>4, <1>8
    <3>4. Ends(b, d) /\ (d.abort = "none" => ~Starting(d) /\ ~d.data["logic"])
      BY ONLY <2>3, <2>5, <3>1, <3>2, <3>3, Releases(FreeTasks(b, b.q12 \o b.q0), d), ReleasedEnds
    <3>5. Stays(a, f) BY <1>2, <1>4, StaysTrans
    <3>6. f.last_msg_id = a.last_msg_id /\ f.session = a.session BY <1>3, <1>4, <1>8
    <3>7. Ends(a, b) BY <3>1, <3>5, <3>6, StaysThenEnds
    <3>8. Ends(a, d) BY <3>1, <3>4, <3>6, <3>7, EndsTrans
    <3> QED BY <3>4, <3>8
  <2> QED BY <2>4, <2>5
<1> QED BY <1>7, <1>8

(* xi_mqtt_logic_layer_close_externally.                                    *)
LEMMA LogicCloseEnds ==
  ASSUME c \in Memory, Running, Sound(c), LogicCloseExternally
  PROVE  Ends(c, c') /\ ~c.data["io"]
<1> DEFINE a == Popped
           st == Call.st
           b == StopCurrentTask(SaveSession(DisableTimeouts(a)))
           d == [FreeTasks(b, b.q12 \o b.q0)
                   EXCEPT !.keepalive_event = FALSE, !.data["logic"] = FALSE,
                          !.q12 = <<>>, !.q0 = <<>>, !.recv = <<>>, !.handlers = <<>>,
                          !.last_msg_id = 0]
           i == ContinueWith(a, "logic", "connect", "logic", NoMsg, st)
           j == ContinueWith(a, "logic", "close_externally", "top", NoMsg, st)
           k == ContinueWith(d, "logic", "close_externally", "top", NoMsg, st)
<1>1. /\ Called("logic", "close_externally")
      /\ c' = IF st # "OK" /\ a.layer["logic"] = "CONNECTING" THEN i
              ELSE IF a.data["logic"] THEN k ELSE j
  BY DEF LogicCloseExternally, Becomes, LogicCloseExternallyHandler, OnThis, OnSucc, Succ
<1>2. /\ a \in Memory /\ Popped1(c, a, Call) /\ Call.layer = "logic" /\ Call.fn = "close_externally"
      /\ Call \in Calls /\ st \in Statuses /\ c.abort = "none" /\ a.abort = "none" /\ a.data = c.data
  BY <1>1, CalledIs
<1>3. Call \notin Inits /\ Call \notin Users /\ Call \in Gone("logic") BY <1>2, KindOf
<1>4. Stays(c, a) /\ Sound(a) /\ ~Starting(a) BY <1>1, <1>3, CalledStays
<1>5. ~a.data["codec"] /\ ~c.data["io"]
  <2>1. Plus(c.calls, a.calls, Call, Gone("logic")) BY <1>2 DEF Popped1, Sums
  <2>2. ~c.data["codec"] BY <2>1, <1>2, <1>3 DEF Plus, Sound, Fit, EndInv
  <2> QED BY <2>2, <1>2 DEF Sound, Fit, DataInv
<1>6. {"top", "logic"} \subseteq Layers BY DEF Layers
<1>7. b = StopCurrentTask(SaveSession(DisableTimeouts(a))) /\ Releases(FreeTasks(b, b.q12 \o b.q0), d)
  BY DEF Releases
<1>8. a.last_msg_id = c.last_msg_id /\ a.session = c.session BY <1>2 DEF Popped1, Edits, Fields
<1> HIDE DEF a, st, b, d
<1>9. CASE c' = i /\ st # "OK"
  <2>1. Stays(a, i) BY <1>2, <1>4, <1>6, <1>9, SayStays
  <2> QED BY <2>1, <1>4, <1>5, <1>9, StaysTrans, StaysEnds
<1>10. CASE c' = j /\ ~a.data["logic"]
  <2>1. Stays(a, j) BY <1>2, <1>4, <1>6, <1>10, SayStays
  <2> QED BY <2>1, <1>4, <1>5, <1>10, StaysTrans, StaysEnds
<1>11. CASE c' = k /\ a.data["logic"]
  <2>1. Ends(a, d) /\ (d.abort = "none" => ~Starting(d) /\ ~d.data["logic"])
    BY ONLY <1>2, <1>4, <1>5, <1>7, <1>11, ResetEnds
  <2>2. d \in Memory BY <2>1 DEF Ends
  <2>3. Ends(a, k)
    <3>1. CASE d.abort = "none"
      <4>1. Sound(d) BY <2>1, <3>1 DEF Ends
      <4>2. Stays(d, k) BY <1>2, <1>6, <2>1, <2>2, <3>1, <4>1, SayStays
      <4> QED BY <2>1, <4>2, EndsThenStays
    <3>2. CASE d.abort # "none"
      <4> DEFINE n == [layer |-> "top", fn |-> "close_externally", arg |-> NoMsg, st |-> st]
      <4>1. n \in Calls BY <1>2, <1>6, QuietCall
      <4>2. Said(d, k, "logic", n) BY <2>2, <1>6, <4>1, SaidIs
      <4>3. k \in Memory /\ k.abort = d.abort BY <4>2 DEF Said, Edits, Fields
      <4> QED BY <4>3, <3>2 DEF Ends
    <3> QED BY <3>1, <3>2
  <2>4. Ends(c, k) BY <1>4, <1>8, <2>3, StaysThenEnds
  <2> QED BY <2>4, <1>5, <1>11
<1> QED BY <1>1, <1>9, <1>10, <1>11
-----------------------------------------------------------------------------
(* A connection begins: the layer gets its data, ...                        *)
Loads(a, b) ==
  b = [a EXCEPT !.q12 = a.saved, !.last_msg_id = a.saved_id, !.saved_id = 0,
                !.handlers = a.saved_handlers]

(* The session that was set aside comes back.                               *)
LEMMA LoadIs ==
  ASSUME NEW a \in Memory, NEW b, Loads(a, b)
  PROVE  /\ Edits(a, b, {"q12", "last_msg_id", "saved_id", "handlers"})
         /\ b.q12 = a.saved /\ b.last_msg_id = a.saved_id
<1>1. 0 \in 0 .. (IdMod - 1) BY TaskAssumption
<1>2. a.saved \in Seq(Q12) /\ a.saved_id \in 0 .. (IdMod - 1) /\ a.saved_handlers \in Seq(SubTasks) BY FieldsOf
<1> DEFINE s == a.saved
           i == a.saved_id
           h == a.saved_handlers
<1>3. b = [a EXCEPT !.q12 = s, !.last_msg_id = i, !.saved_id = 0, !.handlers = h] BY DEF Loads
<1>4. s \in Seq(Q12) /\ i \in 0 .. (IdMod - 1) /\ h \in Seq(SubTasks) BY <1>2
<1> HIDE DEF s, i, h
<1>5. b \in Memory /\ b.q12 = s /\ b.last_msg_id = i BY ONLY <1>1, <1>3, <1>4, a \in Memory DEF Memory
<1>6. Edits(a, b, {"q12", "last_msg_id", "saved_id", "handlers"})
  BY ONLY <1>3, <1>5, a \in Memory DEF Edits, Fields, Memory
<1> QED BY <1>5, <1>6 DEF s, i

(* ... forgets what was set aside for it, and is opening.                   *)
Takes1(a, b) ==
  b = [a EXCEPT !.saved = <<>>, !.saved_handlers = <<>>, !.data["logic"] = TRUE, !.conn = "OPENING"]

(* What a new connection starts with.                                       *)
LEMMA TakeIs ==
  ASSUME NEW a \in Memory, NEW b, Takes1(a, b)
  PROVE  /\ Edits(a, b, {"saved", "saved_handlers", "data", "conn"})
         /\ b.saved = <<>> /\ b.conn = "OPENING" /\ b.data["logic"]
         /\ \A l \in Layers \ {"logic"} : b.data[l] = a.data[l]
<1> DEFINE d == [a.data EXCEPT !["logic"] = TRUE]
<1>1. a.data \in [Layers -> BOOLEAN] BY FieldsOf
<1>2. /\ d \in [Layers -> BOOLEAN] /\ d["logic"] /\ \A l \in Layers \ {"logic"} : d[l] = a.data[l]
  BY <1>1 DEF Layers
<1>3. b = [a EXCEPT !.saved = <<>>, !.saved_handlers = <<>>, !.data = d, !.conn = "OPENING"]
  BY Zenon DEF Takes1, Memory
<1> HIDE DEF d
<1>4. /\ <<>> \in Seq(Q12) /\ <<>> \in Seq(SubTasks) /\ "OPENING" \in ConnectionStates
  <2>1. \A T : <<>> \in Seq(T) OBVIOUS
  <2> QED BY <2>1 DEF ConnectionStates
<1>5. d \in [Layers -> BOOLEAN] BY <1>2
<1>6. b \in Memory /\ b.saved = <<>> /\ b.conn = "OPENING" /\ b.data = d
  BY ONLY <1>3, <1>4, <1>5, a \in Memory DEF Memory
<1>7. Edits(a, b, {"saved", "saved_handlers", "data", "conn"})
  BY ONLY <1>3, <1>6, a \in Memory DEF Edits, Fields, Memory
<1> QED BY <1>2, <1>6, <1>7

(* Before the connection begins, nothing is held but what was set aside.    *)
Empty(a) ==
  /\ Book(a) /\ a.abort = "none" /\ Only(a.calls, Inits \cup Users) /\ ~Has(a.calls, Inits)
  /\ a.current = None /\ a.q0 = <<>> /\ a.q12 = <<>> /\ a.recv = <<>> /\ ~a.keepalive_event
  /\ (\A t \in Tasks : ~a.task[t].timeout) /\ Internal \cap Queued(a) = {}
  /\ ~a.data["codec"] /\ ~a.data["io"] /\ a.io = "idle" /\ a.queue = <<>> /\ ~a.connect_handler

(* The call of the layer's init is the only one of its kind.                *)
LEMMA InitPopped ==
  ASSUME c \in Memory, Running, Sound(c), Called("logic", "init")
  PROVE  /\ Popped \in Memory /\ Empty(Popped) /\ ~c.data["logic"] /\ ~c.data["io"]
         /\ \A t \in UserTasks : Fate(Popped, t) = Fate(c, t)
         /\ Keeps(c, Popped)
<1> DEFINE a == Popped
<1>1. /\ a \in Memory /\ Popped1(c, a, Call) /\ Call.layer = "logic" /\ Call.fn = "init" /\ Call \in Calls
      /\ c.abort = "none"
  BY CalledIs
<1> HIDE DEF a
<1>2. Call \in LogicInits /\ Call \in Inits /\ \A t : Call \notin CallbackOf(t) BY <1>1, KindOf
<1>3. Book(a) /\ Queued(a) = Queued(c) /\ \A t \in UserTasks : Fate(a, t) = Fate(c, t)
  BY <1>1, <1>2, PopBook DEF Sound
<1>4. ~Starting(a) /\ Starting(c) /\ Has(c.calls, LogicInits)
  <2>1. ~Starting(a) BY <1>1, <1>2, PopFit DEF Sound
  <2>2. Plus(c.calls, a.calls, Call, LogicInits) /\ Plus(c.calls, a.calls, Call, Inits)
    BY <1>1 DEF Popped1, Sums
  <2>3. Has(c.calls, LogicInits) /\ Has(c.calls, Inits) BY <2>2, <1>2 DEF Plus
  <2> HIDE DEF Has
  <2> QED BY <2>1, <2>3 DEF Starting
<1>5. /\ Only(c.calls, Inits \cup Users) /\ (\A t \in Tasks : ~c.task[t].timeout)
      /\ Internal \cap Queued(c) = {} /\ ~c.data["logic"] /\ ~c.connect_handler
  <2> HIDE DEF Has, Only, One
  <2> QED BY <1>4 DEF Sound, Fit, StartInv
<1>6. Only(a.calls, Inits \cup Users) BY <1>1, <1>5 DEF Popped1, Sums
<1>7. /\ c.current = None /\ c.q0 = <<>> /\ c.q12 = <<>> /\ c.recv = <<>>
      /\ ~c.keepalive_event /\ ~c.data["codec"] /\ ~c.data["io"] /\ c.io = "idle" /\ c.queue = <<>>
  BY <1>5, NoneHeld
<1>8. \A f \in Fields \ {"calls"} : a[f] = c[f] BY <1>1 DEF Popped1, Edits
<1>9. /\ a.abort = c.abort /\ a.current = c.current /\ a.q0 = c.q0 /\ a.q12 = c.q12 /\ a.recv = c.recv
      /\ a.keepalive_event = c.keepalive_event /\ a.task = c.task /\ a.data = c.data /\ a.io = c.io
      /\ a.queue = c.queue /\ a.connect_handler = c.connect_handler
  BY <1>8 DEF Fields
<1>10. ~Has(a.calls, Inits) BY <1>4 DEF Starting
<1>11. Keeps(c, a) BY <1>1, PopKeeps
<1>12. Empty(a)
  <2> HIDE DEF Has, Only
  <2> QED BY <1>1, <1>3, <1>5, <1>6, <1>7, <1>9, <1>10 DEF Empty
<1> QED BY <1>1, <1>3, <1>5, <1>7, <1>11, <1>12 DEF a

(* What is set aside is taken up again, or freed.                           *)
TakesUp(a, e) ==
  /\ e \in Memory
  /\ e.abort = "none" =>
       /\ Book(e) /\ Begun(e) /\ RestOnce(e) /\ e.session = a.session
       /\ ~e.data["codec"] /\ ~e.data["io"] /\ e.io = "idle" /\ e.queue = <<>> /\ ~e.connect_handler
       /\ \A t \in UserTasks : Ended(a, e, t)
       /\ Ids(a) => Ids(e)

(* The tasks of a session that is not continued are given up.               *)
LEMMA ClearsTakesUp ==
  ASSUME NEW a \in Memory, Empty(a), NEW S \in SUBSET Tasks, NEW e \in Memory, e.abort = "none",
         Clears(a, e, S), S # {} => a.session = "CLEAN",
         Edits(a, e, {"task", "q12", "last_msg_id", "saved_id", "handlers", "saved", "saved_handlers", "data",
                      "conn", "abort"}),
         e.conn = "OPENING", e.data["logic"], \A l \in Layers \ {"logic"} : e.data[l] = a.data[l],
         e.saved = <<>>, (e.q12 = <<>>) \/ (e.q12 = a.saved /\ e.last_msg_id = a.saved_id)
  PROVE  TakesUp(a, e)
<1>1. /\ Book(e) /\ (\A t : Pending(e, t) <=> Pending(a, t))
      /\ (\A t \in UserTasks \ S : Fate(e, t) = Fate(a, t))
      /\ \A t \in UserTasks : t \in S =>
           \/ Fate(e, t) = Fate(a, t)
           \/ Fate(a, t) = "accepted" /\ Fate(e, t) = "dropped"
           \/ Fate(a, t) = "stored" /\ Fate(e, t) = "dropped" /\ a.task[t].session = "STORE"
  BY ClearsBook DEF Empty
<1>2. /\ e.calls = a.calls /\ e.current = None /\ e.q0 = <<>> /\ ~e.keepalive_event /\ e.io = "idle"
      /\ e.queue = <<>> /\ ~e.connect_handler /\ e.session = a.session
  BY DEF Edits, Fields, Empty
<1>3. ~e.data["codec"] /\ ~e.data["io"] BY DEF Empty, Layers
<1>4. \A t \in Tasks : ~e.task[t].timeout /\ e.task[t].id = a.task[t].id
  <2>1. a.task \in [Tasks -> TaskTypes] BY FieldsOf
  <2> SUFFICES ASSUME NEW t \in Tasks PROVE ~e.task[t].timeout /\ e.task[t].id = a.task[t].id OBVIOUS
  <2>2. ~a.task[t].timeout BY DEF Empty
  <2>3. e.task[t] = a.task[t] \/ e.task[t] = [a.task[t] EXCEPT !.cs = "freed"] BY DEF Clears
  <2>4. a.task[t] \in TaskTypes BY <2>1
  <2> QED BY <2>2, <2>3, <2>4 DEF TaskTypes
<1>5. Internal \cap Queued(e) = {} BY DEF Clears, Empty
<1>6. Only(e.calls, Inits \cup Users) /\ ~Has(e.calls, Inits) BY <1>2 DEF Empty
<1>7. Begun(e)
  <2> HIDE DEF Has, Only
  <2> QED BY <1>2, <1>4, <1>5, <1>6 DEF Begun
<1>8. RestOnce(e)
  <2>1. e.calls \in Seq(Calls) BY FieldsOf
  <2>2. /\ ~Has(e.calls, Opened) /\ One(e.calls, Opened) /\ \A t \in Internal : ~Has(e.calls, PushOf(t))
    BY <2>1, <1>6, OnlyStart
  <2>3. {"keepalive", "connect", "shutdown"} \subseteq Internal BY TaskNames
  <2> HIDE DEF Has, One
  <2>4. ~Pending(e, "keepalive") /\ ~Pending(e, "connect") /\ ~Pending(e, "shutdown")
    BY <2>2, <2>3 DEF Pending
  <2> QED BY <1>5, <2>2, <2>3, <2>4 DEF RestOnce
<1>9. \A t \in UserTasks : Ended(a, e, t)
  <2> SUFFICES ASSUME NEW t \in UserTasks PROVE Ended(a, e, t) OBVIOUS
  <2>1. CASE t \notin S BY <2>1, <1>1 DEF Ended
  <2>2. CASE t \in S BY <2>2, <1>1 DEF Ended
  <2> QED BY <2>1, <2>2
<1>10. Ids(a) => Ids(e)
  <2> SUFFICES ASSUME Ids(a) PROVE Ids(e) OBVIOUS
  <2>1. Range(e.saved) = {} BY RangeEmpty
  <2>2. CASE e.q12 = <<>>
    <3>1. Range(e.q12) = {} BY <2>2, RangeEmpty
    <3> QED BY <2>1, <3>1 DEF Ids
  <2>3. CASE e.q12 = a.saved /\ e.last_msg_id = a.saved_id
    <3>1. \A t \in Range(a.saved) : e.task[t].id = a.task[t].id
      <4>1. a.saved \in Seq(Q12) BY FieldsOf
      <4>2. Range(a.saved) \subseteq Tasks BY <4>1, RangeIs, TaskNames
      <4> QED BY <4>2, <1>4
    <3> QED BY <2>1, <2>3, <3>1 DEF Ids
  <2> QED BY <2>2, <2>3
<1> QED BY <1>1, <1>2, <1>3, <1>7, <1>8, <1>9, <1>10 DEF TakesUp
-----------------------------------------------------------------------------
(* A continued session goes on with what was set aside.                     *)
LEMMA ContinuedTakesUp ==
  ASSUME NEW a \in Memory, Empty(a), NEW b, Loads(a, b), NEW e, Takes1(b, e)
  PROVE  TakesUp(a, e)
<1>1. /\ b \in Memory /\ Edits(a, b, {"q12", "last_msg_id", "saved_id", "handlers"})
      /\ b.q12 = a.saved /\ b.last_msg_id = a.saved_id
  BY LoadIs DEF Edits
<1>2. /\ e \in Memory /\ Edits(b, e, {"saved", "saved_handlers", "data", "conn"})
      /\ e.saved = <<>> /\ e.conn = "OPENING" /\ e.data["logic"]
      /\ \A l \in Layers \ {"logic"} : e.data[l] = b.data[l]
  BY <1>1, TakeIs DEF Edits
<1>3. /\ b.data = a.data /\ e.q12 = b.q12 /\ e.last_msg_id = b.last_msg_id
      /\ e.abort = a.abort /\ e.calls = a.calls /\ e.outcome = a.outcome /\ e.task = a.task
      /\ e.current = a.current /\ e.q0 = a.q0
  BY <1>1, <1>2 DEF Edits, Fields
<1>4. Edits(a, e, {"task", "q12", "last_msg_id", "saved_id", "handlers", "saved", "saved_handlers", "data",
                   "conn", "abort"})
  BY <1>1, <1>2 DEF Edits, Fields
<1>5. Range(e.saved) = {} /\ Range(a.q12) = {} BY <1>2, RangeEmpty DEF Empty
<1>6. Queued(e) = Queued(a)
  BY <1>1, <1>3, <1>5 DEF Queued
<1>7. Clears(a, e, {})
  <2>1. \A t \in Tasks : ~At(a, t)
    <3>1. None \notin Tasks BY TaskNames
    <3> QED BY <3>1, <1>5 DEF At, Empty
  <2>2. Distinct(e.q0) /\ e.current \notin Range(e.q0)
    BY <1>3, RangeEmpty DEF Empty, Distinct
  <2> QED BY <1>3, <1>5, <1>6, <2>1, <2>2 DEF Clears, Empty
<1>8. e.abort = "none" BY <1>3 DEF Empty
<1> QED BY <1>1, <1>2, <1>3, <1>4, <1>7, <1>8, ClearsTakesUp

(* A clean session frees it.                                                *)
LEMMA CleanTakesUp ==
  ASSUME NEW a \in Memory, Empty(a), a.session = "CLEAN", NEW e, Takes1(FreeTasks(a, a.saved), e)
  PROVE  TakesUp(a, e)
<1> DEFINE b == FreeTasks(a, a.saved)
           S == Range(a.saved)
<1>1. /\ b \in Memory /\ Edits(a, b, {"task", "abort"})
      /\ b.abort = "none" =>
           /\ \A t \in S : ~a.task[t].timeout
           /\ \A t \in Tasks : b.task[t] = IF t \in S THEN [a.task[t] EXCEPT !.cs = "freed"] ELSE a.task[t]
  BY FreeAllIs
<1>2. Takes1(b, e) OBVIOUS
<1> HIDE DEF b
<1>3. /\ e \in Memory /\ Edits(b, e, {"saved", "saved_handlers", "data", "conn"})
      /\ e.saved = <<>> /\ e.conn = "OPENING" /\ e.data["logic"]
      /\ \A l \in Layers \ {"logic"} : e.data[l] = b.data[l]
  BY <1>1, <1>2, TakeIs DEF Edits
<1>4. e.abort = b.abort BY <1>3 DEF Edits, Fields
<1>5. CASE e.abort # "none" BY <1>3, <1>5 DEF TakesUp
<1>6. CASE e.abort = "none"
  <2>1. /\ b.data = a.data /\ e.q12 = a.q12
        /\ e.calls = a.calls /\ e.outcome = a.outcome /\ e.task = b.task
        /\ e.current = a.current /\ e.q0 = a.q0
    BY <1>1, <1>3 DEF Edits, Fields
  <2>2. Edits(a, e, {"task", "q12", "last_msg_id", "saved_id", "handlers", "saved", "saved_handlers", "data",
                     "conn", "abort"})
    BY <1>1, <1>3 DEF Edits, Fields
  <2>3. Range(e.saved) = {} /\ Range(a.q12) = {} /\ Range(e.q12) = {} /\ Range(e.q0) = {} /\ e.current = None
    BY <1>3, <2>1, RangeEmpty DEF Empty
  <2>4. Queued(e) = {} BY <2>3 DEF Queued
  <2>5. S \subseteq Tasks /\ S \subseteq Queued(a)
    <3>1. a.saved \in Seq(Q12) BY FieldsOf
    <3>2. S \subseteq Q12 BY <3>1, RangeIs
    <3> QED BY <3>2, TaskNames DEF Queued
  <2>6. \A t \in S : a.task[t].cs # "none" /\ ~Pending(a, t)
    BY <2>5 DEF Empty, Book, BookBut, Lives, Once
  <2>7. Clears(a, e, S)
    <3>1. \A t \in Tasks : ~At(a, t)
      <4>1. None \notin Tasks BY TaskNames
      <4> QED BY <4>1, <2>3 DEF At, Empty
    <3>2. Distinct(e.q0) BY <2>1 DEF Empty, Distinct
    <3> HIDE DEF S
    <3>3. e.task = b.task /\ b.abort = "none" BY <2>1, <1>4, <1>6
    <3>4. /\ \A t \in S : ~a.task[t].timeout
          /\ \A t \in Tasks : e.task[t] = IF t \in S THEN [a.task[t] EXCEPT !.cs = "freed"] ELSE a.task[t]
      BY <1>1, <3>3
    <3>5. a.abort = "none" BY DEF Empty
    <3> QED BY <2>1, <2>3, <2>4, <2>6, <3>1, <3>2, <3>4, <3>5 DEF Clears
  <2>8. e.q12 = <<>> BY <2>1 DEF Empty
  <2>9. S \in SUBSET Tasks BY <2>5
  <2> HIDE DEF S
  <2>10. \A l \in Layers \ {"logic"} : e.data[l] = a.data[l] BY <1>3, <2>1
  <2> QED BY <1>3, <1>6, <2>2, <2>7, <2>8, <2>9, <2>10, ClearsTakesUp
<1> QED BY <1>5, <1>6

(* Stays, for a step that begins a connection: what is stored may be freed, *)
(* and no message is on its way yet.                                        *)
Begins(a, b) ==
  /\ b \in Memory
  /\ b.abort = "none" =>
       /\ a.abort = "none" /\ Sound(b) /\ (MailIn(a) => MailIn(b))
       /\ \A t \in UserTasks : Ended(a, b, t)

(* The calls of a connection that starts carry no message.                  *)
LEMMA StartSilent ==
  ASSUME NEW q \in Seq(Calls), Only(q, Inits \cup Users), NEW i \in 1 .. Len(q), NEW a
  PROVE  NameCall(a, q[i])
<1>1. q[i] \in Calls /\ q[i] \in Inits \cup Users BY DEF Only
<1> DEFINE k == q[i]
<1>2. k \in Inits \/ k \in Users BY <1>1
<1> HIDE DEF k
<1>3. k \in Calls BY <1>1 DEF k
<1>4. /\ k \in Inits => k.fn \in {"init", "connect"}
      /\ k \in Users => k.layer \in {"top", "logic"} /\ k.fn = "push"
  BY <1>3, KindOf
<1>5. Silent(k) BY <1>2, <1>4 DEF Silent, Outward
<1>6. NameCall(a, k) BY <1>5 DEF Silent, NameCall
<1> QED BY <1>6 DEF k

(* xi_mqtt_logic_layer_init.                                                *)
LEMMA LogicInitBegins ==
  ASSUME c \in Memory, Running, Sound(c), LogicInit
  PROVE  Begins(c, c') /\ ~c.data["io"]
<1> DEFINE a == Popped
           b == [a EXCEPT !.q12 = a.saved, !.last_msg_id = a.saved_id, !.saved_id = 0,
                          !.handlers = a.saved_handlers]
           d == IF a.session = "CONTINUE" THEN b ELSE FreeTasks(a, a.saved)
           e == [d EXCEPT !.saved = <<>>, !.saved_handlers = <<>>, !.data["logic"] = TRUE, !.conn = "OPENING"]
           k == [layer |-> "codec", fn |-> "init", arg |-> NoMsg, st |-> "OK"]
<1>1. Called("logic", "init") /\ c' = ContinueWith(e, "logic", "init", "codec", NoMsg, "OK")
  BY DEF LogicInit, Becomes, LogicInitHandler, OnPrev, Prev
<1>2. /\ a \in Memory /\ Empty(a) /\ ~c.data["logic"] /\ ~c.data["io"]
      /\ \A t \in UserTasks : Fate(a, t) = Fate(c, t)
      /\ Keeps(c, a)
  BY <1>1, InitPopped
<1>3. Loads(a, b) /\ Takes1(d, e) BY DEF Loads, Takes1
<1>4. (a.session = "CONTINUE" => d = b) /\ (a.session # "CONTINUE" => d = FreeTasks(a, a.saved)) OBVIOUS
<1>5. a.session = c.session
  <2>1. Popped1(c, a, Call) BY <1>1, CalledIs
  <2> HIDE DEF a
  <2> QED BY <2>1 DEF Popped1, Edits, Fields
<1> HIDE DEF a, b, d, e
<1>6. TakesUp(a, e)
  <2>1. CASE a.session = "CONTINUE"
    <3>1. Loads(a, d) BY <2>1, <1>3, <1>4
    <3> QED BY ONLY <1>2, <1>3, <3>1, ContinuedTakesUp
  <2>2. CASE a.session # "CONTINUE"
    <3>1. a.session = "CLEAN" BY <2>2, <1>2, FieldsOf
    <3>2. Takes1(FreeTasks(a, a.saved), e) BY <2>2, <1>3, <1>4
    <3> QED BY ONLY <1>2, <3>1, <3>2, CleanTakesUp
  <2> QED BY <2>1, <2>2
<1>7. e \in Memory BY <1>6 DEF TakesUp
<1>8. k \in Calls /\ Silent(k) /\ Neutral(k) /\ k \notin Tokens
  <2>1. "OK" \in Statuses /\ "codec" \in Layers BY DEF Statuses, Layers
  <2> QED BY <2>1, QuietCall
<1>9. /\ k.layer = "codec" /\ k.fn = "init" /\ k.arg = NoMsg /\ k.st = "OK"
      /\ k = [layer |-> "codec", fn |-> "init", arg |-> NoMsg, st |-> "OK"]
  OBVIOUS
<1> HIDE DEF k
<1>10. k \in Inits /\ k \notin LogicInits BY <1>8, <1>9, KindOf
<1>11. Said(e, c', "logic", k)
  <2>1. {"logic", "codec"} \subseteq Layers BY DEF Layers
  <2> QED BY ONLY <2>1, <1>1, <1>7, <1>8, <1>9, SaidIs
<1>12. /\ c' \in Memory /\ c'.calls = Append(e.calls, k)
       /\ \A f \in Fields \ {"calls", "layer"} : c'[f] = e[f]
  BY <1>11 DEF Said, Edits
<1>13. CASE e.abort # "none"
  <2>1. c'.abort = e.abort BY <1>12 DEF Fields
  <2> QED BY <2>1, <1>2, <1>12, <1>13 DEF Begins
<1>14. CASE e.abort = "none"
  <2>1. /\ Book(e) /\ Begun(e) /\ RestOnce(e) /\ e.session = a.session
        /\ ~e.data["codec"] /\ ~e.data["io"] /\ e.io = "idle" /\ e.queue = <<>> /\ ~e.connect_handler
        /\ (\A t \in UserTasks : Ended(a, e, t)) /\ (Ids(a) => Ids(e))
    BY <1>6, <1>14 DEF TakesUp
  <2>2. /\ c'.task = e.task /\ c'.current = e.current /\ c'.q0 = e.q0 /\ c'.q12 = e.q12 /\ c'.saved = e.saved
        /\ c'.outcome = e.outcome /\ c'.saved_id = e.saved_id /\ c'.last_msg_id = e.last_msg_id
        /\ c'.data = e.data /\ c'.conn = e.conn /\ c'.io = e.io /\ c'.queue = e.queue
        /\ c'.keepalive_event = e.keepalive_event /\ c'.connect_handler = e.connect_handler
    BY <1>12 DEF Fields
  <2>3. Appends(e, c', k) BY <1>8, <1>12, <2>2 DEF Appends
  <2>4. /\ c'.data["logic"] /\ c'.conn = "OPENING" /\ ~c'.keepalive_event /\ ~c'.data["codec"]
        /\ ~c'.data["io"] /\ c'.io = "idle" /\ c'.queue = <<>> /\ ~c'.connect_handler
    BY <2>1, <2>2 DEF Begun
  <2>5. DataInv(c') BY <2>4 DEF DataInv, Rest
  <2>6. Sound(c') BY <1>7, <1>9, <1>10, <2>1, <2>3, <2>4, <2>5, ChainFit
  <2>7. \A t \in UserTasks : Fate(c', t) = Fate(e, t) BY <1>7, <2>1, <2>3, AppendsBook
  <2>8. \A t \in UserTasks : Ended(c, c', t) BY <1>2, <1>5, <2>1, <2>7 DEF Ended
  <2>9. MailIn(c) => MailIn(c')
    <3>1. MailIn(c) => Ids(a) BY <1>2 DEF Keeps, MailIn
    <3>2. Ids(e) => Ids(c') BY <2>2 DEF Ids
    <3>3. AllName(c', c'.queue) BY <2>4 DEF AllName
    <3>4. Mail(c')
      <4>1. e.calls \in Seq(Calls) /\ c'.calls \in Seq(Calls) BY <1>7, <1>12, FieldsOf
      <4>2. Only(e.calls, Inits \cup Users) BY <2>1 DEF Begun
      <4>3. Only(c'.calls, Inits \cup Users)
        <5>1. \A i \in 1 .. Len(c'.calls) : c'.calls[i] = k \/ (i \in 1 .. Len(e.calls) /\ c'.calls[i] = e.calls[i])
          BY <4>1, <1>12
        <5> QED BY <5>1, <4>2, <1>10 DEF Only
      <4>4. \A i \in 1 .. Len(c'.calls) : NameCall(c', c'.calls[i]) BY <4>1, <4>3, StartSilent
      <4> QED BY <4>4, MailIs
    <3> QED BY <3>1, <3>2, <3>3, <3>4, <2>1 DEF MailIn
  <2>10. c.abort = "none" BY DEF Running
  <2> QED BY <1>2, <1>12, <2>6, <2>8, <2>9, <2>10 DEF Begins
<1> QED BY <1>13, <1>14
-----------------------------------------------------------------------------
(* No operator of the task engine touches the data of the layers or the     *)
(* type of the session, or makes a call that brings a message in.           *)
HasQueue(a) == "calls" \in DOMAIN a /\ \E S : a.calls \in Seq(S)
From(p, q) == \A i \in 1 .. Len(q) : q[i].fn = "pull" => \E j \in 1 .. Len(p) : p[j] = q[i]
Mute(a, b) == HasQueue(a) => HasQueue(b) /\ From(a.calls, b.calls)
Keeping(a, b) == "data" \in DOMAIN a => "data" \in DOMAIN b /\ b.data = a.data
Going(a, b) == "session" \in DOMAIN a => "session" \in DOMAIN b /\ b.session = a.session
Wire(a, b) == Mute(a, b) /\ Keeping(a, b) /\ Going(a, b)
(* b is a but for other fields, or with one more call.                      *)
Same(a, b) ==
  /\ DOMAIN b = DOMAIN a
  /\ "calls" \in DOMAIN a => b.calls = a.calls
  /\ "data" \in DOMAIN a => b.data = a.data
  /\ "session" \in DOMAIN a => b.session = a.session
SaysMore(a, b, k) ==
  /\ k.fn # "pull" /\ DOMAIN b = DOMAIN a
  /\ "calls" \in DOMAIN a => b.calls = Append(a.calls, k)
  /\ "session" \in DOMAIN a => b.session = a.session

(* Mute and Wire: transitive, and true of what changes no call or adds one  *)
(* without a message for the logic layer.                                   *)
LEMMA MuteTrans == \A a, b, d : Mute(a, b) /\ Mute(b, d) => Mute(a, d)
<1> SUFFICES ASSUME NEW a, NEW b, NEW d, Mute(a, b), Mute(b, d), HasQueue(a) PROVE HasQueue(d) /\ From(a.calls, d.calls)
  BY DEF Mute
<1>1. HasQueue(b) /\ From(a.calls, b.calls) /\ HasQueue(d) /\ From(b.calls, d.calls) BY DEF Mute
<1> QED BY ONLY <1>1 DEF From

LEMMA SameMute == \A a, b : DOMAIN b = DOMAIN a /\ ("calls" \in DOMAIN a => b.calls = a.calls) => Mute(a, b)
BY DEF Mute, HasQueue, From

LEMMA MoreMute == \A a, b, k : SaysMore(a, b, k) => Mute(a, b)
<1> SUFFICES ASSUME NEW a, NEW b, NEW k, SaysMore(a, b, k), HasQueue(a) PROVE HasQueue(b) /\ From(a.calls, b.calls)
  BY DEF Mute
<1>1. PICK S : a.calls \in Seq(S) BY DEF HasQueue
<1> DEFINE q == a.calls
           T == S \cup {k}
<1>2. "calls" \in DOMAIN b /\ b.calls = Append(q, k) /\ k.fn # "pull" BY DEF SaysMore, HasQueue
<1>3. q \in Seq(T)
  <2>1. S \subseteq T OBVIOUS
  <2> HIDE DEF T
  <2> QED BY <1>1, <2>1
<1>4. k \in T OBVIOUS
<1> HIDE DEF T, q
<1>5. Append(q, k) \in Seq(T) /\ Len(Append(q, k)) = Len(q) + 1 /\ Append(q, k)[Len(q) + 1] = k
      /\ \A i \in 1 .. Len(q) : Append(q, k)[i] = q[i]
  BY <1>3, <1>4
<1>6. Len(q) \in Nat BY <1>3
<1>7. From(q, b.calls) BY <1>2, <1>5, <1>6 DEF From
<1> QED BY <1>2, <1>5, <1>7 DEF HasQueue, q

LEMMA SameWire == \A a, b : Same(a, b) => Wire(a, b)
BY SameMute DEF Same, Wire, Keeping, Going

LEMMA MoreWire == \A a, b, k : SaysMore(a, b, k) /\ ("data" \in DOMAIN a => b.data = a.data) => Wire(a, b)
BY MoreMute DEF SaysMore, Wire, Keeping, Going

LEMMA WireTrans == \A a, b, d : Wire(a, b) /\ Wire(b, d) => Wire(a, d)
BY MuteTrans DEF Wire, Keeping, Going

(* So is every operator of the task engine:                                 *)
LEMMA WireSay == \A a, from, fn, to, arg, st : fn # "pull" => Wire(a, ContinueWith(a, from, fn, to, arg, st))
<1> SUFFICES ASSUME NEW a, NEW from, NEW fn, NEW to, NEW arg, NEW st, fn # "pull"
             PROVE  Wire(a, ContinueWith(a, from, fn, to, arg, st))
  OBVIOUS
<1> DEFINE k == [layer |-> to, fn |-> fn, arg |-> arg, st |-> st]
           b == [a EXCEPT !.calls = Append(@, k), !.layer[from] = NextLayerState(fn, @, st)]
<1>1. ContinueWith(a, from, fn, to, arg, st) \in {a, b} BY DEF ContinueWith
<1>2. Wire(a, a) BY SameWire DEF Same
<1>3. k.fn # "pull" OBVIOUS
<1> HIDE DEF k
<1>4. SaysMore(a, b, k) /\ ("data" \in DOMAIN a => b.data = a.data) BY <1>3 DEF SaysMore
<1>5. Wire(a, b) BY <1>4, MoreWire
<1> HIDE DEF b
<1> QED BY <1>1, <1>2, <1>5

LEMMA WireOn ==
  \A a, l, fn, arg, st : fn # "pull" => /\ Wire(a, OnThis(a, l, fn, arg, st)) /\ Wire(a, OnPrev(a, l, fn, arg, st))
                                        /\ Wire(a, OnSucc(a, l, fn, arg, st))
BY WireSay DEF OnThis, OnPrev, OnSucc

LEMMA WireCheck == \A a, h, s : Wire(a, Check(a, h, s))
BY SameWire DEF Same, Check

LEMMA WireNoTimer == \A a, t, s : Wire(a, CheckNoTimer(a, t, s))
BY WireCheck DEF CheckNoTimer

LEMMA WireTask ==
  \A a, t, v : /\ Wire(a, [a EXCEPT !.task[t].cs = v]) /\ Wire(a, [a EXCEPT !.task[t] = v])
               /\ Wire(a, [a EXCEPT !.task[t].timeout = v]) /\ Wire(a, [a EXCEPT !.current = v])
               /\ Wire(a, [a EXCEPT !.q0 = v]) /\ Wire(a, [a EXCEPT !.q12 = v])
               /\ Wire(a, [a EXCEPT !.keepalive_event = v])
               /\ Wire(a, [a EXCEPT !.handlers = v]) /\ Wire(a, [a EXCEPT !.recv = v])
BY SameWire DEF Same

LEMMA WireTimer == \A a, t : Wire(a, ArmTimeout(a, t)) /\ Wire(a, CancelTimeout(a, t))
BY WireTask DEF ArmTimeout, CancelTimeout

LEMMA WireMake == \A a, t, s : Wire(a, MakeTask(a, t, s))
BY WireTask DEF MakeTask

LEMMA WireFree == \A a, t : Wire(a, FreeTask(a, t))
BY WireNoTimer, WireTask, WireTrans DEF FreeTask

LEMMA WireDefer == \A a, t, st : Wire(a, DeferUsersCallback(a, t, st))
<1> SUFFICES ASSUME NEW a, NEW t, NEW st PROVE Wire(a, DeferUsersCallback(a, t, st)) OBVIOUS
<1> DEFINE k == [layer |-> "user", fn |-> "callback", arg |-> [NoMsg EXCEPT !.task = t], st |-> st]
           b == [a EXCEPT !.calls = Append(@, k)]
<1>1. DeferUsersCallback(a, t, st) = b BY DEF DeferUsersCallback
<1>2. k.fn # "pull" OBVIOUS
<1> HIDE DEF k
<1>3. SaysMore(a, b, k) /\ ("data" \in DOMAIN a => b.data = a.data) BY <1>2 DEF SaysMore
<1> QED BY <1>1, <1>3, MoreWire

LEMMA WireSend == \A a, t : Wire(a, Send(a, t))
BY WireTask, WireOn, WireTrans DEF Send

LEMMA WireStart == \A a, t : Wire(a, StartTask(a, t))
<1> SUFFICES ASSUME NEW a, NEW t PROVE Wire(a, StartTask(a, t)) OBVIOUS
<1>1. Wire(a, a) BY SameWire DEF Same
<1>2. \A b : Wire(a, b) => Wire(a, Send(b, t)) BY WireSend, WireTrans
<1>3. Wire(a, CancelTimeout(a, t)) /\ Wire(a, ArmTimeout(a, t)) /\ Wire(a, CheckNoTimer(a, t, "connect_start"))
  BY WireTimer, WireNoTimer
<1>4. Wire(a, Send(IF ConnTimeout THEN ArmTimeout(a, t) ELSE CheckNoTimer(a, t, "connect_start"), t))
  BY <1>2, <1>3
<1> QED BY <1>1, <1>2, <1>3, <1>4 DEF StartTask

LEMMA WireNext == \A a : Wire(a, RunNextQ0(a))
<1> SUFFICES ASSUME NEW a PROVE Wire(a, RunNextQ0(a)) OBVIOUS
<1> DEFINE b == IF a.current = None THEN a
                ELSE [FreeTask(CancelTimeout(a, a.current), a.current) EXCEPT !.current = None]
           t == Head(b.q0)
           p == [b EXCEPT !.q0 = Append(Tail(b.q0), t)]
           q == [b EXCEPT !.q0 = Tail(b.q0), !.current = t]
<1>1. RunNextQ0(a) \in {b, p, StartTask(q, t)} BY DEF RunNextQ0
<1>2. Wire(a, b)
  <2>1. Wire(a, a) BY SameWire DEF Same
  <2>2. Wire(a, FreeTask(CancelTimeout(a, a.current), a.current)) BY WireTimer, WireFree, WireTrans
  <2> QED BY <2>1, <2>2, WireTask, WireTrans
<1> HIDE DEF b
<1>3. Wire(b, p) /\ Wire(b, q) BY SameWire DEF Same
<1> HIDE DEF p, q, t
<1>4. Wire(q, StartTask(q, t)) BY WireStart
<1> QED BY <1>1, <1>2, <1>3, <1>4, WireTrans

LEMMA WireFinalize == \A a, t : Wire(a, FinalizeTask(a, t))
<1> SUFFICES ASSUME NEW a, NEW t PROVE Wire(a, FinalizeTask(a, t)) OBVIOUS
<1> DEFINE b == CheckNoTimer(a, t, "finalize_timer")
           d == [b EXCEPT !.q12 = Kept(b.q12, Q12 \ {t})]
<1>1. FinalizeTask(a, t) \in {FreeTask(d, t), RunNextQ0(b)} BY DEF FinalizeTask
<1>2. Wire(a, b) BY WireNoTimer
<1> HIDE DEF b
<1>3. Wire(b, d) BY SameWire DEF Same
<1> HIDE DEF d
<1> QED BY <1>1, <1>2, <1>3, WireFree, WireNext, WireTrans

LEMMA WireClose == \A a, st : Wire(a, LogicClose(a, st))
BY WireOn DEF LogicClose

LEMMA WireWritten == \A a, t, s : Wire(a, MessageWritten(a, t, s))
<1> SUFFICES ASSUME NEW a, NEW t, NEW s PROVE Wire(a, MessageWritten(a, t, s)) OBVIOUS
<1> DEFINE b == CheckNoTimer(a, t, s)
           d == [b EXCEPT !.task[t].session = IF @ = "UNSET" THEN "STORE" ELSE @,
                          !.task[t].cs = "waiting"]
<1>1. MessageWritten(a, t, s) \in {ArmTimeout(d, t), d} BY DEF MessageWritten
<1>2. Wire(a, b) BY WireNoTimer
<1> HIDE DEF b
<1>3. Wire(b, d) BY SameWire DEF Same
<1> HIDE DEF d
<1> QED BY <1>1, <1>2, <1>3, WireTimer, WireTrans
(* The coroutines.                                                          *)
LEMMA WireQ0 == \A a, t, st, m : Wire(a, DoMqttPublishQ0(a, t, st, m))
<1> SUFFICES ASSUME NEW a, NEW t, NEW st, NEW m PROVE Wire(a, DoMqttPublishQ0(a, t, st, m)) OBVIOUS
<1> DEFINE b == Check(a, m = NoMsg, "q0_with_message")
           s == IF st = "WRITTEN" THEN "OK" ELSE st
<1>1. DoMqttPublishQ0(a, t, st, m) \in {b, Send(b, t), FinalizeTask(DeferUsersCallback(b, t, s), t)}
  BY DEF DoMqttPublishQ0
<1>2. Wire(a, b) BY WireCheck
<1> HIDE DEF b, s
<1> QED BY <1>1, <1>2, WireSend, WireDefer, WireFinalize, WireTrans

LEMMA WireQ1 == \A a, t, st, m : Wire(a, DoMqttPublishQ1(a, t, st, m))
<1> SUFFICES ASSUME NEW a, NEW t, NEW st, NEW m PROVE Wire(a, DoMqttPublishQ1(a, t, st, m)) OBVIOUS
<1> DEFINE b == CancelTimeout(a, t)
           d == [b EXCEPT !.task[t].cs = "new"]
<1>1. DoMqttPublishQ1(a, t, st, m) \in
        {d, Send(CheckNoTimer(a, t, "q1_start"), t), MessageWritten(a, t, "q1_written"), Send(a, t),
         Send(CheckNoTimer(a, t, "q1_timeout"), t), Send(b, t),
         FinalizeTask(DeferUsersCallback(b, t, "OK"), t), FinalizeTask(DeferUsersCallback(b, t, "ERR"), t)}
  BY DEF DoMqttPublishQ1
<1>2. Wire(a, b) BY WireTimer
<1> HIDE DEF b
<1>3. Wire(b, d) BY WireTask
<1> HIDE DEF d
<1>4. /\ Wire(a, Send(CheckNoTimer(a, t, "q1_start"), t)) /\ Wire(a, Send(CheckNoTimer(a, t, "q1_timeout"), t))
      /\ Wire(a, Send(a, t))
  BY WireSend, WireNoTimer, WireTrans
<1>5. /\ Wire(b, FinalizeTask(DeferUsersCallback(b, t, "OK"), t))
      /\ Wire(b, FinalizeTask(DeferUsersCallback(b, t, "ERR"), t)) /\ Wire(b, Send(b, t))
  BY WireSend, WireDefer, WireFinalize, WireTrans
<1> QED BY <1>1, <1>2, <1>3, <1>4, <1>5, WireWritten, WireTrans

LEMMA WireSubscribe == \A a, t, st, m : Wire(a, DoMqttSubscribe(a, t, st, m))
<1> SUFFICES ASSUME NEW a, NEW t, NEW st, NEW m PROVE Wire(a, DoMqttSubscribe(a, t, st, m)) OBVIOUS
<1> DEFINE d == IF m.ok THEN [a EXCEPT !.handlers = Append(@, t)] ELSE a
           b == CancelTimeout(a, t)
           e == CancelTimeout(d, t)
           f == [CheckNoTimer(a, t, "subscribe_retry") EXCEPT !.task[t].cs = "retry"]
           g == Check(CheckNoTimer(a, t, "subscribe_resend_timer"), st = "RESEND", "subscribe_resend_state")
           s == IF m.ok THEN "OK" ELSE "ERR"
<1>1. DoMqttSubscribe(a, t, st, m) \in
        {b, Send(a, t), MessageWritten(a, t, "subscribe_written"), ArmTimeout(f, t), Send(g, t),
         Send(CheckNoTimer(a, t, "subscribe_timeout"), t), Send(b, t),
         FinalizeTask(DeferUsersCallback(e, t, s), t),
         Check(FinalizeTask(b, t), FALSE, "subscribe_failed")}
  BY DEF DoMqttSubscribe
<1>2. Wire(a, b) BY WireTimer
<1>3. Wire(a, e)
  <2>1. Wire(a, d) BY SameWire DEF Same
  <2> QED BY <2>1, WireTimer, WireTrans
<1>4. Wire(a, f) BY WireNoTimer, WireTask, WireTrans
<1>5. Wire(a, g) BY WireNoTimer, WireCheck, WireTrans
<1> HIDE DEF b, d, e, f, g, s
<1>6. /\ Wire(a, Send(a, t)) /\ Wire(a, ArmTimeout(f, t)) /\ Wire(a, Send(g, t)) /\ Wire(a, Send(b, t))
      /\ Wire(a, Send(CheckNoTimer(a, t, "subscribe_timeout"), t))
  BY <1>2, <1>4, <1>5, WireSend, WireTimer, WireNoTimer, WireTrans
<1>7. /\ Wire(e, FinalizeTask(DeferUsersCallback(e, t, s), t))
      /\ Wire(b, Check(FinalizeTask(b, t), FALSE, "subscribe_failed"))
  BY WireDefer, WireFinalize, WireCheck, WireTrans
<1> DEFINE w == MessageWritten(a, t, "subscribe_written")
           x == FinalizeTask(DeferUsersCallback(e, t, s), t)
           y == Check(FinalizeTask(b, t), FALSE, "subscribe_failed")
<1>8. Wire(a, w) /\ Wire(a, x) /\ Wire(a, y) BY <1>2, <1>3, <1>7, WireWritten, WireTrans
<1>9. DoMqttSubscribe(a, t, st, m) \in
        {b, Send(a, t), w, ArmTimeout(f, t), Send(g, t),
         Send(CheckNoTimer(a, t, "subscribe_timeout"), t), Send(b, t), x, y}
  BY <1>1
<1> HIDE DEF w, x, y
<1> QED BY ONLY <1>2, <1>6, <1>8, <1>9

LEMMA WireConnect == \A a, st, m : Wire(a, DoMqttConnect(a, st, m))
<1> SUFFICES ASSUME NEW a, NEW st, NEW m PROVE Wire(a, DoMqttConnect(a, st, m)) OBVIOUS
<1> DEFINE t == "connect"
           d == CancelTimeout(Check(a, m # NoMsg, "connect_without_message"), t)
           b == [CancelTimeout(a, t) EXCEPT !.task[t].cs = "new"]
           e == [a EXCEPT !.task[t].cs = "waiting"]
           f == CancelTimeout(OnSucc(a, "logic", "connect", NoMsg, "ERR"), t)
           g == [d EXCEPT !.keepalive_event = @ \/ KeepAlive, !.conn = "OPENED"]
           h == OnSucc(g, "logic", "connect", NoMsg, "OK")
           i == OnSucc(d, "logic", "connect", NoMsg, "ERR")
<1>1. DoMqttConnect(a, st, m) \in
        {b, StartTask(a, t), e, FinalizeTask(f, t), FinalizeTask(d, t), FinalizeTask(h, t), FinalizeTask(i, t)}
  BY DEF DoMqttConnect
<1>2. Wire(a, b) /\ Wire(a, e) BY WireTimer, WireTask, WireTrans
<1>3. Wire(a, f) BY WireOn, WireTimer, WireTrans
<1>4. Wire(a, d) BY WireCheck, WireTimer, WireTrans
<1> HIDE DEF b, d, e, f
<1>5. Wire(d, g) BY SameWire DEF Same
<1> HIDE DEF g
<1>6. Wire(d, i) /\ Wire(d, h) BY <1>5, WireOn, WireTrans
<1> HIDE DEF h, i, t
<1>7. Wire(a, i) /\ Wire(a, h) BY <1>4, <1>6, WireTrans
<1> QED BY <1>1, <1>2, <1>3, <1>4, <1>7, WireFinalize, WireStart, WireTrans

LEMMA WireKeepalive == \A a, st, m : Wire(a, DoMqttKeepaliveTask(a, st, m))
<1> SUFFICES ASSUME NEW a, NEW st, NEW m PROVE Wire(a, DoMqttKeepaliveTask(a, st, m)) OBVIOUS
<1> DEFINE t == "keepalive"
           b == ArmTimeout([CheckNoTimer(a, t, "keepalive_written") EXCEPT !.task[t].cs = "waiting"], t)
           d == OnPrev([CheckNoTimer(a, t, "keepalive_timer") EXCEPT !.task[t].cs = "new"],
                       "logic", "close", NoMsg, "TIMEOUT")
           e == CancelTimeout(a, t)
           f == RearmKeepalive(e)
<1>1. DoMqttKeepaliveTask(a, st, m) \in {a, Send(a, t), b, d, FinalizeTask(e, t), FinalizeTask(f, t)}
  BY DEF DoMqttKeepaliveTask
<1>2. Wire(a, a) BY SameWire DEF Same
<1>3. Wire(a, b)
  <2>1. Wire(a, [CheckNoTimer(a, t, "keepalive_written") EXCEPT !.task[t].cs = "waiting"])
    BY WireNoTimer, WireTask, WireTrans
  <2> QED BY <2>1, WireTimer, WireTrans
<1>4. Wire(a, d)
  <2>1. Wire(a, [CheckNoTimer(a, t, "keepalive_timer") EXCEPT !.task[t].cs = "new"])
    BY WireNoTimer, WireTask, WireTrans
  <2> QED BY <2>1, WireOn, WireTrans
<1>5. Wire(a, e) BY WireTimer
<1> HIDE DEF e, b, d
<1>6. Wire(e, f) BY WireTask DEF RearmKeepalive
<1> HIDE DEF f, t
<1> QED BY <1>1, <1>2, <1>3, <1>4, <1>5, <1>6, WireSend, WireFinalize, WireTrans

LEMMA WireShutdown == \A a, st : Wire(a, DoShutdown(a, st))
<1> SUFFICES ASSUME NEW a, NEW st PROVE Wire(a, DoShutdown(a, st)) OBVIOUS
<1> DEFINE b == LogicClose(a, "OK")
           d == [b EXCEPT !.task["shutdown"].cs = "new"]
<1>1. DoShutdown(a, st) \in {a, Send(a, "shutdown"), FinalizeTask(d, "shutdown")} BY DEF DoShutdown
<1>2. Wire(a, a) BY SameWire DEF Same
<1>3. Wire(a, d) BY WireClose, WireTask, WireTrans
<1> HIDE DEF d
<1> QED BY <1>1, <1>2, <1>3, WireSend, WireFinalize, WireTrans

(* Resuming a task and running it.                                          *)
LEMMA WireResume == \A a, st, m : \A t \in Tasks : Wire(a, Resume(a, t, st, m))
<1> SUFFICES ASSUME NEW a, NEW st, NEW m, NEW t \in Tasks PROVE Wire(a, Resume(a, t, st, m)) OBVIOUS
<1>1. /\ Q0 \cap Q1 = {} /\ Q0 \cap SubTasks = {} /\ Q1 \cap SubTasks = {}
      /\ {"connect", "keepalive", "shutdown"} \cap (Q0 \cup Q1 \cup SubTasks) = {}
  BY TaskAssumption DEF SubTasks, Internal
<1>2. t \in Q0 \/ t \in Q1 \/ t \in SubTasks \/ t \in {"connect", "keepalive", "shutdown"}
  BY DEF Tasks, SubTasks, Internal
<1>3. CASE t \in Q0
  <2>1. Resume(a, t, st, m) = DoMqttPublishQ0(a, t, st, m) BY <1>1, <1>3 DEF Resume
  <2> QED BY <2>1, WireQ0
<1>4. CASE t \in Q1
  <2>1. Resume(a, t, st, m) = DoMqttPublishQ1(a, t, st, m) BY <1>1, <1>4 DEF Resume
  <2> QED BY <2>1, WireQ1
<1>5. CASE t \in SubTasks
  <2>1. Resume(a, t, st, m) = DoMqttSubscribe(a, t, st, m) BY <1>1, <1>5 DEF Resume
  <2> QED BY <2>1, WireSubscribe
<1>6. CASE t = "connect"
  <2>1. Resume(a, t, st, m) = DoMqttConnect(a, st, m) BY <1>1, <1>6 DEF Resume
  <2> QED BY <2>1, WireConnect
<1>7. CASE t = "keepalive"
  <2>1. Resume(a, t, st, m) = DoMqttKeepaliveTask(a, st, m) BY <1>1, <1>7 DEF Resume
  <2> QED BY <2>1, WireKeepalive
<1>8. CASE t = "shutdown"
  <2>1. Resume(a, t, st, m) = DoShutdown(a, st) BY <1>1, <1>8 DEF Resume
  <2> QED BY <2>1, WireShutdown
<1> QED BY <1>2, <1>3, <1>4, <1>5, <1>6, <1>7, <1>8

LEMMA WireRun == \A a : \A t \in Tasks : Wire(a, RunTask(a, t))
<1> SUFFICES ASSUME NEW a, NEW t \in Tasks PROVE Wire(a, RunTask(a, t)) OBVIOUS
<1> DEFINE i == (a.last_msg_id + 1) % IdMod
           b == Check(a, \A k \in 1..Len(a.q12) : a.task[a.q12[k]].id # i, "same_id")
           d == [b EXCEPT !.task[t].id = i, !.last_msg_id = i, !.q12 = Append(@, t)]
           e == [a EXCEPT !.q0 = IF t \in {"connect", "shutdown"} THEN <<t>> \o @ ELSE Append(@, t)]
<1>1. RunTask(a, t) \in {d, Resume(d, t, "OK", NoMsg), e, RunNextQ0(e)} BY DEF RunTask
<1>2. Wire(a, b) BY WireCheck
<1> HIDE DEF b
<1>3. Wire(b, d) BY SameWire DEF Same
<1>4. Wire(a, e) BY SameWire DEF Same
<1> HIDE DEF d, e, i
<1>5. Wire(d, Resume(d, t, "OK", NoMsg)) /\ Wire(e, RunNextQ0(e)) BY WireResume, WireNext
<1> QED BY <1>1, <1>2, <1>3, <1>4, <1>5, WireTrans
-----------------------------------------------------------------------------
(* The handlers of the call queue that touch no layer's data.               *)
Still(a, b) == b.abort = "none" => b.data = a.data

(* What touches only calls of the client leaves the network alone.          *)
LEMMA WireStill ==
  ASSUME c \in Memory, NEW b, Wire(c, b)
  PROVE  Still(c, b)
<1>1. "data" \in DOMAIN c BY DEF Memory
<1> QED BY <1>1 DEF Wire, Keeping, Still

(* The call queue and the handlers of the logic layer.                      *)
LEMMA WirePop == c.calls # <<>> => Wire(c, Popped)
<1> SUFFICES ASSUME c.calls # <<>> PROVE Wire(c, Popped) OBVIOUS
<1>1. Keeping(c, Popped) /\ Going(c, Popped) BY DEF Keeping, Going, Popped
<1>2. Mute(c, Popped)
  <2> SUFFICES ASSUME HasQueue(c) PROVE HasQueue(Popped) /\ From(c.calls, Popped.calls)
    BY DEF Mute
  <2>1. PICK S : c.calls \in Seq(S) BY DEF HasQueue
  <2>2. "calls" \in DOMAIN Popped /\ Popped.calls = Tail(c.calls) BY DEF HasQueue, Popped
  <2>3. Tail(c.calls) \in Seq(S) /\ Len(Tail(c.calls)) = Len(c.calls) - 1
        /\ \A i \in 1 .. Len(Tail(c.calls)) : Tail(c.calls)[i] = c.calls[i + 1]
    BY <2>1
  <2>4. Len(c.calls) \in Nat BY <2>1
  <2>5. \A i \in 1 .. (Len(c.calls) - 1) : i + 1 \in 1 .. Len(c.calls) BY <2>4
  <2> QED BY <2>2, <2>3, <2>5 DEF HasQueue, From
<1> QED BY <1>1, <1>2 DEF Wire

LEMMA WireMessages ==
  \A a, m, st : /\ Wire(a, CallTopicHandler(a, m)) /\ Wire(a, PublishQ1Received(a, m))
                /\ Wire(a, PublishReceived(a, m)) /\ Wire(a, PubackWritten(a, m, st))
<1> SUFFICES ASSUME NEW a, NEW m, NEW st
             PROVE  /\ Wire(a, CallTopicHandler(a, m)) /\ Wire(a, PublishQ1Received(a, m))
                    /\ Wire(a, PublishReceived(a, m)) /\ Wire(a, PubackWritten(a, m, st))
  OBVIOUS
<1>1. \A b : Wire(b, CallTopicHandler(b, m))
  <2> SUFFICES ASSUME NEW b PROVE Wire(b, CallTopicHandler(b, m)) OBVIOUS
  <2> DEFINE k == [layer |-> "user", fn |-> "message", arg |-> m, st |-> "OK"]
             d == [b EXCEPT !.calls = Append(@, k)]
  <2>1. CallTopicHandler(b, m) \in {b, d} BY DEF CallTopicHandler
  <2>2. Wire(b, b) BY SameWire DEF Same
  <2>3. k.fn # "pull" OBVIOUS
  <2> HIDE DEF k
  <2>4. SaysMore(b, d, k) /\ ("data" \in DOMAIN b => d.data = b.data) BY <2>3 DEF SaysMore
  <2>5. Wire(b, d) BY <2>4, MoreWire
  <2> HIDE DEF d
  <2> QED BY <2>1, <2>2, <2>5
<1>2. Wire(a, PublishQ1Received(a, m))
  <2> DEFINE b == Check(a, \A k \in 1..Len(a.recv) : a.recv[k].id # m.id, "same_recv_id")
             d == [b EXCEPT !.recv = Append(@, m)]
  <2>1. PublishQ1Received(a, m) = OnPrev(d, "logic", "push", m, "OK") BY DEF PublishQ1Received
  <2>2. Wire(a, b) BY WireCheck
  <2> HIDE DEF b
  <2>3. Wire(b, d) BY SameWire DEF Same
  <2> HIDE DEF d
  <2> QED BY <2>1, <2>2, <2>3, WireOn, WireTrans
<1>3. Wire(a, PubackWritten(a, m, st))
  <2> DEFINE b == [a EXCEPT !.recv = Kept(@, Range(@) \ {m})]
  <2>1. PubackWritten(a, m, st) \in {OnPrev(a, "logic", "push", m, "OK"), CallTopicHandler(b, m)}
    BY DEF PubackWritten
  <2>2. Wire(a, b) BY SameWire DEF Same
  <2> HIDE DEF b
  <2> QED BY <2>1, <2>2, <1>1, WireOn, WireTrans
<1> QED BY <1>1, <1>2, <1>3 DEF PublishReceived

LEMMA WirePush ==
  ASSUME NEW a \in Memory, NEW m, NEW st \in {"OK", "WRITTEN", "FAILED"}, st = "OK" => m.task \in Tasks
  PROVE  Wire(a, LogicPushHandler(a, m, st))
<1> DEFINE t == IF m.id = 0 THEN a.current ELSE TaskWithId(a, m.id)
           r == MessageWithId(a, m.id)
<1>1. Wire(a, a) BY SameWire DEF Same
<1>2. LogicPushHandler(a, m, st) \in {FreeTask(a, m.task), a, Confirm(a, m, st), RunTask(a, m.task)}
      /\ (LogicPushHandler(a, m, st) = RunTask(a, m.task) \/ LogicPushHandler(a, m, st) # RunTask(a, m.task))
  BY DEF LogicPushHandler
<1>3. st = "OK" => LogicPushHandler(a, m, st) \in {FreeTask(a, m.task), a, RunTask(a, m.task)}
  BY DEF LogicPushHandler
<1>4. st # "OK" => LogicPushHandler(a, m, st) \in {a, Confirm(a, m, st)}
  BY DEF LogicPushHandler
<1>5. Wire(a, Confirm(a, m, st))
  <2>1. t # None => t \in Tasks
    <3>1. a.current # None => a.current \in Tasks BY FieldsOf
    <3>2. TaskWithId(a, m.id) # None => TaskWithId(a, m.id) \in Tasks BY TaskFound, TaskNames
    <3> QED BY <3>1, <3>2
  <2>2. \/ Confirm(a, m, st) = PubackWritten(a, r, st)
        \/ t # None /\ Confirm(a, m, st) = Resume(a, t, st, NoMsg)
        \/ Confirm(a, m, st) = a
    BY DEF Confirm
  <2> HIDE DEF t, r
  <2> QED BY <2>1, <2>2, <1>1, WireMessages, WireResume
<1>6. CASE st = "OK"
  <2>1. Wire(a, FreeTask(a, m.task)) /\ Wire(a, RunTask(a, m.task)) BY <1>6, WireFree, WireRun
  <2> QED BY <2>1, <1>1, <1>3, <1>6
<1>7. CASE st # "OK" BY <1>1, <1>4, <1>5, <1>7
<1> QED BY <1>6, <1>7

LEMMA WirePull ==
  ASSUME NEW a \in Memory, NEW m
  PROVE  Wire(a, LogicPullHandler(a, m))
<1> DEFINE t == TaskWithId(a, m.id)
           b == Check(a, a.current # None, "answer_without_task")
<1>1. Wire(a, a) BY SameWire DEF Same
<1>2. Wire(a, b) BY WireCheck
<1>3. b.current # None => b = a /\ b.current \in Tasks
  <2>1. a.current # None => b = a BY DEF Check
  <2>2. a.current # None => a.current \in Tasks BY FieldsOf
  <2>3. b.current = a.current
    <3>1. "answer_without_task" \in Asserts BY AssertNames
    <3>2. Edits(a, b, {"abort"})
      <4> DEFINE h == a.current # None
      <4> HIDE DEF h
      <4>1. Edits(a, Check(a, h, "answer_without_task"), {"abort"}) BY <3>1, CheckIs
      <4> QED BY <4>1 DEF h
    <3> HIDE DEF b
    <3> QED BY <3>2 DEF Edits, Fields
  <2> QED BY <2>1, <2>2, <2>3
<1>4. t # None => t \in Tasks BY TaskFound, TaskNames
<1>5. \/ LogicPullHandler(a, m) = a
      \/ LogicPullHandler(a, m) = PublishReceived(a, m)
      \/ t # None /\ LogicPullHandler(a, m) = Resume(a, t, "OK", m)
      \/ b.current # None /\ LogicPullHandler(a, m) = Resume(b, b.current, "OK", m)
      \/ LogicPullHandler(a, m) = b
  BY DEF LogicPullHandler
<1> HIDE DEF t, b
<1> QED BY <1>1, <1>2, <1>3, <1>4, <1>5, WireMessages, WireResume

(* The control topic layer and the codec layer.                             *)
LEMMA WireReport == \A a, st : Wire(a, ConnectionStateChanged(a, st))
<1> SUFFICES ASSUME NEW a, NEW st PROVE Wire(a, ConnectionStateChanged(a, st)) OBVIOUS
<1> DEFINE k == [layer |-> "user", fn |-> "connection", arg |-> NoMsg, st |-> st]
           g == [a EXCEPT !.calls = Append(@, k)]
<1>1. ConnectionStateChanged(a, st) \in {g, OnThis(g, "top", "post_connect", NoMsg, st)}
  BY DEF ConnectionStateChanged
<1>2. Wire(a, g)
  <2>1. k.fn # "pull" OBVIOUS
  <2> HIDE DEF k
  <2>2. SaysMore(a, g, k) /\ ("data" \in DOMAIN a => g.data = a.data) BY <2>1 DEF SaysMore
  <2> QED BY <2>2, MoreWire
<1> HIDE DEF g
<1> QED BY <1>1, <1>2, WireOn, WireTrans

LEMMA WireTopConnect == \A a, st : Wire(a, TopConnectHandler(a, st))
<1> SUFFICES ASSUME NEW a, NEW st PROVE Wire(a, TopConnectHandler(a, st)) OBVIOUS
<1> DEFINE b == Check(a, ControlTopic => a.data["top"], "top_data")
           d == ConnectionStateChanged(b, st)
           m == [NoMsg EXCEPT !.task = "control"]
           e == OnPrev(MakeTask(d, "control", "DO_NOT_STORE"), "top", "push", m, "OK")
           f == OnPrev(b, "top", "close", NoMsg, st)
<1>1. TopConnectHandler(a, st) \in {f, e, d} BY DEF TopConnectHandler
<1>2. Wire(a, b) BY WireCheck
<1> HIDE DEF b
<1>3. Wire(b, d) BY WireReport
<1> HIDE DEF d
<1>4. Wire(d, e) BY WireMake, WireOn, WireTrans
<1>5. Wire(b, f) BY WireOn
<1> HIDE DEF e, f
<1> QED BY <1>1, <1>2, <1>3, <1>4, <1>5, WireTrans

LEMMA WireCodecPush == \A a, m, st : Wire(a, CodecPushHandler(a, m, st))
<1> SUFFICES ASSUME NEW a, NEW m, NEW st PROVE Wire(a, CodecPushHandler(a, m, st)) OBVIOUS
<1> DEFINE b == [a EXCEPT !.queue = Append(@, m)]
           e == [a EXCEPT !.queue = Tail(@)]
           d == OnSucc(e, "codec", "push", Head(a.queue), st)
<1>1. CodecPushHandler(a, m, st) \in {a, b, SendNext(b), SendNext(d)} BY DEF CodecPushHandler, SendNext
<1>2. Wire(a, b) /\ Wire(a, e) /\ Wire(a, a) BY SameWire DEF Same
<1> HIDE DEF b, e
<1>3. Wire(a, d) BY <1>2, WireOn, WireTrans
<1> HIDE DEF d
<1>4. \A x : Wire(x, SendNext(x))
  <2>1. \A x : Wire(x, x) BY SameWire DEF Same
  <2> QED BY <2>1, WireOn DEF SendNext
<1> QED BY <1>1, <1>2, <1>3, <1>4, WireTrans
-----------------------------------------------------------------------------
(* A handler of the socket leaves the data of the layers as it is.          *)
LEMMA WireIo == \A a, v : Wire(a, [a EXCEPT !.io = v])
BY SameWire DEF Same

(* Writing to the socket, and its other handlers.                           *)
LEMMA WireWrite ==
  ASSUME NEW a, NEW m, IoWrite(a, m)
  PROVE  Wire(a, c')
<1> DEFINE b == [a EXCEPT !.io = "idle"]
           d == [a EXCEPT !.io = "blocked"]
<1>1. c' \in {OnSucc(b, "io", "push", NoMsg, "WRITTEN"), d, OnThis(b, "io", "close_externally", NoMsg, "ERR")}
  BY DEF IoWrite
<1>2. Wire(a, b) /\ Wire(a, d) BY WireIo
<1> HIDE DEF b, d
<1> QED BY <1>1, <1>2, WireOn, WireTrans

LEMMA SocketStill ==
  ASSUME c \in Memory, SocketConnected \/ SocketWritable \/ SocketReset
  PROVE  Wire(c, c') /\ Still(c, c') /\ phase' = "timers" /\ c.data["io"]
<1>1. phase' = "timers" /\ c.data["io"] BY DEF SocketConnected, SocketWritable, SocketReset, Polled, IoUsable
<1>2. Wire(c, c')
  <2>1. CASE SocketConnected
    <3> DEFINE b == [c EXCEPT !.io = "idle"]
    <3>1. c' \in {OnSucc(b, "io", "connect", NoMsg, "OK"), OnSucc(b, "io", "connect", NoMsg, "ERR")}
      BY <2>1 DEF SocketConnected
    <3>2. Wire(c, b) BY WireIo
    <3> HIDE DEF b
    <3> QED BY <3>1, <3>2, WireOn, WireTrans
  <2>2. CASE SocketWritable BY <2>2, WireWrite DEF SocketWritable
  <2>3. CASE SocketReset
    <3>1. c' = OnThis(c, "io", "close_externally", NoMsg, "ERR") BY <2>3 DEF SocketReset
    <3> QED BY <3>1, WireOn
  <2> QED BY <2>1, <2>2, <2>3
<1> QED BY <1>1, <1>2, WireStill

(* So do the timers of the layer.                                           *)
LEMMA KeepaliveStill ==
  ASSUME c \in Memory, Running, Sound(c), KeepaliveOnce
  PROVE  Wire(c, c') /\ Still(c, c') /\ phase' = "timers" /\ c.data["logic"]
<1> DEFINE b == [c EXCEPT !.keepalive_event = FALSE]
           d == MakeTask(b, "keepalive", "UNSET")
           m == [NoMsg EXCEPT !.task = "keepalive"]
<1>1. c' = LogicPushHandler(d, m, "OK") /\ c.keepalive_event /\ phase' = "timers"
  BY DEF KeepaliveOnce, Expires
<1>2. c.data["logic"] BY <1>1 DEF Sound, Fit, DataInv
<1>3. b \in Memory
  <2>1. Edits(c, b, {"keepalive_event"}) BY EditEvent
  <2> QED BY <2>1 DEF Edits
<1>4. Wire(c, b) BY SameWire DEF Same
<1> HIDE DEF b
<1>5. "keepalive" \in Tasks BY TaskNames
<1>6. d \in Memory
  <2>1. "UNSET" \in {"UNSET", "DO_NOT_STORE"} OBVIOUS
  <2>2. Makes(b, d, "keepalive", "UNSET") BY <1>3, <1>5, <2>1, MakeIs
  <2> QED BY <2>2 DEF Makes
<1>7. Wire(b, d) BY WireMake
<1> HIDE DEF d
<1>8. m.task = "keepalive" BY <1>5, NoMsgIs
<1> HIDE DEF m
<1>9. Wire(d, c') BY <1>1, <1>5, <1>6, <1>8, WirePush
<1>10. Wire(c, c') BY <1>4, <1>7, <1>9, WireTrans
<1> QED BY <1>1, <1>2, <1>10, WireStill

(* The timers of the tasks.                                                 *)
LEMMA WireConnectTimeout == \A a : Wire(a, DoMqttConnectTimeout(a))
<1> SUFFICES ASSUME NEW a PROVE Wire(a, DoMqttConnectTimeout(a)) OBVIOUS
<1> QED BY WireFinalize, WireClose, WireOn, WireTrans DEF DoMqttConnectTimeout

LEMMA TimeoutStill ==
  ASSUME c \in Memory, Running, Sound(c), NEW t \in Tasks, TaskTimeout(t)
  PROVE  Wire(c, c') /\ Still(c, c') /\ phase' = "timers" /\ c.data["logic"]
<1> DEFINE a == CancelTimeout(c, t)
           s == IF c.task[t].cs = "retry" THEN "RESEND" ELSE "TIMEOUT"
<1>1. /\ c' \in {DoMqttConnectTimeout(a), Resume(a, t, s, NoMsg)} /\ c.task[t].timeout
      /\ phase' = "timers"
  BY DEF TaskTimeout, Expires
<1>2. c.data["logic"]
  <2>1. c.abort = "none" BY DEF Running
  <2> QED BY <1>1, <2>1, CancelStays
<1>3. Wire(c, a) BY WireTimer
<1> HIDE DEF a, s
<1>4. Wire(a, c') BY <1>1, WireConnectTimeout, WireResume
<1>5. Wire(c, c') BY <1>3, <1>4, WireTrans
<1> QED BY <1>1, <1>2, <1>5, WireStill

(* While the logic layer has data, no connection is asked for.              *)
LEMMA StillPolls ==
  ASSUME c \in Memory, c' \in Memory, Still(c, c'), c.data["logic"], c'.abort = "none", Sound(c'),
         phase' = "timers"
  PROVE  PollInv(phase', c')
<1>1. c'.data["logic"] BY DEF Still
<1>2. ~c'.connect_handler BY <1>1 DEF Sound, Fit, DataInv
<1> QED BY <1>2 DEF PollInv
-----------------------------------------------------------------------------
(* The types of the network, a field at a time.                             *)
LEMMA NetFields ==
  ASSUME NEW n \in Network
  PROVE  /\ n.link \in [up : BOOLEAN, open : BOOLEAN, out : Seq(OutMessages), back : Seq(Messages)]
         /\ n.link.up \in BOOLEAN /\ n.link.open \in BOOLEAN
         /\ n.link.out \in Seq(OutMessages) /\ n.link.back \in Seq(Messages)
         /\ n.delivered \in SUBSET Tasks /\ n.acked \in SUBSET Incoming /\ n.due \in SUBSET Incoming
         /\ n.server \in [subscribed : BOOLEAN, clean : BOOLEAN, sent : Seq(Incoming),
                          unacked : Seq(InMessages)]
         /\ n.server.sent \in Seq(Incoming) /\ n.server.unacked \in Seq(InMessages)
BY DEF Network

(* The network with another field.                                          *)
LEMMA NetLink ==
  ASSUME NEW n \in Network
  PROVE  /\ \A v \in Seq(OutMessages) : [n EXCEPT !.link.out = v] \in Network
         /\ \A v \in Seq(Messages) : [n EXCEPT !.link.back = v] \in Network
         /\ \A v \in BOOLEAN : [n EXCEPT !.link.up = v] \in Network /\ [n EXCEPT !.link.open = v] \in Network
BY DEF Network

LEMMA NetRest ==
  ASSUME NEW n \in Network
  PROVE  /\ \A v \in SUBSET Tasks : [n EXCEPT !.delivered = v] \in Network
         /\ \A v \in SUBSET Incoming : [n EXCEPT !.acked = v] \in Network /\ [n EXCEPT !.due = v] \in Network
         /\ \A v \in BOOLEAN : [n EXCEPT !.server.subscribed = v] \in Network
         /\ \A v \in Seq(Incoming) : [n EXCEPT !.server.sent = v] \in Network
         /\ \A v \in Seq(InMessages) : [n EXCEPT !.server.unacked = v] \in Network
BY DEF Network

(* A new connection.                                                        *)
LEMMA NewLink ==
  ASSUME NEW n \in Network
  PROVE  [n EXCEPT !.link = NoNet] \in Network
<1>1. <<>> \in Seq(OutMessages) /\ <<>> \in Seq(Messages) OBVIOUS
<1>2. NoNet \in [up : BOOLEAN, open : BOOLEAN, out : Seq(OutMessages), back : Seq(Messages)]
  BY <1>1 DEF NoNet
<1> HIDE DEF NoNet
<1> QED BY <1>2 DEF Network

(* The server takes the first message that was written, ...                 *)
LEMMA FirstOut ==
  ASSUME net \in Network, net.link.out # <<>>
  PROVE  /\ Head(net.link.out) \in OutMessages /\ Head(net.link.out) \in Messages
         /\ Tail(net.link.out) \in Seq(OutMessages) /\ Head(net.link.out).task \in Tasks \cup In1
<1>1. net.link.out \in Seq(OutMessages) BY NetFields
<1>2. Head(net.link.out) \in OutMessages /\ Tail(net.link.out) \in Seq(OutMessages) BY <1>1
<1> QED BY <1>2 DEF OutMessages

(* The server took a message.                                               *)
LEMMA TakenIs ==
  ASSUME net \in Network, net.link.out # <<>>
  PROVE  Taken \in Network
<1> DEFINE q == Tail(net.link.out)
           n == [net EXCEPT !.link.out = q]
           D1 == IF net.link.open \/ Head(net.link.out).task = "connect"
                 THEN net.delivered \cup ({Head(net.link.out).task} \ In1) ELSE net.delivered
           d == [n EXCEPT !.delivered = D1]
<1>1. q \in Seq(OutMessages) BY FirstOut
<1>2. D1 \in SUBSET Tasks BY FirstOut, NetFields
<1>3. Taken = d BY DEF Taken, Network
<1> HIDE DEF q, D1
<1>4. n \in Network BY <1>1, NetLink
<1> HIDE DEF n
<1>5. d \in Network BY <1>2, <1>4, NetRest
<1> HIDE DEF d
<1> QED BY <1>3, <1>5

(* ... and answers it.                                                      *)
LEMMA AnswerIs ==
  ASSUME net \in Network, net.link.out # <<>>, NEW n \in Network, NEW ok \in BOOLEAN
  PROVE  Answer(n, ok) \in Network
<1> DEFINE m == [Head(net.link.out) EXCEPT !.ok = ok]
           v == Append(n.link.back, m)
<1>1. Head(net.link.out) \in Messages BY FirstOut
<1>2. m \in Messages BY <1>1 DEF Messages
<1> HIDE DEF m
<1>3. v \in Seq(Messages) BY <1>2, NetFields
<1>4. Answer(n, ok) = [n EXCEPT !.link.back = v] BY DEF Answer, m, Network
<1> HIDE DEF v
<1> QED BY <1>3, <1>4, NetLink

(* It sends publications.                                                   *)
LEMMA SendIs ==
  ASSUME NEW n \in Network, NEW ms \in Seq(InMessages)
  PROVE  SendPublications(n, ms) \in Network
<1> DEFINE S == {ms[k].task : k \in 1..Len(ms)}
           v == n.link.back \o ms
           e == [n EXCEPT !.link.back = v]
           D1 == IF c.told THEN n.due \cup S ELSE n.due \ S
<1>1. S \subseteq Incoming
  <2>1. \A k \in 1 .. Len(ms) : ms[k] \in InMessages OBVIOUS
  <2>2. \A m \in InMessages : m.task \in Incoming BY DEF InMessages
  <2> QED BY <2>1, <2>2
<1>2. v \in Seq(Messages)
  <2>1. n.link.back \in Seq(Messages) BY NetFields
  <2>2. InMessages \subseteq Messages BY DEF InMessages
  <2>3. ms \in Seq(Messages) BY <2>2
  <2> QED BY <2>1, <2>3
<1>3. D1 \in SUBSET Incoming BY <1>1, NetFields
<1>4. SendPublications(n, ms) = [e EXCEPT !.due = D1] BY DEF SendPublications, Network
<1> HIDE DEF v, D1
<1>5. e \in Network BY <1>2, NetLink
<1> HIDE DEF e
<1> QED BY <1>3, <1>4, <1>5, NetRest

(* The server begins a session.                                             *)
LEMMA SessionIs ==
  ASSUME NEW n \in Network
  PROVE  ServerSession(n) \in Network
<1> DEFINE w == (c.session = "CLEAN")
           s == n.server.sent
           v == [NewSession EXCEPT !.clean = w, !.sent = s]
<1>1. SendPublications(n, n.server.unacked) \in Network
  <2> DEFINE ms == n.server.unacked
  <2>1. ms \in Seq(InMessages) BY NetFields
  <2> HIDE DEF ms
  <2>2. SendPublications(n, ms) \in Network BY <2>1, SendIs
  <2> QED BY <2>2 DEF ms
<1>2. [n EXCEPT !.server = v] \in Network
  <2>1. w \in BOOLEAN BY ZenonT(20)
  <2>2. s \in Seq(Incoming) BY NetFields
  <2>3. <<>> \in Seq(InMessages) OBVIOUS
  <2> HIDE DEF w, s
  <2> DEFINE T == [subscribed : BOOLEAN, clean : BOOLEAN, sent : Seq(Incoming), unacked : Seq(InMessages)]
  <2>4. NewSession \in T BY <2>3 DEF NewSession
  <2>5. v \in T
    <3>1. \A r \in T : [r EXCEPT !.clean = w, !.sent = s] \in T BY <2>1, <2>2
    <3> HIDE DEF T
    <3> QED BY <2>4, <3>1
  <2> QED BY <2>5 DEF Network
<1>3. ServerSession(n) \in {SendPublications(n, n.server.unacked), [n EXCEPT !.server = v]}
  BY DEF ServerSession
<1> HIDE DEF v
<1> QED BY <1>1, <1>2, <1>3
-----------------------------------------------------------------------------
(* What the server and the socket do is well typed.                         *)
LEMMA ServerTypes ==
  ASSUME net \in Network, Server
  PROVE  net' \in Network /\ c' = c /\ phase' = phase
<1> DEFINE m == Head(net.link.out)
<1>1. c' = c /\ phase' = phase /\ net.link.out # <<>>
  BY DEF Server, ServerConnect, ServerSubscribe, ServerTakes, ServerPuback, ServerIgnores, Takes
<1>2. Taken \in Network BY <1>1, TakenIs
<1>3. TRUE \in BOOLEAN /\ FALSE \in BOOLEAN OBVIOUS
<1>4. Answer(Taken, TRUE) \in Network /\ Answer(Taken, FALSE) \in Network BY <1>1, <1>2, <1>3, AnswerIs
<1>5. CASE ServerConnect
  <2> DEFINE n == [Answer(Taken, TRUE) EXCEPT !.link.open = TRUE]
  <2>1. n \in Network BY <1>3, <1>4, NetLink
  <2>2. net' \in {ServerSession(n), Answer(Taken, FALSE)} BY <1>5 DEF ServerConnect
  <2> HIDE DEF n
  <2>3. ServerSession(n) \in Network BY <2>1, SessionIs
  <2> QED BY <1>1, <1>4, <2>2, <2>3
<1>6. CASE ServerSubscribe
  <2> DEFINE n == Answer(Taken, TRUE)
             v == n.server.subscribed \/ m.task \in Subs
             e == [n EXCEPT !.server.subscribed = v]
  <2>1. net' \in {e, Answer(Taken, FALSE)} BY <1>6 DEF ServerSubscribe
  <2>2. v \in BOOLEAN
    <3>1. n.server.subscribed \in BOOLEAN BY <1>4, NetFields
    <3> HIDE DEF n, m
    <3> QED BY <3>1
  <2> HIDE DEF v
  <2>3. e \in Network
    <3>1. n \in Network BY <1>4
    <3> HIDE DEF n
    <3> QED BY <2>2, <3>1, NetRest
  <2> HIDE DEF e
  <2> QED BY <1>1, <1>4, <2>1, <2>3
<1>7. CASE ServerTakes
  <2> DEFINE e == [Taken EXCEPT !.link.open = FALSE]
  <2>1. net' \in {e, Taken, Answer(Taken, TRUE)} BY <1>7 DEF ServerTakes
  <2>2. e \in Network BY <1>2, <1>3, NetLink
  <2> HIDE DEF e
  <2> QED BY <1>1, <1>2, <1>4, <2>1, <2>2
<1>8. CASE ServerPuback
  <2> DEFINE S == Taken.acked \cup {m.task}
             q == Taken.server.unacked
             u == Kept(q, Range(q) \ {m})
             n == [Taken EXCEPT !.acked = S]
             e == [n EXCEPT !.server.unacked = u]
  <2>1. m.task \in Incoming
    <3>1. m.task \in In1 BY <1>8 DEF ServerPuback, Takes
    <3> QED BY <3>1, TaskAssumption
  <2>2. S \in SUBSET Incoming BY <1>2, <2>1, NetFields
  <2>3. u \in Seq(InMessages)
    <3>1. q \in Seq(InMessages) BY <1>2, NetFields
    <3> HIDE DEF q, m
    <3> QED BY <3>1, KeptRange
  <2>4. net' = e BY <1>2, <1>8 DEF ServerPuback, Network
  <2>5. e \in Network
    <3> HIDE DEF S, u, m, q
    <3>1. n \in Network BY <1>2, <2>2, NetRest
    <3> HIDE DEF n
    <3> QED BY <2>3, <3>1, NetRest
  <2> HIDE DEF e
  <2> QED BY <1>1, <2>4, <2>5
<1>9. CASE ServerIgnores BY <1>1, <1>2, <1>9 DEF ServerIgnores
<1> QED BY <1>5, <1>6, <1>7, <1>8, <1>9 DEF Server
(* The next publication the server sends.                                   *)
Publication ==
  LET k == 1 + Len(net.server.sent)
  IN  [task |-> Publications[k], id |-> IF Publications[k] \in In1 THEN k ELSE 0, ok |-> TRUE]

(* What the server publishes.                                               *)
LEMMA PublicationIs ==
  ASSUME net \in Network, ServerPublish
  PROVE  Publication \in InMessages /\ Publication.task \in Incoming
<1> DEFINE k == 1 + Len(net.server.sent)
           p == Publications[k]
           i == IF Publications[k] \in In1 THEN k ELSE 0
           m == [task |-> p, id |-> i, ok |-> TRUE]
<1>1. k \in Nat /\ k <= Len(Publications) /\ k >= 1
  <2>1. net.server.sent \in Seq(Incoming) BY NetFields
  <2>2. k <= Len(Publications) BY DEF ServerPublish
  <2> QED BY <2>1, <2>2
<1>2. p \in Incoming /\ k \in 0 .. (IdMod - 1)
  <2>1. Publications \in Seq(Incoming) /\ IdMod \in Nat BY TaskAssumption
  <2>2. Len(Publications) < IdMod BY ClientAssumption
  <2> HIDE DEF k
  <2> QED BY <1>1, <2>1, <2>2
<1>3. i \in 0 .. (IdMod - 1)
  <2>1. 0 \in 0 .. (IdMod - 1) BY TaskAssumption
  <2> HIDE DEF k
  <2> QED BY <1>2, <2>1
<1>4. Publication = m BY DEF Publication
<1> HIDE DEF k, p, i
<1>5. TRUE \in BOOLEAN OBVIOUS
<1>6. m \in Messages /\ m.task = p BY <1>2, <1>3, <1>5 DEF Messages
<1> QED BY <1>2, <1>4, <1>6 DEF InMessages

(* The network is well formed after it does,                                *)
LEMMA PublishTypes ==
  ASSUME net \in Network, ServerPublish
  PROVE  net' \in Network /\ c' = c /\ phase' = phase
<1> DEFINE m == Publication
           s == SendPublications(net, <<m>>)
           v == Append(s.server.sent, m.task)
           n == [s EXCEPT !.server.sent = v]
           u == Append(n.server.unacked, m)
           e == [n EXCEPT !.server.unacked = u]
<1>3. m \in InMessages /\ m.task \in Incoming BY PublicationIs
<1>4. net' \in {n, e} BY DEF ServerPublish, Publication
<1>5. c' = c /\ phase' = phase BY DEF ServerPublish
<1> HIDE DEF m
<1>6. s \in Network
  <2>1. <<m>> \in Seq(InMessages) BY <1>3
  <2> QED BY <2>1, SendIs
<1> HIDE DEF s
<1>7. v \in Seq(Incoming) BY <1>3, <1>6, NetFields
<1> HIDE DEF v
<1>8. n \in Network BY <1>6, <1>7, NetRest
<1> HIDE DEF n
<1>9. u \in Seq(InMessages) BY <1>3, <1>8, NetFields
<1> HIDE DEF u
<1>10. e \in Network BY <1>8, <1>9, NetRest
<1> HIDE DEF e
<1> QED BY <1>4, <1>5, <1>8, <1>10

(* after a write,                                                           *)
LEMMA WriteTypes ==
  ASSUME net \in Network, NEW a, NEW m \in OutMessages, IoWrite(a, m)
  PROVE  net' \in Network
<1> DEFINE v == Append(net.link.out, m)
<1>1. v \in Seq(OutMessages) BY NetFields
<1>2. net' \in {[net EXCEPT !.link.out = v], net}
  BY DEF IoWrite, Network
<1> HIDE DEF v
<1> QED BY <1>1, <1>2, NetLink

(* from the call queue,                                                     *)
LEMMA IoPushTypes ==
  ASSUME c \in Memory, net \in Network, Running, Sound(c), IoPush
  PROVE  net' \in Network
<1>1. Called("io", "push") BY DEF IoPush
<1>2. Call \in Calls /\ Call.layer = "io" /\ Call.fn = "push" BY <1>1, CalledIs
<1>3. Call.arg \in OutMessages BY <1>2 DEF Calls, Outward
<1> QED BY <1>3, WriteTypes DEF IoPush

(* The message that waits for the socket is at the head of the queue.       *)
LEMMA Waiting ==
  ASSUME c \in Memory, Sound(c), c.data["io"], c.io = "blocked"
  PROVE  c.queue # <<>> /\ Head(c.queue) \in OutMessages
<1>1. c.data["codec"] BY DEF Sound, Fit, DataInv
<1>2. c.queue # <<>> BY <1>1 DEF Sound, Fit, CodecInv
<1>3. c.queue \in Seq(OutMessages) BY FieldsOf
<1> QED BY <1>2, <1>3

(* by the socket's handlers,                                                *)
LEMMA SocketTypes ==
  ASSUME c \in Memory, net \in Network, Sound(c), SocketConnected \/ SocketWritable \/ SocketReset
  PROVE  net' \in Network
<1>1. CASE SocketConnected BY <1>1, NetLink DEF SocketConnected
<1>2. CASE SocketWritable
  <2>1. c.data["io"] /\ c.io = "blocked" /\ IoWrite(c, Head(c.queue))
    BY <1>2 DEF SocketWritable, Polled, IoUsable
  <2>2. Head(c.queue) \in OutMessages BY <2>1, Waiting
  <2> QED BY <2>1, <2>2, WriteTypes
<1>3. CASE SocketReset BY <1>3 DEF SocketReset
<1> QED BY <1>1, <1>2, <1>3

(* after a read,                                                            *)
LEMMA ReadTypes ==
  ASSUME net \in Network, NEW n \in 1 .. Len(net.link.back),
         net' = [net EXCEPT !.link.back = SubSeq(net.link.back, n + 1, Len(net.link.back))]
  PROVE  net' \in Network
<1> DEFINE v == SubSeq(net.link.back, n + 1, Len(net.link.back))
<1>1. v \in Seq(Messages) BY NetFields
<1>2. net' = [net EXCEPT !.link.back = v] OBVIOUS
<1> HIDE DEF v
<1> QED BY <1>1, <1>2, NetLink

(* and at the end of the connection.                                        *)
LEMMA IoCloseTypes ==
  ASSUME net \in Network, IoCloseExternally
  PROVE  net' \in Network
BY NewLink DEF IoCloseExternally
-----------------------------------------------------------------------------
(* The invariant, step by step.  What is executed from the call queue:      *)
Sane(a, b) == b \in Memory /\ (b.abort = "none" => Sound(b))
DrainCalls ==
  \/ UserCallback \/ UserConnection \/ UserMessage \/ TopPush \/ TopConnect \/ TopCloseExternally
  \/ \E l \in {"top", "codec", "io"} : DefaultPostConnect(l)
  \/ LogicPush \/ LogicPull \/ LogicInit \/ LogicConnect \/ LogicPostConnect
  \/ LogicCloseCalled \/ LogicCloseExternally
  \/ CodecPush \/ CodecPull \/ CodecInit \/ CodecConnect \/ CodecClose \/ CodecCloseExternally
  \/ IoInit \/ IoConnect \/ IoClose

(* Every kind of step found so far keeps the invariant.                     *)
LEMMA AreSane ==
  ASSUME NEW a, NEW b
  PROVE  /\ Stays(a, b) => Sane(a, b)
         /\ \A x, may : Does(a, b, x, may) => Sane(a, b)
         /\ Ends(a, b) => Sane(a, b)
         /\ Quietly(a, b) => Sane(a, b)
         /\ \A m, fits : Answers(a, b, m, fits) => Sane(a, b)
         /\ Begins(a, b) => Sane(a, b)
         /\ Holds(a, b) => Sane(a, b)
BY DEF Stays, Does, Ends, Quietly, Answers, Begins, Holds, Sane

(* So a call from the queue does,                                           *)
LEMMA DrainSane ==
  ASSUME c \in Memory, Running, Sound(c), DrainCalls
  PROVE  Sane(c, c') /\ phase = "drain" /\ phase' = "drain" /\ net' = net
<1>1. CASE UserCallback BY <1>1, UserCallbackStays, AreSane DEF UserCallback, Called, Becomes
<1>2. CASE UserConnection BY <1>2, ConnectionStays, AreSane DEF UserConnection, Called, Becomes
<1>3. CASE UserMessage BY <1>3, UserMessageStays, AreSane DEF UserMessage, Called, Becomes
<1>4. CASE TopPush BY <1>4, TopPushStays, AreSane DEF TopPush, Called, Becomes
<1>5. CASE TopConnect BY <1>5, TopConnectStays, AreSane DEF TopConnect, Called, Becomes
<1>6. CASE TopCloseExternally BY <1>6, TopCloseStays, AreSane DEF TopCloseExternally, Called, Becomes
<1>7. CASE \E l \in {"top", "codec", "io"} : DefaultPostConnect(l)
  BY <1>7, PostConnectStays, AreSane DEF DefaultPostConnect, Called, Becomes
<1>8. CASE LogicPush BY <1>8, LogicPushQuietly, AreSane DEF LogicPush, Called, Becomes
<1>9. CASE LogicPull BY <1>9, LogicPullAnswers, AreSane DEF LogicPull, Called, Becomes
<1>10. CASE LogicInit BY <1>10, LogicInitBegins, AreSane DEF LogicInit, Called, Becomes
<1>11. CASE LogicConnect BY <1>11, LogicConnectQuietly, AreSane DEF LogicConnect, Called, Becomes
<1>12. CASE LogicPostConnect BY <1>12, LogicPostConnectStays, AreSane DEF LogicPostConnect, Called, Becomes
<1>13. CASE LogicCloseCalled BY <1>13, LogicCloseCalledStays, AreSane DEF LogicCloseCalled, Called, Becomes
<1>14. CASE LogicCloseExternally BY <1>14, LogicCloseEnds, AreSane DEF LogicCloseExternally, Called, Becomes
<1>15. CASE CodecPush BY <1>15, CodecPushStays, AreSane DEF CodecPush, Called, Becomes
<1>16. CASE CodecPull BY <1>16, CodecPullStays, AreSane DEF CodecPull, Called, Becomes
<1>17. CASE CodecInit BY <1>17, CodecInitStays, AreSane DEF CodecInit, Called, Becomes
<1>18. CASE CodecConnect BY <1>18, CodecConnectStays, AreSane DEF CodecConnect, Called, Becomes
<1>19. CASE CodecClose BY <1>19, CodecCloseStays, AreSane DEF CodecClose, Called, Becomes
<1>20. CASE CodecCloseExternally
  BY <1>20, CodecCloseExternallyStays, AreSane DEF CodecCloseExternally, Called, Becomes
<1>21. CASE IoInit BY <1>21, IoInitStays, AreSane DEF IoInit, Called
<1>22. CASE IoConnect BY <1>22, IoConnectStays, AreSane DEF IoConnect, Called
<1>23. CASE IoClose BY <1>23, IoCloseStays, AreSane DEF IoClose, Called, Becomes
<1> QED BY <1>1, <1>2, <1>3, <1>4, <1>5, <1>6, <1>7, <1>8, <1>9, <1>10, <1>11, <1>12, <1>13, <1>14, <1>15,
           <1>16, <1>17, <1>18, <1>19, <1>20, <1>21, <1>22, <1>23 DEF DrainCalls
(* The calls that reach the socket, the handlers of the socket, ...         *)
After == Sane(c, c') /\ net' \in Network /\ phase' \in {"poll", "timers", "drain"}
         /\ (c'.abort = "none" => PollInv(phase', c'))

(* PollInv is about other moments than the draining of the queue.           *)
LEMMA DrainedPolls ==
  ASSUME NEW a
  PROVE  PollInv("drain", a)
BY DEF PollInv

(* and the socket's handlers do.                                            *)
LEMMA SocketAfter ==
  ASSUME c \in Memory, net \in Network, Running, Sound(c), PollInv(phase, c),
         \/ IoPush \/ IoCloseExternally \/ SocketConnected \/ SocketReadable \/ SocketWritable \/ SocketReset
  PROVE  After
<1>1. CASE IoPush
  <2>1. phase' = "drain" BY <1>1 DEF IoPush, Called
  <2> QED BY <1>1, <2>1, IoPushStays, IoPushTypes, AreSane, DrainedPolls DEF After
<1>2. CASE IoCloseExternally
  <2>1. phase' = "drain" BY <1>2 DEF IoCloseExternally, Called
  <2> QED BY <1>2, <2>1, IoCloseExternallyStays, IoCloseTypes, AreSane, DrainedPolls DEF After
<1>3. CASE SocketReadable
  <2>1. /\ Holds(c, c') /\ c'.data = c.data /\ c'.conn = c.conn
        /\ c'.connect_handler = c.connect_handler
        /\ \E n \in 1 .. Len(net.link.back) :
              net' = [net EXCEPT !.link.back = SubSeq(net.link.back, n + 1, Len(net.link.back))]
    BY <1>3, SocketReadableHolds
  <2>2. phase' = "timers" /\ c.data["io"] BY <1>3 DEF SocketReadable, Polled, IoUsable
  <2>3. net' \in Network BY <2>1, ReadTypes
  <2>4. Sane(c, c') BY <2>1, AreSane
  <2>5. ~c.connect_handler BY <2>2 DEF Sound, Fit, DataInv
  <2>6. PollInv(phase', c') BY <2>1, <2>2, <2>5 DEF PollInv
  <2> QED BY <2>2, <2>3, <2>4, <2>6 DEF After
<1>4. CASE SocketConnected \/ SocketWritable \/ SocketReset
  <2>1. Still(c, c') /\ phase' = "timers" /\ c.data["io"] BY <1>4, SocketStill
  <2>2. net' \in Network BY <1>4, SocketTypes
  <2>3. Sane(c, c') BY <1>4, SocketConnectedStays, SocketWritableStays, SocketResetStays, AreSane
  <2>4. c.data["logic"] BY <2>1 DEF Sound, Fit, DataInv
  <2>5. c'.abort = "none" => PollInv(phase', c') BY <2>1, <2>3, <2>4, StillPolls DEF Sane
  <2> QED BY <2>1, <2>2, <2>3, <2>5 DEF After
<1> QED BY <1>1, <1>2, <1>3, <1>4

(* ... the timers, and the phases of the loop.                              *)
LEMMA TimersAfter ==
  ASSUME c \in Memory, net \in Network, Running, Sound(c), PollInv(phase, c),
         \/ ConnectHandlerFires \/ KeepaliveOnce \/ \E t \in Tasks : TaskTimeout(t)
         \/ PollDone \/ TimersDone \/ DrainDone
  PROVE  After
<1>1. CASE ConnectHandlerFires
  <2>1. phase' = "timers" /\ net' = net BY <1>1 DEF ConnectHandlerFires
  <2>2. Stays(c, c') /\ ~c'.connect_handler BY <1>1, HandlerStays
  <2>3. PollInv(phase', c') BY <2>1, <2>2 DEF PollInv
  <2> QED BY <2>1, <2>2, <2>3, AreSane DEF After
<1>2. CASE KeepaliveOnce
  <2>1. Still(c, c') /\ phase' = "timers" /\ c.data["logic"] BY <1>2, KeepaliveStill
  <2>2. net' = net BY <1>2 DEF KeepaliveOnce, Expires
  <2>3. Sane(c, c') BY <1>2, KeepaliveQuietly, AreSane
  <2>4. c'.abort = "none" => PollInv(phase', c') BY <2>1, <2>3, StillPolls DEF Sane
  <2> QED BY <2>1, <2>2, <2>3, <2>4 DEF After
<1>3. CASE \E t \in Tasks : TaskTimeout(t)
  <2>1. PICK t \in Tasks : TaskTimeout(t) BY <1>3
  <2>2. Still(c, c') /\ phase' = "timers" /\ c.data["logic"] BY <2>1, TimeoutStill
  <2>3. net' = net BY <2>1 DEF TaskTimeout, Expires
  <2>4. Sane(c, c') BY <2>1, TimeoutDoes, AreSane
  <2>5. c'.abort = "none" => PollInv(phase', c') BY <2>2, <2>4, StillPolls DEF Sane
  <2> QED BY <2>2, <2>3, <2>4, <2>5 DEF After
<1>4. CASE PollDone
  <2>1. c' = c /\ net' = net /\ phase = "poll" /\ phase' = "timers" BY <1>4 DEF PollDone
  <2>2. c.connect_handler => Only(c.calls, Users)
    <3>1. c.connect_handler => Rest(c) BY DEF Sound, Fit, DataInv
    <3> QED BY <2>1, <3>1 DEF PollInv
  <2>3. PollInv(phase', c') BY <2>1, <2>2 DEF PollInv
  <2> QED BY <2>1, <2>3 DEF After, Sane
<1>5. CASE TimersDone
  <2>1. c' = c /\ net' = net /\ phase' = "drain" BY <1>5 DEF TimersDone
  <2> QED BY <2>1, DrainedPolls DEF After, Sane
<1>6. CASE DrainDone
  <2>1. c' = c /\ net' = net /\ phase' = "poll" /\ c.calls = <<>> BY <1>6 DEF DrainDone
  <2>2. \A S : Only(c.calls, S) BY <2>1, EmptyHas
  <2>3. PollInv(phase', c') BY <2>1, <2>2 DEF PollInv
  <2> QED BY <2>1, <2>3 DEF After, Sane
<1> QED BY <1>1, <1>2, <1>3, <1>4, <1>5, <1>6

(* The application.                                                         *)
LEMMA AppAfter ==
  ASSUME c \in Memory, net \in Network, phase \in {"poll", "timers", "drain"},
         Running, Sound(c), PollInv(phase, c), "timers" \notin AppPhases,
         \/ \E s \in Sessions : XiConnect(s)
         \/ \E t \in UserTasks : XiPublish(t)
         \/ XiShutdownConnection
  PROVE  After
<1>1. net' = net /\ phase' = phase BY DEF XiConnect, XiPublish, XiShutdownConnection
<1>2. CASE \E s \in Sessions : XiConnect(s) BY <1>1, <1>2, XiConnectStays, AreSane DEF After
<1>3. CASE \E t \in UserTasks : XiPublish(t)
  <2>1. c' \in Memory /\ Sound(c') /\ PollInv(phase', c') BY <1>3, XiPublishSound
  <2> QED BY <1>1, <2>1 DEF After, Sane
<1>4. CASE XiShutdownConnection BY <1>1, <1>4, XiShutdownStays, AreSane DEF After
<1> QED BY <1>2, <1>3, <1>4

(* The program ends when an assertion fails; the network goes on.           *)
LEMMA AbortedAfter ==
  ASSUME Types, ~Running, Next
  PROVE  c' = c /\ Types'
<1>1. \/ Server \/ ServerPublish \/ Aborted
  <2>1. ~Loop
    BY DEF Loop, UserCallback, UserConnection, UserMessage, TopPush, TopConnect, TopCloseExternally,
           DefaultPostConnect, LogicPush, LogicPull, LogicInit, LogicConnect, LogicPostConnect, LogicCloseCalled,
           LogicCloseExternally, CodecPush, CodecPull, CodecInit, CodecConnect, CodecClose,
           CodecCloseExternally, IoPush, IoInit, IoConnect, IoClose, IoCloseExternally, SocketConnected,
           SocketReadable, SocketWritable, ConnectHandlerFires, PollDone, TimersDone, DrainDone, Called, Polled
  <2>2. ~SocketReset /\ ~KeepaliveOnce /\ ~XiShutdownConnection
        /\ (\A t \in Tasks : ~TaskTimeout(t)) /\ (\A s \in Sessions : ~XiConnect(s))
        /\ \A t \in UserTasks : ~XiPublish(t)
    BY DEF SocketReset, KeepaliveOnce, TaskTimeout, XiConnect, XiPublish, XiShutdownConnection, AppTurn,
           Polled, Expires
  <2> QED BY <2>1, <2>2 DEF Next
<1>2. CASE Server BY <1>2, ServerTypes DEF Types
<1>3. CASE ServerPublish BY <1>3, PublishTypes DEF Types
<1>4. CASE Aborted BY <1>4 DEF Aborted, vars, Types
<1> QED BY <1>1, <1>2, <1>3, <1>4

(* Every step keeps the invariant.                                          *)
LEMMA NextInv ==
  ASSUME Inv, [Next]_vars, "timers" \notin AppPhases
  PROVE  Inv'
<1>1. CASE UNCHANGED vars
  BY <1>1 DEF vars, Inv, Types, Running, Rules, PollInv
<1>2. CASE Next /\ ~Running
  <2>1. c' = c /\ Types' BY <1>2, AbortedAfter DEF Inv
  <2> QED BY <1>2, <2>1 DEF Inv, Running
<1>3. CASE Next /\ Running
  <2>1. /\ c \in Memory /\ net \in Network /\ phase \in {"poll", "timers", "drain"}
        /\ Sound(c) /\ PollInv(phase, c)
    BY <1>3 DEF Inv, Types, Rules
  <2>2. CASE DrainCalls
    <3>1. Sane(c, c') /\ phase' = "drain" /\ net' = net BY <1>3, <2>1, <2>2, DrainSane
    <3>2. After BY <2>1, <3>1, DrainedPolls DEF After
    <3> QED BY <3>2 DEF After, Sane, Inv, Types, Rules, Running
  <2>3. CASE \/ Server \/ ServerPublish
    <3>1. net' \in Network /\ c' = c /\ phase' = phase BY <2>1, <2>3, ServerTypes, PublishTypes
    <3> QED BY <2>1, <3>1 DEF Inv, Types, Rules, Running
  <2>4. CASE Aborted BY <1>3, <2>4 DEF Aborted
  <2>5. CASE ~(DrainCalls \/ Server \/ ServerPublish \/ Aborted)
    <3>1. \/ IoPush \/ IoCloseExternally \/ SocketConnected \/ SocketReadable \/ SocketWritable \/ SocketReset
          \/ ConnectHandlerFires \/ KeepaliveOnce \/ (\E t \in Tasks : TaskTimeout(t))
          \/ PollDone \/ TimersDone \/ DrainDone
          \/ (\E s \in Sessions : XiConnect(s)) \/ (\E t \in UserTasks : XiPublish(t)) \/ XiShutdownConnection
      BY <1>3, <2>5 DEF Next, Loop, DrainCalls
    <3>2. After BY <1>3, <2>1, <3>1, SocketAfter, TimersAfter, AppAfter
    <3> QED BY <3>2 DEF After, Sane, Inv, Types, Rules, Running
  <2> QED BY <2>2, <2>3, <2>4, <2>5
<1> QED BY <1>1, <1>2, <1>3
-----------------------------------------------------------------------------
(* Nothing has happened yet.                                                *)
LEMMA InitMemory ==
  ASSUME Init
  PROVE  c \in Memory /\ net \in Network /\ phase = "poll"
<1>1. \A T : <<>> \in Seq(T) OBVIOUS
<1>2. \A t \in Tasks : [cs |-> "none", timeout |-> FALSE, session |-> "UNSET", id |-> 0] \in TaskTypes
  <2>1. 0 \in 0 .. (IdMod - 1) BY TaskAssumption
  <2> QED BY <2>1 DEF TaskTypes, Coroutine
<1> DEFINE r == [cs |-> "none", timeout |-> FALSE, session |-> "UNSET", id |-> 0]
           T0 == [t \in Tasks |-> r]
           L0 == [l \in Layers |-> "NONE"]
           D0 == [l \in Layers |-> FALSE]
           O0 == [t \in Tasks |-> <<>>]
<1>3. T0 \in [Tasks -> TaskTypes] BY <1>2
<1>4. L0 \in [Layers -> LayerStates]
  <2>1. "NONE" \in LayerStates BY DEF LayerStates
  <2> QED BY <2>1
<1>5. D0 \in [Layers -> BOOLEAN] OBVIOUS
<1>6. O0 \in [Tasks -> Seq({"OK", "ERR"})] BY <1>1
<1>7. 0 \in 0 .. (IdMod - 1) BY TaskAssumption
<1>8. c = [calls |-> <<>>, layer |-> L0, data |-> D0, conn |-> "UNINITIALIZED", session |-> "CLEAN",
           connect_handler |-> FALSE, shutdown_started |-> FALSE, task |-> T0,
           current |-> None, q0 |-> <<>>, q12 |-> <<>>, last_msg_id |-> 0,
           keepalive_event |-> FALSE, saved |-> <<>>, saved_id |-> 0,
           recv |-> <<>>, handlers |-> <<>>, saved_handlers |-> <<>>,
           queue |-> <<>>, io |-> "idle", outcome |-> O0, received |-> <<>>, told |-> FALSE,
           abort |-> "none"]
  BY DEF Init
<1> HIDE DEF T0, L0, D0, O0
<1>9. c \in Memory
  <2>1. c.conn \in ConnectionStates BY <1>8 DEF ConnectionStates
  <2> QED BY ONLY <1>1, <1>3, <1>4, <1>5, <1>6, <1>7, <1>8 DEF Memory, ConnectionStates
<1>10. net \in Network
  <2>1. NoNet \in [up : BOOLEAN, open : BOOLEAN, out : Seq(OutMessages), back : Seq(Messages)]
    <3>1. <<>> \in Seq(OutMessages) /\ <<>> \in Seq(Messages) BY <1>1
    <3> QED BY <3>1 DEF NoNet
  <2>2. NewSession \in [subscribed : BOOLEAN, clean : BOOLEAN, sent : Seq(Incoming), unacked : Seq(InMessages)]
    <3>1. <<>> \in Seq(Incoming) /\ <<>> \in Seq(InMessages) BY <1>1
    <3> QED BY <3>1 DEF NewSession
  <2>3. net = [link |-> NoNet, delivered |-> {}, server |-> NewSession, acked |-> {}, due |-> {}]
    BY DEF Init
  <2> HIDE DEF NoNet, NewSession
  <2> QED BY <2>1, <2>2, <2>3 DEF Network
<1> QED BY <1>9, <1>10 DEF Init

(* The fields of the client's memory in the beginning.                      *)
LEMMA InitFields ==
  ASSUME Init
  PROVE  /\ c.calls = <<>> /\ c.conn = "UNINITIALIZED" /\ ~c.connect_handler /\ c.session = "CLEAN"
         /\ c.current = None /\ c.q0 = <<>> /\ c.q12 = <<>> /\ c.saved = <<>> /\ c.recv = <<>> /\ c.queue = <<>>
         /\ ~c.keepalive_event /\ c.io = "idle" /\ c.abort = "none"
         /\ \A l \in Layers : ~c.data[l]
         /\ \A t \in Tasks : /\ c.task[t].cs = "none" /\ ~c.task[t].timeout
                             /\ c.task[t].session = "UNSET" /\ c.outcome[t] = <<>>
         /\ net.link = NoNet /\ net.delivered = {}
BY DEF Init

(* The invariant holds in the beginning.                                    *)
LEMMA InitInv ==
  ASSUME Init
  PROVE  Inv
<1>1. c \in Memory /\ net \in Network /\ phase = "poll" BY InitMemory
<1>2. (\A S : ~Has(c.calls, S) /\ One(c.calls, S) /\ Only(c.calls, S)) /\ \A t : ~Pending(c, t)
  BY InitFields, EmptyHas
<1>3. Queued(c) = {} BY InitFields, RangeEmpty DEF Queued
<1>4. Book(c)
  <2>1. Timers(c) BY InitFields DEF Timers
  <2>2. Lives(c) BY <1>2, <1>3 DEF Lives
  <2>3. Once(c)
    <3>1. Distinct(c.q0) BY InitFields DEF Distinct
    <3>2. c.current \notin Range(c.q0) /\ Range(c.q12) \cap Range(c.saved) = {} BY InitFields, RangeEmpty
    <3> QED BY <1>2, <3>1, <3>2 DEF Once
  <2>4. Told(c, None)
    <3>1. \A t \in UserTasks : c.outcome[t] = <<>> /\ ~Has(c.calls, CallbackOf(t)) /\ One(c.calls, CallbackOf(t))
      BY <1>2, InitFields, TaskNames
    <3>2. Len(<<>>) <= 1 OBVIOUS
    <3> QED BY <3>1, <3>2 DEF Told, Heard
  <2>5. Sessions1(c)
    <3>1. \A t \in UserTasks : c.task[t].session = "UNSET" BY InitFields, TaskNames
    <3>2. "control" \notin Range(c.saved) BY InitFields, RangeEmpty
    <3> QED BY <1>2, <1>3, <3>1, <3>2 DEF Sessions1
  <2> QED BY <2>1, <2>2, <2>3, <2>4, <2>5 DEF Book, BookBut
<1>5. Fit(c)
  <2>0. \A l \in {"io", "codec", "logic", "top"} : ~c.data[l] BY InitFields DEF Layers
  <2>1. StartInv(c) BY <1>2, InitFields DEF StartInv, Starting
  <2>2. DataInv(c) BY <2>0, InitFields DEF DataInv, Rest
  <2>3. EndInv(c) BY <1>2 DEF EndInv
  <2>4. CodecInv(c) BY <2>0 DEF CodecInv
  <2>5. InternalInv(c)
    <3>1. ConnectOnce(c) BY <1>3 DEF ConnectOnce
    <3>2. PingOnce(c) BY <1>3 DEF PingOnce
    <3>3. RestOnce(c) BY <1>2, <1>3 DEF RestOnce
    <3> QED BY <3>1, <3>2, <3>3 DEF InternalInv
  <2> QED BY <2>1, <2>2, <2>3, <2>4, <2>5 DEF Fit
<1>6. PollInv(phase, c) BY <1>2 DEF PollInv
<1> QED BY <1>1, <1>4, <1>5, <1>6 DEF Inv, Types, Rules, Sound
-----------------------------------------------------------------------------
(* The invariant of the client: everything is of its type, and until an     *)
(* assertion fails the bookkeeping of the tasks is right, a connection      *)
(* begins and ends call by call, and the loop polls a client at rest.       *)
THEOREM ClientInvariant ==
  ASSUME "timers" \notin AppPhases
  PROVE  Spec => []Inv
<1>1. Init => Inv BY InitInv
<1>2. Inv /\ [Next]_vars => Inv' BY NextInv
<1> QED BY <1>1, <1>2, PTL DEF Spec

(* The client's memory, the network and the call queue are of their types,  *)
(* and a message id always fits uint16_t.                                   *)
LEMMA InvTypes ==
  ASSUME Inv
  PROVE  TypeOK
<1>1. c \in Memory /\ net \in Network /\ phase \in {"poll", "timers", "drain"} BY DEF Inv, Types
<1>2. \A k \in 1 .. Len(c.calls) : CallOK(c.calls[k])
  <2>1. \A k \in 1 .. Len(c.calls) : c.calls[k] \in Calls BY <1>1, FieldsOf
  <2>2. \A k \in Calls : CallOK(k)
    <3> SUFFICES ASSUME NEW k \in Calls PROVE CallOK(k) OBVIOUS
    <3>1. k \in CallTypes BY DEF Calls
    <3>2. k.layer \in Layers \cup {"user"} /\ k.st \in Statuses
          /\ k.fn \in LayerFunctions \cup {"callback", "connection", "message"}
      BY <3>1 DEF CallTypes, FunctionNames
    <3>3. IF k.layer = "codec" /\ k.fn = "pull" THEN k.arg \in Seq(Messages) ELSE k.arg \in Messages
      BY DEF Calls
    <3> QED BY <3>2, <3>3 DEF CallOK
  <2> QED BY <2>1, <2>2
<1>3. \A T, U : T \subseteq U => Seq(T) \subseteq Seq(U) OBVIOUS
<1>4. OutMessages \subseteq Messages /\ AckMessages \subseteq Messages BY DEF OutMessages, AckMessages
<1>5. Seq(OutMessages) \subseteq Seq(Messages) /\ Seq(AckMessages) \subseteq Seq(Messages) BY <1>3, <1>4
<1>6. c.queue \in Seq(Messages) /\ c.recv \in Seq(Messages) BY <1>1, <1>5, FieldsOf
<1>7. net.link.out \in Seq(Messages) /\ net.link.back \in Seq(Messages) BY <1>1, <1>5, NetFields
<1>8. /\ c.layer \in [Layers -> LayerStates] /\ c.data \in [Layers -> BOOLEAN]
      /\ c.conn \in ConnectionStates /\ c.session \in {"CLEAN", "CONTINUE"}
      /\ {c.connect_handler, c.shutdown_started, c.keepalive_event} \subseteq BOOLEAN
      /\ c.current \in (Tasks \ Q12) \cup {None}
      /\ c.q0 \in Seq(Tasks \ Q12) /\ c.q12 \in Seq(Q12) /\ c.saved \in Seq(Q12)
      /\ {c.handlers, c.saved_handlers} \subseteq Seq(SubTasks)
      /\ c.received \in Seq(Incoming) /\ c.told \in BOOLEAN
      /\ {c.last_msg_id, c.saved_id} \subseteq 0..(IdMod - 1)
      /\ c.io \in {"idle", "connecting", "blocked"}
      /\ c.outcome \in [Tasks -> Seq({"OK", "ERR"})]
  BY <1>1, FieldsOf
<1>9. c.task \in [Tasks -> [cs : Coroutine, timeout : BOOLEAN,
                            session : {"UNSET", "STORE", "DO_NOT_STORE"}, id : 0..(IdMod - 1)]]
  BY <1>1, FieldsOf DEF TaskTypes
<1>10. {net.link.up, net.link.open} \subseteq BOOLEAN /\ net.delivered \subseteq Tasks
  BY <1>1, NetFields
<1> QED BY <1>1, <1>2, <1>6, <1>7, <1>8, <1>9, <1>10 DEF TypeOK

(* No queue holds a freed task.                                             *)
LEMMA InvQueues ==
  ASSUME Inv
  PROVE  QueuesHoldLiveTasks
<1> SUFFICES ASSUME Running, NEW t \in Range(c.q0 \o c.q12 \o c.saved \o <<c.current>>) \ {None}
             PROVE  c.task[t].cs \notin {"none", "freed"}
  BY DEF QueuesHoldLiveTasks
<1>1. c \in Memory /\ Lives(c) BY DEF Inv, Types, Rules, Sound, Book, BookBut
<1> DEFINE T == Tasks \cup {None}
<1>2. c.q0 \in Seq(T) /\ c.q12 \in Seq(T) /\ c.saved \in Seq(T) /\ <<c.current>> \in Seq(T)
  <2>1. \A S : S \subseteq T => Seq(S) \subseteq Seq(T) OBVIOUS
  <2>2. Tasks \ Q12 \subseteq T /\ Q12 \subseteq T BY TaskNames
  <2>3. c.current \in T BY <1>1, FieldsOf
  <2> HIDE DEF T
  <2>4. <<c.current>> \in Seq(T) BY <2>3
  <2> QED BY <1>1, <2>1, <2>2, <2>4, FieldsOf
<1> HIDE DEF T
<1>3. Range(c.q0 \o c.q12 \o c.saved \o <<c.current>>) =
        Range(c.q0) \cup Range(c.q12) \cup Range(c.saved) \cup Range(<<c.current>>)
  <2> DEFINE p == c.q0 \o c.q12
             r == p \o c.saved
  <2>1. p \in Seq(T) BY <1>2
  <2>2. Range(p) = Range(c.q0) \cup Range(c.q12) BY <1>2, RangeConcat
  <2> HIDE DEF p
  <2>3. r \in Seq(T) BY <1>2, <2>1
  <2>4. Range(r) = Range(p) \cup Range(c.saved) BY <1>2, <2>1, RangeConcat
  <2> HIDE DEF r
  <2> DEFINE o == <<c.current>>
  <2>5. Range(r \o o) = Range(r) \cup Range(o)
    <3>1. o \in Seq(T) BY <1>2
    <3> HIDE DEF o
    <3> QED BY <2>3, <3>1, RangeConcat
  <2> QED BY <2>2, <2>4, <2>5 DEF p, r, o
<1>4. Range(<<c.current>>) = {c.current}
  <2>1. Range(<<c.current>>) = {<<c.current>>[i] : i \in 1 .. Len(<<c.current>>)} BY <1>2, RangeIs
  <2> QED BY <2>1
<1>5. t \in Queued(c) BY <1>3, <1>4 DEF Queued
<1>6. t \in Tasks
  <2>1. Range(c.q0) \subseteq T /\ Range(c.q12) \subseteq T /\ Range(c.saved) \subseteq T BY <1>2, RangeIs
  <2>2. c.current \in T
    <3>1. c.current \in (Tasks \ Q12) \cup {None} BY <1>1, FieldsOf
    <3> QED BY <3>1 DEF T
  <2>3. t \in T /\ t # None BY <1>3, <1>4, <2>1, <2>2
  <2> QED BY <2>3 DEF T
<1> QED BY <1>1, <1>5, <1>6 DEF Lives

(* A closed connection left nothing behind.                                 *)
LEMMA InvClosed ==
  ASSUME Inv
  PROVE  ClosedMeansReset
<1> SUFFICES ASSUME Running, Idle, c.conn \in {"CLOSED", "OPEN_FAILED"}
             PROVE  /\ \A l \in Layers : ~c.data[l]
                    /\ c.current = None /\ c.q0 = <<>> /\ c.q12 = <<>> /\ c.queue = <<>> /\ c.recv = <<>>
                    /\ ~c.keepalive_event /\ \A t \in Tasks : ~c.task[t].timeout
  BY DEF ClosedMeansReset
<1>1. c \in Memory /\ Sound(c) BY DEF Inv, Types, Rules
<1>2. ~c.data["logic"] BY <1>1 DEF Sound, Fit, DataInv, Rest
<1>3. ~c.data["top"]
  <2>1. ~Has(c.calls, LogicInits) BY EmptyHas DEF Idle
  <2> QED BY <1>1, <2>1 DEF Sound, Fit, DataInv
<1>4. /\ c.current = None /\ c.q0 = <<>> /\ c.q12 = <<>> /\ c.recv = <<>>
      /\ ~c.keepalive_event /\ ~c.data["codec"] /\ ~c.data["io"] /\ c.queue = <<>>
      /\ \A t \in Tasks : ~c.task[t].timeout
  BY <1>1, <1>2, NoneHeld
<1> QED BY <1>2, <1>3, <1>4 DEF Layers

(* Timers belong to live tasks.                                             *)
LEMMA InvTimers ==
  ASSUME Inv
  PROVE  TimersBelongToLiveTasks
BY DEF Inv, Types, Rules, Sound, Book, BookBut, Timers, At, TimersBelongToLiveTasks
-----------------------------------------------------------------------------
(* TypeOK: every field of the client's memory and of the network, and every *)
(* call on the queue, is what the code can put there; a message id is never *)
(* wider than last_msg_id.                                                  *)
THEOREM ClientTypes ==
  ASSUME "timers" \notin AppPhases
  PROVE  Spec => []TypeOK
<1>1. Inv => TypeOK BY InvTypes
<1> QED BY <1>1, ClientInvariant, PTL

(* ClosedMeansReset: between two iterations of the loop, a connection that  *)
(* is closed or could not be opened has left no data of a layer, no task,   *)
(* no message and no timer behind.                                          *)
THEOREM ClosedIsReset ==
  ASSUME "timers" \notin AppPhases
  PROVE  Spec => []ClosedMeansReset
<1>1. Inv => ClosedMeansReset BY InvClosed
<1> QED BY <1>1, ClientInvariant, PTL

(* QueuesHoldLiveTasks: neither the queues of the logic layer nor what a    *)
(* connection set aside for the next one holds a task that was freed.       *)
THEOREM QueuesLive ==
  ASSUME "timers" \notin AppPhases
  PROVE  Spec => []QueuesHoldLiveTasks
<1>1. Inv => QueuesHoldLiveTasks BY InvQueues
<1> QED BY <1>1, ClientInvariant, PTL

(* TimersBelongToLiveTasks: an armed timer belongs to a task the layer works *)
(* on, so that its handler finds it.                                        *)
THEOREM TimersLive ==
  ASSUME "timers" \notin AppPhases
  PROVE  Spec => []TimersBelongToLiveTasks
<1>1. Inv => TimersBelongToLiveTasks BY InvTimers
<1> QED BY <1>1, ClientInvariant, PTL

(* TasksInv, up to the assertions: whatever timers fire, as long as no      *)
(* assertion fails but the four that are known to, the types, the queues    *)
(* and the timers of the tasks are right.  Which assertions may fail is     *)
(* what TLC checks.                                                         *)
THEOREM TasksHold ==
  ASSUME "timers" \notin AppPhases
  PROVE  Spec => [](OtherAssertionsHold => TasksInv)
<1>1. Inv => (OtherAssertionsHold => TasksInv)
  BY InvTypes, InvQueues, InvTimers DEF TasksInv
<1> QED BY <1>1, ClientInvariant, PTL
-----------------------------------------------------------------------------
(* A step keeps the socket, and brings no message in.                       *)
Carries(a, b) == Mute(a, b) /\ b.session = a.session /\ (a.data["io"] => b.data["io"])

(* Handlers that add no answer, of the layers one after another.            *)
LEMMA WireCarries ==
  ASSUME c \in Memory, NEW b, Wire(c, b)
  PROVE  Carries(c, b)
<1>1. "data" \in DOMAIN c /\ "session" \in DOMAIN c BY DEF Memory
<1> QED BY <1>1 DEF Wire, Keeping, Going, Carries

LEMMA WireSame == \A a : Wire(a, a)
BY SameWire DEF Same

(* The calls that take the memory through operators of the task engine.     *)
LEMMA UserWire ==
  ASSUME c.calls # <<>>, UserCallback \/ UserConnection \/ UserMessage
  PROVE  Wire(c, c')
<1>1. Wire(c, Popped) BY WirePop
<1>2. CASE UserCallback
  <2> DEFINE v == IF Call.st = "OK" THEN "OK" ELSE "ERR"
             o == Append(Popped.outcome[Call.arg.task], v)
             w == Popped.told \/ (Call.arg.task \in Subs /\ Call.st = "OK")
             b == [Popped EXCEPT !.outcome[Call.arg.task] = Append(@, v), !.told = w]
  <2>1. c' = b BY <1>2 DEF UserCallback, Becomes
  <2> HIDE DEF v, w
  <2>2. Same(Popped, b) BY DEF Same
  <2> HIDE DEF b
  <2> QED BY <1>1, <2>1, <2>2, SameWire, WireTrans
<1>3. CASE UserConnection BY <1>1, <1>3 DEF UserConnection, Becomes
<1>4. CASE UserMessage
  <2> DEFINE b == [Popped EXCEPT !.received = Append(@, Call.arg.task)]
  <2>1. c' = Check(b, Range(c.handlers \o c.saved_handlers) \cap Subs # {}, "freed_subscription")
    BY <1>4 DEF UserMessage, Becomes
  <2>2. Same(Popped, b) BY DEF Same
  <2> HIDE DEF b
  <2>3. Wire(b, c') BY <2>1, WireCheck
  <2> QED BY <1>1, <2>2, <2>3, SameWire, WireTrans
<1> QED BY <1>2, <1>3, <1>4

(* The control topic layer's functions, and the walk after a connection.    *)
LEMMA TopWire ==
  ASSUME c.calls # <<>>,
         TopPush \/ TopConnect \/ \E l \in {"top", "codec", "io"} : DefaultPostConnect(l)
  PROVE  Wire(c, c')
<1>1. Wire(c, Popped) BY WirePop
<1> DEFINE p == Popped
<1> HIDE DEF p
<1>2. CASE TopPush
  <2>1. c' = OnPrev(p, "top", "push", Call.arg, Call.st) BY <1>2 DEF TopPush, Becomes, p
  <2>2. Wire(p, c') BY <2>1, WireOn
  <2> QED BY <1>1, <2>2, WireTrans DEF p
<1>3. CASE TopConnect
  <2>1. c' = TopConnectHandler(p, Call.st) BY <1>3 DEF TopConnect, Becomes, p
  <2>2. Wire(p, c') BY <2>1, WireTopConnect
  <2> QED BY <1>1, <2>2, WireTrans DEF p
<1>4. CASE \E l \in {"top", "codec", "io"} : DefaultPostConnect(l)
  <2>1. PICK l \in {"top", "codec", "io"} : DefaultPostConnect(l) BY <1>4
  <2>2. c' \in {OnPrev(p, l, "post_connect", NoMsg, Call.st), p} BY <2>1 DEF DefaultPostConnect, Becomes, p
  <2>3. Wire(p, c') BY <2>2, WireOn, WireSame
  <2> QED BY <1>1, <2>3, WireTrans DEF p
<1> QED BY <1>2, <1>3, <1>4

(* Tasks sent again, one after the other.                                   *)
LEMMA ResendingWire ==
  ASSUME NEW a \in Memory, NEW g, Resending(a, Len(a.q12), g)
  PROVE  Wire(a, g[Len(a.q12)])
<1> DEFINE n == Len(a.q12)
           S == {k \in 0 .. n : ~Wire(a, g[k])}
<1>1. a.q12 \in Seq(Q12) BY FieldsOf
<1>2. n \in Nat BY <1>1
<1>3. \A b, t : t \in Tasks => Wire(b, ResendStored(b, t)) BY WireResume, WireSame DEF ResendStored
<1>4. S = {}
  <2> SUFFICES ASSUME S # {} PROVE FALSE OBVIOUS
  <2>1. S \in SUBSET Nat BY <1>2
  <2>2. PICK k \in S : \A m \in S : k <= m
    <3> HIDE DEF S
    <3> QED BY <2>1, LeastOne
  <2>3. k \in 0 .. n /\ ~Wire(a, g[k]) OBVIOUS
  <2>4. k # 0 BY <2>3, WireSame DEF Resending
  <2>5. k - 1 \in 0 .. n /\ k \in 1 .. n BY <1>2, <2>3, <2>4
  <2>6. k - 1 \notin S BY <1>2, <2>2, <2>3
  <2>7. Wire(a, g[k - 1]) BY <2>5, <2>6
  <2>8. g[k] = ResendStored(g[k - 1], a.q12[k]) BY <2>5 DEF Resending
  <2>9. a.q12[k] \in Tasks
    <3>1. k \in 1 .. Len(a.q12) BY <2>5
    <3>2. a.q12[k] \in Q12 BY ONLY <1>1, <3>1
    <3> QED BY ONLY <3>2, TaskNames
  <2>10. Wire(g[k - 1], g[k]) BY <1>3, <2>8, <2>9
  <2> QED BY <2>3, <2>7, <2>10, WireTrans
<1>5. n \in 0 .. n BY <1>2
<1> QED BY <1>4, <1>5

(* Sending the stored tasks again.                                          *)
LEMMA ResentWire ==
  ASSUME NEW a \in Memory
  PROVE  Wire(a, Resent(a))
<1> DEFINE k == CHOOSE g : g = ResendRule(a, g)
<1>1. Len(a.q12) \in Nat
  <2>1. a.q12 \in Seq(Q12) BY FieldsOf
  <2> QED BY <2>1
<1>2. k = ResendRule(a, k) BY <1>1, ResendingExists
<1>3. Resent(a) = k[Len(a.q12)] BY DEF Resent, ResendRule
<1> HIDE DEF k
<1>4. Resending(a, Len(a.q12), k)
  <2>1. k[0] = a BY <1>1, <1>2 DEF ResendRule
  <2>2. ASSUME NEW j \in 1 .. Len(a.q12) PROVE k[j] = ResendStored(k[j - 1], a.q12[j])
    <3>1. j \in 0 .. Len(a.q12) /\ j # 0 BY <1>1
    <3> QED BY <3>1, <1>2 DEF ResendRule
  <2> QED BY <2>1, <2>2 DEF Resending
<1> QED BY <1>3, <1>4, ResendingWire

(* The logic layer's functions.                                             *)
LEMMA LogicWire ==
  ASSUME c \in Memory, Running, Sound(c), c.calls # <<>>,
         LogicPush \/ LogicPull \/ LogicConnect \/ LogicPostConnect \/ LogicCloseCalled
  PROVE  Wire(c, c')
<1>1. Wire(c, Popped) BY WirePop
<1> DEFINE p == Popped
<1>2. p \in Memory
  <2>1. c.calls # <<>> OBVIOUS
  <2>2. Popped = Pop(c) BY DEF Popped, Pop
  <2> QED BY <2>1, <2>2, PopIs DEF Popped1
<1> HIDE DEF p
<1>3. CASE LogicPush
  <2>1. Call \in Calls /\ Call.layer = "logic" /\ Call.fn = "push" BY <1>3, CalledIs DEF LogicPush
  <2>2. Call.st \in {"OK", "WRITTEN", "FAILED"} /\ (Call.st = "OK" => Call.arg.task \in Tasks)
    BY <2>1 DEF Calls
  <2>3. c' = LogicPushHandler(p, Call.arg, Call.st) BY <1>3 DEF LogicPush, Becomes, p
  <2>4. Wire(p, LogicPushHandler(p, Call.arg, Call.st)) BY <1>2, <2>2, WirePush
  <2> QED BY <1>1, <2>3, <2>4, WireTrans DEF p
<1>4. CASE LogicPull
  <2>1. c' = LogicPullHandler(p, Call.arg) BY <1>4 DEF LogicPull, Becomes, p
  <2>2. Wire(p, c') BY <1>2, <2>1, WirePull
  <2> QED BY <1>1, <2>2, WireTrans DEF p
<1>5. CASE LogicConnect
  <2> DEFINE d == MakeTask(p, "connect", "UNSET")
             m == [NoMsg EXCEPT !.task = "connect"]
  <2>1. c' \in {OnSucc(p, "logic", "connect", NoMsg, Call.st), LogicPushHandler(d, m, "OK")}
    BY <1>5 DEF LogicConnect, LogicConnectHandler, Becomes, p
  <2>2. "connect" \in Tasks BY TaskNames
  <2>3. d \in Memory
    <3>1. "UNSET" \in {"UNSET", "DO_NOT_STORE"} OBVIOUS
    <3>2. Makes(p, d, "connect", "UNSET") BY <1>2, <2>2, <3>1, MakeIs
    <3> QED BY <3>2 DEF Makes
  <2>4. Wire(p, d) BY WireMake
  <2>5. m.task = "connect" BY <2>2, NoMsgIs
  <2> HIDE DEF d, m
  <2>6. Wire(d, LogicPushHandler(d, m, "OK")) BY <2>2, <2>3, <2>5, WirePush
  <2>7. Wire(p, OnSucc(p, "logic", "connect", NoMsg, Call.st)) BY WireOn
  <2> QED BY <1>1, <2>1, <2>4, <2>6, <2>7, WireTrans DEF p
<1>6. CASE LogicPostConnect
  <2>1. c' \in {p, OnPrev(Resent(p), "logic", "post_connect", NoMsg, Call.st)}
    BY <1>6 DEF LogicPostConnect, LogicPostConnectHandler, Becomes, p
  <2>2. Wire(p, Resent(p)) BY <1>2, ResentWire
  <2> HIDE DEF Resent
  <2>3. Wire(p, c') BY <2>1, <2>2, WireOn, WireSame, WireTrans
  <2> QED BY <1>1, <2>3, WireTrans DEF p
<1>7. CASE LogicCloseCalled
  <2>1. c' = LogicClose(p, Call.st) BY <1>7 DEF LogicCloseCalled, Becomes, p
  <2> QED BY <1>1, <2>1, WireClose, WireTrans DEF p
<1> QED BY <1>3, <1>4, <1>5, <1>6, <1>7
-----------------------------------------------------------------------------
(* The handlers that change the data of their layer bring no message in     *)
(* either.                                                                  *)
Hush(a, b) == Mute(a, b) /\ Going(a, b)

(* Hush is transitive, and true of less.                                    *)
LEMMA HushTrans == \A a, b, d : Hush(a, b) /\ Hush(b, d) => Hush(a, d)
BY MuteTrans DEF Hush, Going

LEMMA WireHush == \A a, b : Wire(a, b) => Hush(a, b)
BY DEF Wire, Hush

LEMMA SameHush ==
  \A a, b : /\ DOMAIN b = DOMAIN a
            /\ "calls" \in DOMAIN a => b.calls = a.calls
            /\ "session" \in DOMAIN a => b.session = a.session
            => Hush(a, b)
BY SameMute DEF Hush, Going

(* What is hushed carries no new answer.                                    *)
LEMMA HushCarries ==
  ASSUME c \in Memory, NEW b, Hush(c, b), c.data["io"] => b.data["io"]
  PROVE  Carries(c, b)
<1>1. "session" \in DOMAIN c BY DEF Memory
<1> QED BY <1>1 DEF Hush, Going, Carries

(* The calls that are made by handing on their call.                        *)
LEMMA LowWire ==
  ASSUME c.calls # <<>>, CodecPush \/ CodecConnect \/ CodecClose \/ IoConnect \/ IoClose
  PROVE  Wire(c, c')
<1>1. Wire(c, Popped) BY WirePop
<1> DEFINE p == Popped
<1> HIDE DEF p
<1>2. CASE CodecPush
  <2>1. c' = CodecPushHandler(p, Call.arg, Call.st) BY <1>2 DEF CodecPush, Becomes, p
  <2>2. Wire(p, c') BY <2>1, WireCodecPush
  <2> QED BY <1>1, <2>2, WireTrans DEF p
<1>3. CASE CodecConnect
  <2>1. c' = OnSucc(p, "codec", "connect", NoMsg, Call.st) BY <1>3 DEF CodecConnect, Becomes, p
  <2>2. Wire(p, c') BY <2>1, WireOn
  <2> QED BY <1>1, <2>2, WireTrans DEF p
<1>4. CASE CodecClose
  <2>1. c' \in {OnPrev(p, "codec", "close", NoMsg, Call.st), OnThis(p, "codec", "close_externally", NoMsg, Call.st)}
    BY <1>4 DEF CodecClose, Becomes, p
  <2>2. Wire(p, c') BY <2>1, WireOn
  <2> QED BY <1>1, <2>2, WireTrans DEF p
<1>5. CASE IoConnect
  <2> DEFINE b == [p EXCEPT !.io = "connecting"]
  <2>1. c' \in {OnSucc(p, "io", "connect", NoMsg, Call.st), OnSucc(p, "io", "connect", NoMsg, "ERR"), b}
    BY <1>5 DEF IoConnect, p
  <2>2. Wire(p, b) BY WireIo
  <2> HIDE DEF b
  <2>3. Wire(p, c') BY <2>1, <2>2, WireOn
  <2> QED BY <1>1, <2>3, WireTrans DEF p
<1>6. CASE IoClose
  <2>1. c' = OnThis(p, "io", "close_externally", NoMsg, Call.st) BY <1>6 DEF IoClose, Becomes, p
  <2>2. Wire(p, c') BY <2>1, WireOn
  <2> QED BY <1>1, <2>2, WireTrans DEF p
<1> QED BY <1>2, <1>3, <1>4, <1>5, <1>6

(* What is called is taken from the queue.                                  *)
LEMMA PoppedIs ==
  ASSUME c \in Memory, c.calls # <<>>
  PROVE  Popped \in Memory /\ Wire(c, Popped) /\ Popped.data = c.data
<1>1. Popped = Pop(c) BY DEF Popped, Pop
<1>2. Popped1(c, Popped, Head(c.calls)) BY <1>1, PopIs
<1> QED BY <1>2, WirePop DEF Popped1, Edits, Fields

(* A layer's data is allocated or released.                                 *)
LEMMA HushData ==
  ASSUME NEW a \in Memory, NEW l \in Layers, NEW v \in BOOLEAN
  PROVE  LET b == [a EXCEPT !.data[l] = v]
         IN  /\ b \in Memory /\ Hush(a, b) /\ b.data[l] = v
             /\ \A i \in Layers \ {l} : b.data[i] = a.data[i]
<1> DEFINE b == [a EXCEPT !.data[l] = v]
<1>1. SetData(a, b, l, v) BY DataOf
<1>2. Hush(a, b) BY SameHush
<1> HIDE DEF b
<1>3. b \in Memory /\ Hush(a, b) /\ b.data[l] = v /\ \A i \in Layers \ {l} : b.data[i] = a.data[i]
  BY <1>1, <1>2 DEF SetData
<1> QED BY <1>3 DEF b

(* A layer that calls after its data changed.                               *)
LEMMA DataCarries ==
  ASSUME c \in Memory, NEW a \in Memory, Wire(c, a), NEW l \in Layers, NEW v \in BOOLEAN, l = "io" => v,
         NEW d, d = [a EXCEPT !.data[l] = v], Wire(d, c')
  PROVE  Carries(c, c')
<1>1. d \in Memory /\ Hush(a, d) /\ d.data[l] = v /\ \A i \in Layers \ {l} : d.data[i] = a.data[i]
  BY HushData
<1>2. Hush(c, c') BY <1>1, WireHush, HushTrans
<1>3. "data" \in DOMAIN d /\ "data" \in DOMAIN c BY <1>1 DEF Memory
<1>4. c'.data = d.data /\ a.data = c.data BY <1>3 DEF Wire, Keeping
<1>5. "io" \in Layers BY DEF Layers
<1>6. c.data["io"] => c'.data["io"]
  <2>1. CASE l = "io" BY <1>1, <1>4, <2>1
  <2>2. CASE l # "io" BY <1>1, <1>4, <1>5, <2>2
  <2> QED BY <2>1, <2>2
<1> QED BY <1>2, <1>6, HushCarries

(* The functions that begin a connection and end it.                        *)
LEMMA InitCarries ==
  ASSUME c \in Memory, c.calls # <<>>, CodecInit \/ IoInit
  PROVE  Carries(c, c')
<1>1. Popped \in Memory /\ Wire(c, Popped) /\ Popped.data = c.data BY PoppedIs
<1> DEFINE p == Popped
<1> HIDE DEF p
<1>2. CASE CodecInit
  <2> DEFINE a == Check(p, ~c.data["codec"], "codec_init")
             d == [a EXCEPT !.data["codec"] = TRUE]
  <2>1. c' = OnPrev(d, "codec", "init", NoMsg, "OK") BY <1>2 DEF CodecInit, Becomes, p
  <2>2. a \in Memory
    <3>1. "codec_init" \in Asserts BY AssertNames
    <3> DEFINE h == ~c.data["codec"]
    <3> HIDE DEF h
    <3>2. Check(p, h, "codec_init") \in Memory BY <1>1, <3>1, CheckIs DEF p
    <3> QED BY <3>2 DEF h
  <2>3. Wire(c, a) BY <1>1, WireCheck, WireTrans DEF p
  <2> HIDE DEF a
  <2>4. "codec" \in Layers /\ TRUE \in BOOLEAN BY DEF Layers
  <2>5. Wire(d, c') BY <2>1, WireOn
  <2> QED BY <2>2, <2>3, <2>4, <2>5, DataCarries
<1>3. CASE IoInit
  <2> DEFINE d == [p EXCEPT !.data["io"] = TRUE]
  <2>1. \/ c' \in {p, OnThis(p, "io", "connect", NoMsg, "ERR")}
        \/ c' = OnThis(d, "io", "connect", NoMsg, "OK")
    BY <1>3 DEF IoInit, p
  <2>2. CASE c' \in {p, OnThis(p, "io", "connect", NoMsg, "ERR")}
    <3>1. Wire(p, c') BY <2>2, WireOn, WireSame
    <3> QED BY <1>1, <3>1, WireTrans, WireCarries DEF p
  <2>3. CASE c' = OnThis(d, "io", "connect", NoMsg, "OK")
    <3>1. "io" \in Layers /\ TRUE \in BOOLEAN BY DEF Layers
    <3>2. Wire(d, c') BY <2>3, WireOn
    <3>3. p \in Memory /\ Wire(c, p) BY <1>1 DEF p
    <3> QED BY <3>1, <3>2, <3>3, DataCarries
  <2> QED BY <2>1, <2>2, <2>3
<1> QED BY <1>2, <1>3

LEMMA TopCloseCarries ==
  ASSUME c \in Memory, c.calls # <<>>, TopCloseExternally
  PROVE  Carries(c, c')
<1>1. Popped \in Memory /\ Wire(c, Popped) /\ Popped.data = c.data BY PoppedIs
<1> DEFINE p == Popped
           h == IF ControlTopic THEN Kept(p.saved_handlers, SubTasks \ TakenForControl) ELSE p.saved_handlers
           e == [p EXCEPT !.saved_handlers = h]
           v == IF e.conn = "OPENING" THEN "OPEN_FAILED" ELSE "CLOSED"
           a == [e EXCEPT !.conn = v]
           d == [a EXCEPT !.data["top"] = FALSE]
<1>2. c' = ConnectionStateChanged(d, Call.st)
  BY DEF TopCloseExternally, TopCloseExternallyHandler, Becomes
<1> HIDE DEF p
<1>7. h \in Seq(SubTasks) BY <1>1, FieldsOf, KeptRange DEF p
<1> HIDE DEF h
<1>8. e \in Memory /\ Wire(p, e)
  <2>1. Edits(p, e, {"saved_handlers"}) BY <1>1, <1>7, EditHandlers DEF p
  <2>2. Wire(p, e) BY SameWire DEF Same
  <2> QED BY <2>1, <2>2 DEF Edits
<1> HIDE DEF e
<1>3. a \in Memory
  <2>1. v \in ConnectionStates BY DEF ConnectionStates
  <2> HIDE DEF v
  <2>2. Edits(e, a, {"conn"}) BY <1>8, <2>1, EditConn
  <2> QED BY <2>2 DEF Edits
<1> HIDE DEF v
<1>4. Wire(c, a)
  <2>1. Wire(e, a) BY SameWire DEF Same
  <2> QED BY <1>1, <1>8, <2>1, WireTrans DEF p
<1> HIDE DEF a
<1>5. "top" \in Layers /\ FALSE \in BOOLEAN BY DEF Layers
<1>6. Wire(d, c') BY <1>2, WireReport
<1> QED BY <1>3, <1>4, <1>5, <1>6, DataCarries

LEMMA HandlerCarries ==
  ASSUME c \in Memory, ConnectHandlerFires
  PROVE  Carries(c, c')
<1> DEFINE a == [c EXCEPT !.connect_handler = FALSE]
           v == a.data["top"] \/ ControlTopic
           d == [a EXCEPT !.data["top"] = v]
<1>1. c' = OnPrev(d, "top", "init", NoMsg, "OK") BY DEF ConnectHandlerFires, TopInitHandler
<1>2. a \in Memory
  <2>1. Edits(c, a, {"connect_handler"}) BY EditHandler
  <2> QED BY <2>1 DEF Edits
<1>3. Wire(c, a) BY SameWire DEF Same
<1>4. "top" \in Layers BY DEF Layers
<1>5. v \in BOOLEAN BY ZenonT(20)
<1> HIDE DEF v, a
<1>6. Wire(d, c') BY <1>1, WireOn
<1> QED BY <1>2, <1>3, <1>4, <1>5, <1>6, DataCarries
-----------------------------------------------------------------------------
(* A connection begins: what is set aside is taken up again, or freed.      *)
LEMMA HushAll ==
  \A a, q : /\ Hush(a, FreeTasks(a, q)) /\ Hush(a, DisableTimeouts(a)) /\ Hush(a, SaveSession(a))
            /\ \A b : Loads(a, b) \/ Takes1(a, b) \/ Releases(a, b) => Hush(a, b)
<1> SUFFICES ASSUME NEW a, NEW q
             PROVE  /\ Hush(a, FreeTasks(a, q)) /\ Hush(a, DisableTimeouts(a)) /\ Hush(a, SaveSession(a))
                    /\ \A b : Loads(a, b) \/ Takes1(a, b) \/ Releases(a, b) => Hush(a, b)
  OBVIOUS
<1>1. Hush(a, FreeTasks(a, q))
  <2> DEFINE b == Check(a, \A t \in Range(q) : ~a.task[t].timeout, "freed_with_timer")
             v == [t \in Tasks |-> IF t \in Range(q) THEN [b.task[t] EXCEPT !.cs = "freed"] ELSE b.task[t]]
             d == [b EXCEPT !.task = v]
  <2>1. FreeTasks(a, q) = d BY DEF FreeTasks
  <2>2. Hush(a, b)
    <3> DEFINE h == \A t \in Range(q) : ~a.task[t].timeout
    <3> HIDE DEF h
    <3>1. Wire(a, Check(a, h, "freed_with_timer")) BY WireCheck
    <3> QED BY <3>1, WireHush DEF h
  <2> HIDE DEF b, v
  <2>3. Hush(b, d) BY SameHush
  <2> QED BY <2>1, <2>2, <2>3, HushTrans
<1>2. Hush(a, DisableTimeouts(a))
  <2> DEFINE v == [t \in Tasks |-> IF t \in Range(a.q12) THEN [a.task[t] EXCEPT !.timeout = FALSE]
                                                        ELSE a.task[t]]
             d == [a EXCEPT !.task = v]
  <2>1. DisableTimeouts(a) = d BY DEF DisableTimeouts
  <2> HIDE DEF v
  <2>2. Hush(a, d) BY SameHush
  <2> QED BY <2>1, <2>2
<1>3. Hush(a, SaveSession(a))
  <2> DEFINE h == a.handlers = <<>> \/ a.saved_handlers = <<>>
             b == Check(a, h, "saved_handlers")
             s == Kept(a.q12, {t \in Q12 : Stored(a, t)})
             n == Kept(a.q12, {t \in Q12 : ~Stored(a, t)})
             g == IF a.handlers = <<>> THEN b.saved_handlers ELSE a.handlers
             d == [b EXCEPT !.saved = s, !.saved_id = a.last_msg_id, !.saved_handlers = g, !.q12 = n]
  <2>1. SaveSession(a) \in {a, d} BY DEF SaveSession
  <2>2. Hush(a, a) BY SameHush
  <2> HIDE DEF h, s, n, g
  <2>3. Hush(a, b) BY WireCheck, WireHush
  <2> HIDE DEF b
  <2>4. Hush(b, d) BY SameHush
  <2> HIDE DEF d
  <2> QED BY <2>1, <2>2, <2>3, <2>4, HushTrans
<1>4. ASSUME NEW b, Loads(a, b) PROVE Hush(a, b)
  BY <1>4, SameHush DEF Loads
<1>5. ASSUME NEW b, Takes1(a, b) PROVE Hush(a, b)
  <2> DEFINE v == [a.data EXCEPT !["logic"] = TRUE]
             d == [a EXCEPT !.saved = <<>>, !.saved_handlers = <<>>, !.data = v, !.conn = "OPENING"]
  <2>1. b = d BY <1>5 DEF Takes1
  <2> HIDE DEF v
  <2>2. Hush(a, d) BY SameHush
  <2> QED BY <2>1, <2>2
<1>6. ASSUME NEW b, Releases(a, b) PROVE Hush(a, b)
  <2> DEFINE v == [a.data EXCEPT !["logic"] = FALSE]
             d == [a EXCEPT !.keepalive_event = FALSE, !.data = v, !.q12 = <<>>, !.q0 = <<>>, !.recv = <<>>,
                            !.handlers = <<>>, !.last_msg_id = 0]
  <2>1. b = d BY <1>6 DEF Releases
  <2> HIDE DEF v
  <2>2. Hush(a, d) BY SameHush
  <2> QED BY <2>1, <2>2
<1> QED BY <1>1, <1>2, <1>3, <1>4, <1>5, <1>6

(* xi_mqtt_logic_layer_init.                                                *)
LEMMA LogicInitCarries ==
  ASSUME c \in Memory, Running, Sound(c), LogicInit
  PROVE  Carries(c, c')
<1> DEFINE a == Popped
           b == IF a.session = "CONTINUE"
                THEN [a EXCEPT !.q12 = a.saved, !.last_msg_id = a.saved_id, !.saved_id = 0,
                               !.handlers = a.saved_handlers]
                ELSE FreeTasks(a, a.saved)
           e == [b EXCEPT !.saved = <<>>, !.saved_handlers = <<>>, !.data["logic"] = TRUE, !.conn = "OPENING"]
<1>1. c' = OnPrev(e, "logic", "init", NoMsg, "OK") BY DEF LogicInit, LogicInitHandler, Becomes
<1>2. c.calls # <<>> BY DEF LogicInit, Called
<1>3. Wire(c, a) BY <1>2, WirePop
<1>4. Hush(a, b)
  <2>1. CASE a.session = "CONTINUE"
    <3>1. Loads(a, b) BY <2>1 DEF Loads
    <3> QED BY <3>1, HushAll
  <2>2. CASE a.session # "CONTINUE"
    <3>1. b = FreeTasks(a, a.saved) BY <2>2
    <3> QED BY <3>1, HushAll
  <2> QED BY <2>1, <2>2
<1> HIDE DEF a, b
<1>5. Takes1(b, e) BY DEF Takes1
<1> HIDE DEF e
<1>6. Hush(b, e) BY <1>5, HushAll
<1>7. Wire(e, c') BY <1>1, WireOn
<1>8. Hush(c, c') BY <1>3, <1>4, <1>6, <1>7, WireHush, HushTrans
<1>9. ~c.data["io"] BY LogicInitBegins
<1> QED BY <1>8, <1>9, HushCarries

(* A connection ends: the layer gives everything up.                        *)
LEMMA StopHush ==
  ASSUME NEW a \in Memory
  PROVE  Hush(a, StopCurrentTask(a))
<1> DEFINE b == Resume(a, a.current, "TIMEOUT", NoMsg)
           f == FreeTask(b, b.current)
           d == [f EXCEPT !.current = None]
<1>1. StopCurrentTask(a) = IF a.current = None THEN a ELSE IF b.current = None THEN b ELSE d
  BY DEF StopCurrentTask
<1>2. CASE a.current = None
  <2>1. Hush(a, a) BY SameHush
  <2> QED BY <1>1, <1>2, <2>1
<1>3. CASE a.current # None
  <2>1. a.current \in Tasks BY <1>3, FieldsOf
  <2>2. Wire(a, b) BY <2>1, WireResume
  <2> HIDE DEF b
  <2>3. Wire(b, f) BY WireFree
  <2> HIDE DEF f
  <2>4. Wire(f, d) BY WireTask
  <2> HIDE DEF d
  <2>5. Wire(a, StopCurrentTask(a)) BY <1>1, <1>3, <2>2, <2>3, <2>4, WireTrans
  <2> QED BY <2>5, WireHush
<1> QED BY <1>2, <1>3

(* xi_mqtt_logic_layer_close_externally.                                    *)
LEMMA LogicCloseCarries ==
  ASSUME c \in Memory, Running, Sound(c), LogicCloseExternally
  PROVE  Carries(c, c')
<1> DEFINE a == Popped
           st == Call.st
           g == DisableTimeouts(a)
           h == SaveSession(g)
           b == StopCurrentTask(h)
           f == FreeTasks(b, b.q12 \o b.q0)
           d == [f EXCEPT !.keepalive_event = FALSE, !.data["logic"] = FALSE,
                          !.q12 = <<>>, !.q0 = <<>>, !.recv = <<>>, !.handlers = <<>>,
                          !.last_msg_id = 0]
           i == OnThis(a, "logic", "connect", NoMsg, st)
           j == OnSucc(a, "logic", "close_externally", NoMsg, st)
           k == OnSucc(d, "logic", "close_externally", NoMsg, st)
<1>1. /\ Called("logic", "close_externally")
      /\ c' = IF st # "OK" /\ a.layer["logic"] = "CONNECTING" THEN i
              ELSE IF a.data["logic"] THEN k ELSE j
  BY DEF LogicCloseExternally, Becomes, LogicCloseExternallyHandler
<1>2. /\ a \in Memory /\ Call.layer = "logic" /\ Call.fn = "close_externally"
      /\ Call \in Calls /\ c.abort = "none" /\ a.abort = "none"
  BY <1>1, CalledIs
<1>3. Call \notin Inits /\ Call \notin Users BY <1>2, KindOf
<1>4. Stays(c, a) /\ Sound(a) /\ ~Starting(a) BY <1>1, <1>3, CalledStays
<1>5. Wire(c, a)
  <2>1. c.calls # <<>> BY <1>1 DEF Called
  <2> QED BY <2>1, WirePop
<1>6. ~c.data["io"] BY LogicCloseEnds
<1> HIDE DEF a, st
<1>7. Wire(a, i) /\ Wire(a, j) BY WireOn
<1>8. CASE c' \in {i, j}
  <2> HIDE DEF i, j
  <2>1. Wire(c, c') BY <1>5, <1>7, <1>8, WireTrans
  <2> QED BY <2>1, WireCarries
<1>9. CASE c' = k /\ a.data["logic"]
  <2>1. /\ Stays(a, g) /\ g \in Memory /\ Edits(a, g, {"task"}) /\ ~Starting(g) /\ Sound(g)
        /\ \A t \in Range(a.q12) : ~g.task[t].timeout
    BY ONLY <1>2, <1>4, <1>9, DisabledStays DEF g
  <2>2. g.abort = "none" /\ g.data["logic"] /\ g.q12 = a.q12 BY <1>2, <1>9, <2>1 DEF Edits, Fields
  <2>3. Hush(a, g) BY HushAll
  <2> HIDE DEF g
  <2>4. \A t \in Range(g.q12) : ~g.task[t].timeout BY <2>1, <2>2
  <2>5. h \in Memory
    <3>1. Stays(g, h) BY ONLY <2>1, <2>2, <2>4, SavedStays DEF h
    <3> QED BY <3>1 DEF Stays
  <2>6. Hush(g, h) BY HushAll
  <2> HIDE DEF h
  <2>7. Hush(h, b) BY <2>5, StopHush
  <2> HIDE DEF b
  <2>8. Hush(b, f) BY HushAll
  <2> HIDE DEF f
  <2>9. Releases(f, d) BY DEF Releases
  <2>10. Hush(f, d) BY <2>9, HushAll
  <2> HIDE DEF d
  <2>11. Wire(d, c') BY <1>9, WireOn
  <2>12. Hush(c, a) /\ Hush(d, c') BY <1>5, <2>11, WireHush
  <2>13. Hush(a, b) BY <2>3, <2>6, <2>7, HushTrans
  <2>14. Hush(b, c') BY <2>8, <2>10, <2>12, HushTrans
  <2>15. Hush(c, c') BY <2>12, <2>13, <2>14, HushTrans
  <2> QED BY <2>15, <1>6, HushCarries
<1> QED BY <1>1, <1>8, <1>9

(* The codec layer ends: what it did not send is reported as not written.   *)
LEMMA CodecCloseCarries ==
  ASSUME c \in Memory, Running, Sound(c), CodecCloseExternally
  PROVE  Carries(c, c')
<1> DEFINE p == Popped
           e == [p EXCEPT !.queue = <<>>]
           f == OnSuccEach(e, "codec", "push", p.queue, "FAILED")
           d == [f EXCEPT !.data["codec"] = FALSE]
<1>1. c' = OnSucc(d, "codec", "close_externally", NoMsg, Call.st)
  BY DEF CodecCloseExternally, ClearTaskQueue, Becomes
<1>2. p \in Memory /\ Wire(c, p)
  <2>1. c.calls # <<>> BY DEF CodecCloseExternally, Called
  <2> QED BY <2>1, PoppedIs
<1> HIDE DEF p
<1>3. p.queue \in Seq(OutMessages) /\ p.queue \in Seq(Messages)
  <2>1. p.queue \in Seq(OutMessages) BY <1>2, FieldsOf
  <2>2. OutMessages \subseteq Messages BY DEF OutMessages
  <2> QED BY ONLY <2>1, <2>2
<1>4. Edits(p, e, {"queue"}) /\ e \in Memory
  <2>1. <<>> \in Seq(OutMessages) OBVIOUS
  <2>2. Edits(p, e, {"queue"}) BY <1>2, <2>1, EditQueue
  <2> QED BY <2>2 DEF Edits
<1>5. Hush(p, e) BY SameHush
<1> HIDE DEF e
<1> DEFINE K == Each("logic", "push", p.queue, "FAILED")
<1>6. K \subseteq Calls /\ \A k \in K : k.fn = "push"
  <2> SUFFICES ASSUME NEW k \in K PROVE k \in Calls /\ k.fn = "push" OBVIOUS
  <2>1. PICK i \in 1 .. Len(p.queue) : k = [layer |-> "logic", fn |-> "push", arg |-> p.queue[i], st |-> "FAILED"]
    BY DEF Each
  <2>2. p.queue[i] \in Messages BY ONLY <1>3, i \in 1 .. Len(p.queue)
  <2> DEFINE m == p.queue[i]
  <2> HIDE DEF m
  <2>3. Harmless([layer |-> "logic", fn |-> "push", arg |-> m, st |-> "FAILED"])
    BY <2>2, MessageCalls DEF m
  <2> QED BY <2>1, <2>3 DEF Harmless, m
<1>7. Succ("codec") = "logic" BY DEF Succ
<1>8. Edits(e, f, {"calls"}) /\ Grows(e.calls, f.calls, K)
  BY ONLY <1>3, <1>4, <1>6, <1>7, EachIs DEF f, K
<1> HIDE DEF K, f
<1>9. Hush(e, f)
  <2>1. f \in Memory /\ e.calls \in Seq(Calls) /\ f.calls \in Seq(Calls) BY <1>4, <1>8, FieldsOf DEF Edits
  <2>2. HasQueue(f)
    <3>1. "calls" \in DOMAIN f BY <2>1 DEF Memory
    <3> QED BY <2>1, <3>1 DEF HasQueue
  <2>3. From(e.calls, f.calls) BY <1>6, <1>8, <2>1 DEF From, Grows
  <2>4. "session" \in DOMAIN f BY <2>1 DEF Memory
  <2>5. f.session = e.session BY <1>8 DEF Edits, Fields
  <2> QED BY <2>2, <2>3, <2>4, <2>5 DEF Hush, Mute, Going
<1>10. Hush(f, d)
  <2>1. f \in Memory BY <1>8 DEF Edits
  <2>2. "codec" \in Layers /\ FALSE \in BOOLEAN BY DEF Layers
  <2> QED BY <2>1, <2>2, HushData
<1> HIDE DEF d
<1>11. Wire(d, c') BY <1>1, WireOn
<1>12. Hush(c, c') BY <1>2, <1>5, <1>9, <1>10, <1>11, WireHush, HushTrans
<1>13. ~c.data["io"]
  <2>1. Called("codec", "close_externally") BY DEF CodecCloseExternally
  <2>2. Popped1(c, Popped, Call) /\ Call \in Calls /\ Call.layer = "codec" /\ Call.fn = "close_externally"
    BY <2>1, CalledIs
  <2>3. Call \in Gone("codec") BY <2>2, KindOf
  <2>4. Plus(c.calls, Popped.calls, Call, Gone("codec")) BY <2>2 DEF Popped1, Sums
  <2> QED BY <2>3, <2>4 DEF Plus, Sound, Fit, EndInv
<1> QED BY <1>12, <1>13, HushCarries
-----------------------------------------------------------------------------
(* What a step does to the fates of the tasks: one task got further, or     *)
(* several were given up.  got is what the server has.                      *)
Judges(a, b, got) ==
  \/ \E x : /\ \A t \in UserTasks \ {x} : Fate(b, t) = Fate(a, t)
            /\ Change(a, b, x, x \in Q1 \cup Subs => x \in got)
  \/ \A t \in UserTasks : Ended(a, b, t)
(* The messages on their way still name their tasks.                        *)
Passes(a, b) == MailIn(b) /\ (a.data["io"] => \A m : Names(a, m) => Names(b, m))

(* Keeping the messages' tasks passes them on.                              *)
LEMMA KeepsPasses ==
  ASSUME NEW a, NEW b, MailIn(a), Keeps(a, b)
  PROVE  Passes(a, b)
BY DEF MailIn, Keeps, Passes

(* Every kind of step does,                                                 *)
LEMMA ArePassing ==
  ASSUME NEW a, NEW b, b.abort = "none", MailIn(a), Less(a)
  PROVE  /\ Stays(a, b) => Passes(a, b)
         /\ \A x, may : Does(a, b, x, may) => Passes(a, b)
         /\ Ends(a, b) => Passes(a, b)
         /\ Quietly(a, b) => Passes(a, b)
         /\ \A m, fits : Answers(a, b, m, fits) => Passes(a, b)
<1>1. Keeps(a, b) => Passes(a, b) BY KeepsPasses
<1> QED BY <1>1 DEF Stays, Does, Ends, Quietly, Answers

(* and gives the verdicts Delivery allows.                                  *)
LEMMA AreJudging ==
  ASSUME NEW a, NEW b, b.abort = "none", NEW got
  PROVE  /\ Stays(a, b) => Judges(a, b, got)
         /\ \A x : Does(a, b, x, x \notin Q1 \cup Subs) => Judges(a, b, got)
         /\ Ends(a, b) => Judges(a, b, got)
         /\ Quietly(a, b) => Judges(a, b, got)
         /\ Begins(a, b) => Judges(a, b, got)
         /\ \A m, fits : fits /\ Answered(m, got) /\ Answers(a, b, m, fits) => Judges(a, b, got)
<1>1. Stays(a, b) => Judges(a, b, got) BY DEF Stays, Judges, Ended
<1>2. ASSUME NEW x, Does(a, b, x, x \notin Q1 \cup Subs) PROVE Judges(a, b, got)
  <2>1. (x \notin Q1 \cup Subs) => (x \in Q1 \cup Subs => x \in got) OBVIOUS
  <2>2. Does(a, b, x, x \in Q1 \cup Subs => x \in got) BY ONLY <1>2, <2>1, DoesMay
  <2> QED BY <2>2 DEF Does, Judges
<1>3. Ends(a, b) => Judges(a, b, got) BY DEF Ends, Judges
<1>4. Quietly(a, b) => Judges(a, b, got) BY <1>2, <1>3 DEF Quietly
<1>5. Begins(a, b) => Judges(a, b, got) BY DEF Begins, Judges
<1>6. ASSUME NEW m, NEW fits, fits, Answered(m, got), Answers(a, b, m, fits) PROVE Judges(a, b, got)
  <2>1. PICK x : Does(a, b, x, fits /\ x \in Q1 \cup Subs => x = m.task) BY <1>6 DEF Answers
  <2>2. (fits /\ x \in Q1 \cup Subs => x = m.task) => (x \in Q1 \cup Subs => x \in got) BY <1>6 DEF Answered
  <2>3. Does(a, b, x, x \in Q1 \cup Subs => x \in got) BY ONLY <2>1, <2>2, DoesMay
  <2> QED BY <2>3 DEF Does, Judges
<1> QED BY <1>1, <1>2, <1>3, <1>4, <1>5, <1>6

(* A call that brings an answer in hands on one that was there.             *)
LEMMA MuteAnswers ==
  ASSUME c \in Memory, NEW b, Mute(c, b), NEW got, AnswersIn(c.calls, got)
  PROVE  AnswersIn(b.calls, got)
<1>1. HasQueue(c)
  <2>1. c.calls \in Seq(Calls) BY FieldsOf
  <2>2. "calls" \in DOMAIN c BY DEF Memory
  <2> QED BY <2>1, <2>2 DEF HasQueue
<1>2. From(c.calls, b.calls) BY <1>1 DEF Mute
<1>3. ASSUME NEW i \in 1 .. Len(b.calls), b.calls[i].fn = "pull"
      PROVE  /\ b.calls[i].layer = "logic" => Answered(b.calls[i].arg, got)
             /\ b.calls[i].layer = "codec" =>
                  \A j \in 1 .. Len(b.calls[i].arg) : Answered(b.calls[i].arg[j], got)
  <2>1. PICK n \in 1 .. Len(c.calls) : c.calls[n] = b.calls[i] BY <1>2, <1>3 DEF From
  <2> QED BY <2>1, <1>3 DEF AnswersIn
<1> QED BY <1>3 DEF AnswersIn

(* The answers a buffer brings are handed on, one call for each.            *)
LEMMA PullAnswersIn ==
  ASSUME c \in Memory, Running, Sound(c), CodecPull, NEW got, AnswersIn(c.calls, got)
  PROVE  AnswersIn(c'.calls, got) /\ c'.data = c.data /\ c'.session = c.session
<1> DEFINE p == Popped
           ms == Call.arg
           K == Each("logic", "pull", ms, "OK")
           e == OnSuccEach(p, "codec", "pull", ms, "OK")
<1>1. c' \in {p, e} BY DEF CodecPull, CodecPullHandler, Becomes
<1>2. Called("codec", "pull") BY DEF CodecPull
<1>3. p \in Memory /\ Popped1(c, p, Call) /\ Call.layer = "codec" /\ Call.fn = "pull" /\ Call \in Calls
  BY <1>2, CalledIs
<1>4. c.calls # <<>> /\ Call = Head(c.calls) BY <1>2 DEF Called, Call
<1>5. ms \in Seq(Messages) BY <1>3 DEF Calls
<1>6. Wire(c, p) /\ p.data = c.data /\ p.session = c.session
  <2>1. p.data = c.data /\ p.session = c.session BY <1>3 DEF Popped1, Edits, Fields
  <2> QED BY <1>4, <2>1, WirePop
<1>7. AnswersIn(p.calls, got) BY <1>6, MuteAnswers DEF Wire
<1>8. \A j \in 1 .. Len(ms) : Answered(ms[j], got)
  <2>1. c.calls \in Seq(Calls) BY FieldsOf
  <2>2. 1 \in 1 .. Len(c.calls) /\ c.calls[1] = Call BY <1>4, <2>1
  <2> QED BY <2>2, <1>3 DEF AnswersIn
<1>9. CASE c' = p BY <1>6, <1>7, <1>9
<1>10. CASE c' = e
  <2> HIDE DEF p
  <2>1. K \subseteq Calls /\ \A k \in K : k.layer = "logic" /\ Answered(k.arg, got)
    <3> SUFFICES ASSUME NEW k \in K PROVE k \in Calls /\ k.layer = "logic" /\ Answered(k.arg, got) OBVIOUS
    <3>1. PICK i \in 1 .. Len(ms) : k = [layer |-> "logic", fn |-> "pull", arg |-> ms[i], st |-> "OK"]
      BY DEF Each
    <3> DEFINE m == ms[i]
    <3>2. m \in Messages BY ONLY <1>5, i \in 1 .. Len(ms)
    <3>3. Answered(m, got) BY <1>8
    <3> HIDE DEF m, ms
    <3>4. Harmless([layer |-> "logic", fn |-> "pull", arg |-> m, st |-> "OK"]) BY <3>2, MessageCalls
    <3> QED BY <3>1, <3>3, <3>4 DEF Harmless, m
  <2>2. Succ("codec") = "logic" BY DEF Succ
  <2>3. Edits(p, e, {"calls"}) /\ Grows(p.calls, e.calls, K)
    BY ONLY <1>3, <1>5, <2>1, <2>2, EachIs DEF e, K
  <2> HIDE DEF K, e
  <2>4. e.data = p.data /\ e.session = p.session BY <2>3 DEF Edits, Fields
  <2>5. p.calls \in Seq(Calls) BY <1>3, FieldsOf
  <2>6. AnswersIn(e.calls, got)
    <3> SUFFICES ASSUME NEW i \in 1 .. Len(e.calls)
                 PROVE  LET k == e.calls[i]
                        IN  /\ k.layer = "logic" /\ k.fn = "pull" => Answered(k.arg, got)
                            /\ k.layer = "codec" /\ k.fn = "pull" => \A j \in 1 .. Len(k.arg) : Answered(k.arg[j], got)
      BY DEF AnswersIn
    <3>1. e.calls[i] \in K \/ \E n \in 1 .. Len(p.calls) : p.calls[n] = e.calls[i]
      BY <2>3, <2>5 DEF Grows
    <3>2. CASE e.calls[i] \in K BY <2>1, <3>2
    <3>3. CASE \E n \in 1 .. Len(p.calls) : p.calls[n] = e.calls[i] BY <1>7, <3>3 DEF AnswersIn
    <3> QED BY <3>1, <3>2, <3>3
  <2> QED BY <1>6, <1>10, <2>4, <2>6
<1> QED BY <1>1, <1>9, <1>10
-----------------------------------------------------------------------------
(* What a step of the client is, for the tasks and the messages; got is what *)
(* the server has.                                                          *)
Brings(b, got) ==
  /\ Passes(c, b) /\ b.session = c.session /\ (c.data["io"] => b.data["io"])
  /\ AnswersIn(b.calls, got) /\ Judges(c, b, got)

(* What a step brings, from its parts.                                      *)
LEMMA CarriesBrings ==
  ASSUME c \in Memory, NEW b, Carries(c, b), NEW got, AnswersIn(c.calls, got), Passes(c, b), Judges(c, b, got)
  PROVE  Brings(b, got)
BY MuteAnswers DEF Carries, Brings

LEMMA WireBrings ==
  ASSUME c \in Memory, NEW b, Wire(c, b), NEW got, AnswersIn(c.calls, got), Passes(c, b), Judges(c, b, got)
  PROVE  Brings(b, got)
BY WireCarries, CarriesBrings

(* What is executed from the call queue.                                    *)
LEMMA DrainBrings ==
  ASSUME c \in Memory, Running, Sound(c), DrainCalls, c'.abort = "none", MailIn(c), Less(c),
         NEW got, AnswersIn(c.calls, got)
  PROVE  Brings(c', got)
<1> USE ArePassing, AreJudging, WireBrings, CarriesBrings
<1>0. c.calls # <<>>
  BY DEF DrainCalls, UserCallback, UserConnection, UserMessage, TopPush, TopConnect, TopCloseExternally,
         DefaultPostConnect, LogicPush, LogicPull, LogicInit, LogicConnect, LogicPostConnect, LogicCloseCalled,
         LogicCloseExternally, CodecPush, CodecPull, CodecInit, CodecConnect, CodecClose,
         CodecCloseExternally, IoInit, IoConnect, IoClose, Called
<1>1. CASE UserCallback \/ UserConnection \/ UserMessage
  <2>1. Stays(c, c') BY <1>1, UserCallbackStays, ConnectionStays, UserMessageStays
  <2>2. Wire(c, c') BY <1>0, <1>1, UserWire
  <2> QED BY <2>1, <2>2
<1>2. CASE TopPush \/ TopConnect \/ \E l \in {"top", "codec", "io"} : DefaultPostConnect(l)
  <2>1. Stays(c, c') BY <1>2, TopPushStays, TopConnectStays, PostConnectStays
  <2>2. Wire(c, c') BY <1>0, <1>2, TopWire
  <2> QED BY <2>1, <2>2
<1>3. CASE TopCloseExternally
  <2>1. Stays(c, c') BY <1>3, TopCloseStays
  <2>2. Carries(c, c') BY <1>0, <1>3, TopCloseCarries
  <2> QED BY <2>1, <2>2
<1>4. CASE LogicPush \/ LogicConnect
  <2>1. Quietly(c, c') BY <1>4, LogicPushQuietly, LogicConnectQuietly
  <2>2. Wire(c, c') BY <1>0, <1>4, LogicWire
  <2> QED BY <2>1, <2>2
<1>5. CASE LogicPull
  <2>1. Answers(c, c', Call.arg, MailIn(c)) BY <1>5, LogicPullAnswers
  <2>2. Wire(c, c') BY <1>0, <1>5, LogicWire
  <2>3. Answered(Call.arg, got)
    <3>1. c.calls \in Seq(Calls) BY FieldsOf
    <3>2. 1 \in 1 .. Len(c.calls) /\ c.calls[1] = Call BY <1>0, <3>1 DEF Call
    <3>3. Call.layer = "logic" /\ Call.fn = "pull" BY <1>5 DEF LogicPull, Called
    <3> QED BY <3>2, <3>3 DEF AnswersIn
  <2>4. Judges(c, c', got) BY <2>1, <2>3
  <2> QED BY <2>1, <2>2, <2>4
<1>6. CASE LogicPostConnect \/ LogicCloseCalled
  <2>1. Stays(c, c') BY <1>6, LogicPostConnectStays, LogicCloseCalledStays
  <2>2. Wire(c, c') BY <1>0, <1>6, LogicWire
  <2> QED BY <2>1, <2>2
<1>7. CASE LogicInit
  <2>1. Begins(c, c') /\ ~c.data["io"] BY <1>7, LogicInitBegins
  <2>2. Carries(c, c') BY <1>7, LogicInitCarries
  <2>3. Passes(c, c') BY <2>1 DEF Begins, Passes
  <2> QED BY <2>1, <2>2, <2>3
<1>8. CASE LogicCloseExternally
  <2>1. Ends(c, c') BY <1>8, LogicCloseEnds
  <2>2. Carries(c, c') BY <1>8, LogicCloseCarries
  <2> QED BY <2>1, <2>2
<1>9. CASE CodecPush \/ CodecConnect \/ CodecClose \/ IoConnect \/ IoClose
  <2>1. Stays(c, c') BY <1>9, CodecPushStays, CodecConnectStays, CodecCloseStays, IoConnectStays, IoCloseStays
  <2>2. Wire(c, c') BY <1>0, <1>9, LowWire
  <2> QED BY <2>1, <2>2
<1>10. CASE CodecPull
  <2>1. Stays(c, c') BY <1>10, CodecPullStays
  <2>2. AnswersIn(c'.calls, got) /\ c'.data = c.data /\ c'.session = c.session BY <1>10, PullAnswersIn
  <2> QED BY <2>1, <2>2 DEF Brings
<1>11. CASE CodecInit \/ IoInit
  <2>1. Stays(c, c') BY <1>11, CodecInitStays, IoInitStays
  <2>2. Carries(c, c') BY <1>0, <1>11, InitCarries
  <2> QED BY <2>1, <2>2
<1>12. CASE CodecCloseExternally
  <2>1. Stays(c, c') BY <1>12, CodecCloseExternallyStays
  <2>2. Carries(c, c') BY <1>12, CodecCloseCarries
  <2> QED BY <2>1, <2>2
<1> QED BY <1>1, <1>2, <1>3, <1>4, <1>5, <1>6, <1>7, <1>8, <1>9, <1>10, <1>11, <1>12 DEF DrainCalls
-----------------------------------------------------------------------------
(* The messages on the connection name their tasks, the answers among them  *)
(* are to messages the server has, and without a socket there are none.     *)
Mails(n, a) ==
  /\ AllName(a, n.link.out) /\ AllName(a, n.link.back)
  /\ \A i \in 1 .. Len(n.link.back) : Answered(n.link.back[i], n.delivered)
  /\ ~a.data["io"] => n.link = NoNet
MailInv == MailIn(c) /\ AnswersIn(c.calls, net.delivered) /\ Mails(net, c)
(* A step of the client, in which the server gets nothing.                  *)
ClientStep ==
  MailInv' /\ net'.delivered = net.delivered /\ c'.session = c.session /\ Judges(c, c', net.delivered)

(* No message is on a network that is gone.                                 *)
LEMMA NoNetIs ==
  ASSUME NEW a, NEW n, n.link = NoNet
  PROVE  Mails(n, a)
<1>1. n.link.out = <<>> /\ n.link.back = <<>> BY DEF NoNet
<1> QED BY <1>1 DEF Mails, AllName

(* The connection stays as it is, ...                                       *)
LEMMA StillStep ==
  ASSUME Brings(c', net.delivered), Mails(net, c), net'.delivered = net.delivered,
         net'.link.out = net.link.out, net'.link.back = net.link.back, ~c.data["io"] => net' = net
  PROVE  ClientStep
<1>1. Mails(net', c')
  <2>1. CASE ~c.data["io"] BY <2>1, NoNetIs DEF Mails
  <2>2. CASE c.data["io"] BY <2>2 DEF Mails, Brings, Passes, AllName
  <2> QED BY <2>1, <2>2
<1> QED BY <1>1 DEF ClientStep, MailInv, Brings, Passes

(* ... takes a message, ...                                                 *)
LEMMA WriteStep ==
  ASSUME net \in Network, Brings(c', net.delivered), Mails(net, c), c.data["io"],
         NEW m \in OutMessages, Names(c, m), net' = [net EXCEPT !.link.out = Append(@, m)]
  PROVE  ClientStep
<1> DEFINE q == Append(net.link.out, m)
<1>1. net'.link = [net.link EXCEPT !.out = q] /\ net'.delivered = net.delivered BY DEF Network
<1>2. net.link.out \in Seq(OutMessages) /\ net.link \in [up : BOOLEAN, open : BOOLEAN, out : Seq(OutMessages), back : Seq(Messages)]
  BY NetFields
<1>3. \A i \in 1 .. Len(q) : q[i] = m \/ (i \in 1 .. Len(net.link.out) /\ q[i] = net.link.out[i])
  BY <1>2
<1>4. AllName(c, q)
  <2> HIDE DEF q
  <2> QED BY <1>3 DEF Mails, AllName
<1> HIDE DEF q
<1>5. net'.link.out = q /\ net'.link.back = net.link.back BY <1>1, <1>2
<1>6. Mails(net', c') BY <1>1, <1>4, <1>5 DEF Mails, Brings, Passes, AllName
<1> QED BY <1>1, <1>6 DEF ClientStep, MailInv, Brings, Passes

(* ... or gives some.                                                       *)
LEMMA ReadStep ==
  ASSUME net \in Network, Brings(c', net.delivered), Mails(net, c), c.data["io"], NEW n \in 1 .. Len(net.link.back),
         net' = [net EXCEPT !.link.back = SubSeq(net.link.back, n + 1, Len(net.link.back))]
  PROVE  ClientStep
<1> DEFINE b == net.link.back
           q == SubSeq(b, n + 1, Len(b))
<1>1. net'.link = [net.link EXCEPT !.back = q] /\ net'.delivered = net.delivered BY DEF Network
<1>2. b \in Seq(Messages) /\ net.link \in [up : BOOLEAN, open : BOOLEAN, out : Seq(OutMessages), back : Seq(Messages)]
  BY NetFields
<1>3. \A i \in 1 .. Len(q) : i + n \in 1 .. Len(b) /\ q[i] = b[i + n] BY <1>2
<1> HIDE DEF q
<1>4. AllName(c, q) /\ \A i \in 1 .. Len(q) : Answered(q[i], net.delivered) BY <1>3 DEF Mails, AllName
<1>5. net'.link.back = q /\ net'.link.out = net.link.out BY <1>1, <1>2
<1>6. Mails(net', c') BY <1>1, <1>4, <1>5 DEF Mails, Brings, Passes, AllName
<1> QED BY <1>1, <1>6 DEF ClientStep, MailInv, Brings, Passes
-----------------------------------------------------------------------------
(* The client's steps, one after another.  A step that changes no fate:     *)
Mailed == c \in Memory /\ net \in Network /\ Running /\ Sound(c) /\ MailInv /\ c'.abort = "none"

(* A step without a message.                                                *)
LEMMA StaysBrings ==
  ASSUME Mailed, Stays(c, c'), Wire(c, c')
  PROVE  Brings(c', net.delivered)
<1>1. Keeps(c, c') BY DEF Mailed, Stays
<1>2. Passes(c, c') BY <1>1, KeepsPasses DEF Mailed, MailInv
<1>3. Judges(c, c', net.delivered) BY AreJudging DEF Mailed
<1> QED BY <1>2, <1>3, WireBrings DEF Mailed, MailInv

(* A call from the queue.                                                   *)
LEMMA DrainStep ==
  ASSUME Mailed, Less(c), DrainCalls
  PROVE  ClientStep
<1>1. Brings(c', net.delivered) BY DrainBrings DEF Mailed, MailInv
<1>2. net' = net BY DrainSane DEF Mailed
<1> QED BY <1>1, <1>2, StillStep DEF Mailed, MailInv

(* xi_io_net_layer_push, of a message that names its task.                  *)
LEMMA IoWriteStep ==
  ASSUME Mailed, Brings(c', net.delivered), c.data["io"], NEW a, NEW m \in OutMessages, Names(c, m), IoWrite(a, m)
  PROVE  ClientStep
<1>1. CASE net' = net BY <1>1, StillStep DEF Mailed, MailInv
<1>2. CASE net' = [net EXCEPT !.link.out = Append(@, m)] BY <1>2, WriteStep DEF Mailed, MailInv
<1> QED BY <1>1, <1>2 DEF IoWrite

(* A call that writes to the socket.                                        *)
LEMMA IoPushStep ==
  ASSUME Mailed, IoPush
  PROVE  ClientStep
<1>0. c.calls # <<>> /\ Call.layer = "io" /\ Call.fn = "push" BY DEF IoPush, Called
<1>1. Wire(c, Popped) BY <1>0, WirePop
<1>2. CASE ~IoUsable(c) /\ c' = Popped /\ net' = net
  <2>1. Stays(c, c') BY IoPushStays DEF Mailed
  <2>2. Brings(c', net.delivered) BY <1>1, <1>2, <2>1, StaysBrings
  <2> QED BY <1>2, <2>2, StillStep DEF Mailed, MailInv
<1>3. CASE IoUsable(c) /\ IoWrite(Popped, Call.arg)
  <2>1. Stays(c, c') BY IoPushStays DEF Mailed
  <2>2. Wire(c, c')
    <3>1. Wire(Popped, c') BY <1>3, WireWrite
    <3> QED BY ONLY <1>1, <3>1, WireTrans
  <2>3. Brings(c', net.delivered) BY <2>1, <2>2, StaysBrings
  <2>4. c.calls \in Seq(Calls) BY FieldsOf DEF Mailed
  <2>5. 1 \in 1 .. Len(c.calls) /\ c.calls[1] = Call /\ Call \in Calls BY <1>0, <2>4 DEF Call
  <2>6. Call.arg \in OutMessages BY <1>0, <2>5 DEF Calls, Outward
  <2>7. Names(c, Call.arg)
    <3>1. Mail(c) BY DEF Mailed, MailInv, MailIn
    <3>2. NameCall(c, Call) BY <2>5, <3>1, MailIs
    <3> QED BY <1>0, <3>2 DEF NameCall, Outward
  <2> QED BY <1>3, <2>3, <2>6, <2>7, IoWriteStep DEF IoUsable
<1> QED BY <1>2, <1>3 DEF IoPush

(* The socket may be written again.                                         *)
LEMMA SocketWritableStep ==
  ASSUME Mailed, PollInv(phase, c), SocketWritable
  PROVE  ClientStep
<1>1. Stays(c, c') BY SocketWritableStays DEF Mailed
<1>2. Wire(c, c') /\ c.data["io"] BY SocketStill DEF Mailed
<1>3. Brings(c', net.delivered) BY <1>1, <1>2, StaysBrings
<1>4. c.queue # <<>> /\ Head(c.queue) \in OutMessages BY <1>2, Waiting DEF SocketWritable, Mailed
<1>5. Names(c, Head(c.queue))
  <2>1. c.queue \in Seq(OutMessages) BY FieldsOf DEF Mailed
  <2>2. 1 \in 1 .. Len(c.queue) /\ c.queue[1] = Head(c.queue) BY <1>4, <2>1
  <2>3. AllName(c, c.queue) BY DEF Mailed, MailInv, MailIn
  <2> QED BY <2>2, <2>3 DEF AllName
<1> QED BY <1>2, <1>3, <1>4, <1>5, IoWriteStep DEF SocketWritable

(* It is connected, or reset.                                               *)
LEMMA SocketConnectedStep ==
  ASSUME Mailed, PollInv(phase, c), SocketConnected \/ SocketReset
  PROVE  ClientStep
<1>1. Stays(c, c') BY SocketConnectedStays, SocketResetStays DEF Mailed
<1>2. Wire(c, c') /\ c.data["io"] BY SocketStill DEF Mailed
<1>3. Brings(c', net.delivered) BY <1>1, <1>2, StaysBrings
<1>4. CASE net' = net BY <1>3, <1>4, StillStep DEF Mailed, MailInv
<1>5. CASE net' = [net EXCEPT !.link.up = TRUE]
  <2>1. net'.link = [net.link EXCEPT !.up = TRUE] /\ net'.delivered = net.delivered
    BY <1>5 DEF Mailed, Network
  <2>2. net.link \in [up : BOOLEAN, open : BOOLEAN, out : Seq(OutMessages), back : Seq(Messages)]
    BY NetFields DEF Mailed
  <2>3. net'.link.out = net.link.out /\ net'.link.back = net.link.back BY <2>1, <2>2
  <2> QED BY <1>2, <1>3, <2>1, <2>3, StillStep DEF Mailed, MailInv
<1> QED BY <1>4, <1>5 DEF SocketConnected, SocketReset
(* A buffer is read; it brings answers in.                                  *)
LEMMA SocketReadableStep ==
  ASSUME Mailed, PollInv(phase, c), SocketReadable
  PROVE  ClientStep
<1>1. /\ Holds(c, c') /\ (AllName(c, net.link.back) => Keeps(c, c')) /\ c'.data = c.data
      /\ \E n \in 1 .. Len(net.link.back) :
           /\ net' = [net EXCEPT !.link.back = SubSeq(net.link.back, n + 1, Len(net.link.back))]
           /\ c'.calls = Append(c.calls, [layer |-> "codec", fn |-> "pull",
                                          arg |-> SubSeq(net.link.back, 1, n), st |-> "OK"])
  BY SocketReadableHolds DEF Mailed
<1>2. PICK n \in 1 .. Len(net.link.back) :
           /\ net' = [net EXCEPT !.link.back = SubSeq(net.link.back, n + 1, Len(net.link.back))]
           /\ c'.calls = Append(c.calls, [layer |-> "codec", fn |-> "pull",
                                          arg |-> SubSeq(net.link.back, 1, n), st |-> "OK"])
  BY <1>1
<1>3. c.data["io"] BY DEF SocketReadable, Polled, IoUsable
<1>4. AllName(c, net.link.back) /\ \A i \in 1 .. Len(net.link.back) : Answered(net.link.back[i], net.delivered)
  BY DEF Mailed, MailInv, Mails
<1>5. Passes(c, c') BY <1>1, <1>4, KeepsPasses DEF Mailed, MailInv
<1>6. Judges(c, c', net.delivered)
  <2>1. \A t \in UserTasks : Fate(c', t) = Fate(c, t) BY <1>1 DEF Holds, Mailed
  <2> QED BY <2>1 DEF Judges, Ended
<1>7. c'.session = c.session
  <2>1. "session" \in DOMAIN c BY DEF Mailed, Memory
  <2>2. \E q : c' = OnSucc(c, "io", "pull", q, "OK") BY DEF SocketReadable
  <2> QED BY <2>1, <2>2 DEF OnSucc, ContinueWith
<1>8. AnswersIn(c'.calls, net.delivered)
  <2> DEFINE q == SubSeq(net.link.back, 1, n)
             k == [layer |-> "codec", fn |-> "pull", arg |-> q, st |-> "OK"]
  <2>1. net.link.back \in Seq(Messages) /\ c.calls \in Seq(Calls) BY NetFields, FieldsOf DEF Mailed
  <2>2. \A j \in 1 .. Len(q) : j \in 1 .. Len(net.link.back) /\ q[j] = net.link.back[j] BY <2>1
  <2>3. \A j \in 1 .. Len(q) : Answered(q[j], net.delivered)
    <3> HIDE DEF q
    <3> QED BY <1>4, <2>2
  <2>4. c'.calls = Append(c.calls, k) BY <1>2
  <2> HIDE DEF k
  <2>5. \A i \in 1 .. Len(c'.calls) : c'.calls[i] = k \/ (i \in 1 .. Len(c.calls) /\ c'.calls[i] = c.calls[i])
    BY <2>1, <2>4
  <2>6. k.layer = "codec" /\ k.arg = q BY DEF k
  <2> QED BY <2>3, <2>5, <2>6 DEF AnswersIn, Mailed, MailInv
<1>9. Brings(c', net.delivered) BY <1>1, <1>5, <1>6, <1>7, <1>8 DEF Brings
<1> QED BY <1>2, <1>3, <1>9, ReadStep DEF Mailed, MailInv

(* The socket is closed: what was on its way is lost.                       *)
LEMMA IoCloseStep ==
  ASSUME Mailed, IoCloseExternally
  PROVE  ClientStep
<1>1. Stays(c, c') BY IoCloseExternallyStays DEF Mailed
<1>2. Hush(c, c')
  <2> DEFINE d == [Popped EXCEPT !.data["io"] = FALSE, !.io = "idle"]
  <2>1. c.calls # <<>> BY DEF IoCloseExternally, Called
  <2>2. Wire(c, Popped) BY <2>1, WirePop
  <2>3. Hush(c, Popped) BY ONLY <2>2, WireHush
  <2>4. DOMAIN d = DOMAIN Popped /\ ("calls" \in DOMAIN Popped => d.calls = Popped.calls)
        /\ ("session" \in DOMAIN Popped => d.session = Popped.session)
    OBVIOUS
  <2>5. c' = OnSucc(d, "io", "close_externally", NoMsg, Call.st) BY DEF IoCloseExternally
  <2> HIDE DEF d
  <2>6. Hush(Popped, d) BY ONLY <2>4, SameHush
  <2>7. Wire(d, c') BY <2>5, WireOn
  <2>8. Hush(d, c') BY ONLY <2>7, WireHush
  <2>9. Hush(c, d) BY ONLY <2>3, <2>6, HushTrans
  <2> QED BY ONLY <2>8, <2>9, HushTrans
<1>3. MailIn(c')
  <2>1. Keeps(c, c') BY <1>1 DEF Mailed, Stays
  <2> QED BY <2>1, KeepsPasses DEF Mailed, MailInv, Passes
<1>4. AnswersIn(c'.calls, net.delivered) BY <1>2, MuteAnswers DEF Hush, Mailed, MailInv
<1>5. c'.session = c.session
  <2>1. "session" \in DOMAIN c BY DEF Mailed, Memory
  <2> QED BY <1>2, <2>1 DEF Hush, Going
<1>6. Judges(c, c', net.delivered) BY <1>1, AreJudging DEF Mailed
<1>7. net'.link = NoNet /\ net'.delivered = net.delivered
  <2>1. CASE c.data["io"] BY <2>1 DEF IoCloseExternally, Mailed, Network
  <2>2. CASE ~c.data["io"] BY <2>2 DEF IoCloseExternally, Mailed, MailInv, Mails
  <2> QED BY <2>1, <2>2
<1>8. Mails(net', c') BY <1>7, NoNetIs
<1> QED BY <1>3, <1>4, <1>5, <1>6, <1>7, <1>8 DEF ClientStep, MailInv

(* The timers, and the phases of the loop.                                  *)
LEMMA TimersStep ==
  ASSUME Mailed, Less(c), PollInv(phase, c),
         \/ ConnectHandlerFires \/ KeepaliveOnce \/ \E t \in Tasks : TaskTimeout(t)
         \/ PollDone \/ TimersDone \/ DrainDone
  PROVE  ClientStep
<1>0. net' = net
  BY DEF ConnectHandlerFires, KeepaliveOnce, TaskTimeout, Expires, PollDone, TimersDone, DrainDone
<1> SUFFICES Brings(c', net.delivered) BY <1>0, StillStep DEF Mailed, MailInv
<1> USE ArePassing, AreJudging, WireBrings, CarriesBrings DEF Mailed, MailInv
<1>1. CASE ConnectHandlerFires
  <2>1. Stays(c, c') BY <1>1, HandlerStays
  <2>2. Carries(c, c') BY <1>1, HandlerCarries
  <2> QED BY <2>1, <2>2
<1>2. CASE KeepaliveOnce
  <2>1. Quietly(c, c') BY <1>2, KeepaliveQuietly
  <2>2. Wire(c, c') BY <1>2, KeepaliveStill
  <2> QED BY <2>1, <2>2
<1>3. CASE \E t \in Tasks : TaskTimeout(t)
  <2>1. PICK t \in Tasks : TaskTimeout(t) BY <1>3
  <2>2. PICK x : Does(c, c', x, x \notin Q1 \cup Subs) BY <2>1, TimeoutDoes
  <2>3. Wire(c, c') BY <2>1, TimeoutStill
  <2> QED BY <2>2, <2>3
<1>4. CASE PollDone \/ TimersDone \/ DrainDone
  <2>1. c' = c BY <1>4 DEF PollDone, TimersDone, DrainDone
  <2>2. Wire(c, c') BY <2>1, WireSame
  <2>3. Keeps(c, c') BY <2>1, KeepsSame
  <2>4. Passes(c, c') BY <2>3, KeepsPasses
  <2>5. Judges(c, c', net.delivered) BY <2>1 DEF Judges, Ended
  <2> QED BY <2>2, <2>4, <2>5
<1> QED BY <1>1, <1>2, <1>3, <1>4
-----------------------------------------------------------------------------
(* The application asks for something; nothing is sent or received.         *)
LEMMA AppMails ==
  ASSUME Mailed, Keeps(c, c'), Mute(c, c'), c'.data = c.data, net' = net
  PROVE  MailInv'
<1>1. MailIn(c') BY KeepsPasses DEF Mailed, MailInv, Passes
<1>2. \A m : Names(c, m) => Names(c', m) BY DEF Mailed, MailInv, MailIn, Keeps
<1>3. AnswersIn(c'.calls, net.delivered) BY MuteAnswers DEF Mailed, MailInv
<1>4. Mails(net, c') BY <1>2 DEF Mails, AllName, Mailed, MailInv
<1> QED BY <1>1, <1>3, <1>4 DEF MailInv
(* xi_connect: only the type of the session changes.                        *)
Reconnects(s) ==
  /\ \A t \in UserTasks : Fate(c', t) = Fate(c, t)
  /\ c'.session = s /\ net'.delivered = net.delivered

(* xi_connect, which says whether the session is continued.                 *)
LEMMA XiConnectStep ==
  ASSUME Mailed, PollInv(phase, c), "timers" \notin AppPhases, NEW s \in Sessions, XiConnect(s)
  PROVE  MailInv' /\ Reconnects(s) /\ s \in {"CLEAN", "CONTINUE"}
<1>1. Stays(c, c') /\ c'.data = c.data BY XiConnectStays DEF Mailed
<1>2. c'.session = s /\ c'.calls = c.calls /\ net' = net BY DEF XiConnect, Mailed, Memory
<1>3. Keeps(c, c') /\ \A t \in UserTasks : Fate(c', t) = Fate(c, t) BY <1>1 DEF Stays, Mailed
<1>4. Mute(c, c')
  <2>1. DOMAIN c' = DOMAIN c BY DEF XiConnect
  <2> QED BY <1>2, <2>1, SameMute
<1>5. s \in {"CLEAN", "CONTINUE"} BY ClientAssumption
<1> QED BY <1>1, <1>2, <1>3, <1>4, <1>5, AppMails DEF Reconnects
(* xi_publish and xi_subscribe: a task is accepted.                         *)
Accepts(t) ==
  /\ \A u \in UserTasks \ {t} : Fate(c', u) = Fate(c, u)
  /\ Fate(c, t) = "idle" /\ Fate(c', t) = "accepted"
  /\ c'.session = c.session /\ net'.delivered = net.delivered

(* xi_publish and xi_subscribe accept a task.                               *)
LEMMA XiPublishStep ==
  ASSUME Mailed, PollInv(phase, c), NEW t \in UserTasks, XiPublish(t)
  PROVE  MailInv' /\ Accepts(t)
<1>1. /\ Keeps(c, c') /\ c'.data = c.data
      /\ \A u \in UserTasks \ {t} : Fate(c', u) = Fate(c, u)
      /\ Fate(c, t) = "idle" /\ Fate(c', t) = "accepted"
  BY XiPublishSound DEF Mailed
<1>2. Wire(c, c')
  <2> DEFINE a == MakeTask(c, t, "UNSET")
  <2>1. Wire(c, a) BY WireMake
  <2>2. c' = OnThis(a, "top", "push", [NoMsg EXCEPT !.task = t], "OK") BY DEF XiPublish
  <2> HIDE DEF a
  <2>3. Wire(a, c') BY <2>2, WireOn
  <2> QED BY ONLY <2>1, <2>3, WireTrans
<1>3. net' = net BY DEF XiPublish
<1>4. c'.session = c.session
  <2>1. "session" \in DOMAIN c BY DEF Mailed, Memory
  <2> QED BY <1>2, <2>1 DEF Wire, Going
<1>5. MailInv' BY <1>1, <1>2, <1>3, AppMails DEF Wire
<1> QED BY <1>1, <1>3, <1>4, <1>5 DEF Accepts

(* xi_shutdown_connection: the connection task is forgotten, or a task of   *)
(* the library is made.                                                     *)
LEMMA XiShutdownStep ==
  ASSUME Mailed, PollInv(phase, c), XiShutdownConnection
  PROVE  ClientStep
<1>1. Stays(c, c') /\ c'.data = c.data BY XiShutdownStays DEF Mailed
<1>2. Wire(c, c')
  <2>1. CASE c' = [c EXCEPT !.connect_handler = FALSE]
    <3>1. Same(c, c') BY <2>1 DEF Same
    <3> QED BY <3>1, SameWire
  <2>2. CASE c' = OnThis(MakeTask([c EXCEPT !.shutdown_started = TRUE], "shutdown", "UNSET"),
                         "top", "push", [NoMsg EXCEPT !.task = "shutdown"], "OK")
    <3> DEFINE a == [c EXCEPT !.shutdown_started = TRUE]
               b == MakeTask(a, "shutdown", "UNSET")
    <3>1. Same(c, a) BY DEF Same
    <3>2. Wire(c, a) BY <3>1, SameWire
    <3> HIDE DEF a
    <3>3. Wire(a, b) BY WireMake
    <3>4. c' = OnThis(b, "top", "push", [NoMsg EXCEPT !.task = "shutdown"], "OK") BY <2>2 DEF a
    <3> HIDE DEF b
    <3>5. Wire(b, c') BY <3>4, WireOn
    <3>6. Wire(c, b) BY ONLY <3>2, <3>3, WireTrans
    <3> QED BY ONLY <3>5, <3>6, WireTrans
  <2> QED BY <2>1, <2>2 DEF XiShutdownConnection
<1>3. net' = net BY DEF XiShutdownConnection
<1>4. Brings(c', net.delivered) BY <1>1, <1>2, StaysBrings
<1> QED BY <1>3, <1>4, StillStep DEF Mailed, MailInv
-----------------------------------------------------------------------------
(* The server takes messages and sends some; got is what it has.            *)
Served(n, got) ==
  /\ n \in Network /\ n.delivered = got /\ AllName(c, n.link.out) /\ AllName(c, n.link.back)
  /\ \A i \in 1 .. Len(n.link.back) : Answered(n.link.back[i], got)

(* The server puts messages on their way,                                   *)
LEMMA ServedBack ==
  ASSUME NEW n, NEW got, Served(n, got), NEW ms \in Seq(Messages), NEW q, q = n.link.back \o ms,
         \A i \in 1 .. Len(ms) : Names(c, ms[i]) /\ Answered(ms[i], got)
  PROVE  Served([n EXCEPT !.link.back = q], got)
<1> DEFINE e == [n EXCEPT !.link.back = q]
           b == n.link.back
<1>1. n \in Network /\ b \in Seq(Messages) BY NetFields DEF Served
<1>2. n.link \in [up : BOOLEAN, open : BOOLEAN, out : Seq(OutMessages), back : Seq(Messages)]
  BY <1>1, NetFields
<1>3. e.link = [n.link EXCEPT !.back = q] /\ e.delivered = n.delivered BY <1>1 DEF Network
<1>4. e.link.out = n.link.out /\ e.link.back = q BY <1>2, <1>3
<1>5. q \in Seq(Messages) BY <1>1
<1>6. e \in Network BY <1>1, <1>5, NetLink
<1>7. \A i \in 1 .. Len(q) : \/ i \in 1 .. Len(b) /\ q[i] = b[i]
                             \/ i - Len(b) \in 1 .. Len(ms) /\ q[i] = ms[i - Len(b)]
  BY <1>1
<1> HIDE DEF e
<1>8. \A i \in 1 .. Len(q) : Names(c, q[i]) /\ Answered(q[i], got) BY <1>7 DEF Served, AllName
<1>9. Served(e, got) BY <1>3, <1>4, <1>6, <1>8 DEF Served, AllName
<1> QED BY <1>9 DEF e

(* An answer goes to the sender, ...                                        *)
LEMMA ServedAnswer ==
  ASSUME net \in Network, net.link.out # <<>>, NEW n, NEW got, Served(n, got), NEW ok \in BOOLEAN,
         Names(c, Head(net.link.out)), Answered(Head(net.link.out), got)
  PROVE  Served(Answer(n, ok), got)
<1> DEFINE h == Head(net.link.out)
           m == [h EXCEPT !.ok = ok]
           q == n.link.back \o <<m>>
<1>1. h \in Messages BY FirstOut
<1>2. m \in Messages /\ m.task = h.task /\ m.id = h.id BY <1>1 DEF Messages
<1>3. Names(c, m) /\ Answered(m, got) BY <1>2 DEF Names, Answered
<1>4. n.link.back \in Seq(Messages) /\ n \in Network BY NetFields DEF Served
<1> HIDE DEF m
<1>5. q = Append(n.link.back, m) BY <1>2, <1>4
<1>6. Answer(n, ok) = [n EXCEPT !.link.back = q] BY <1>4, <1>5 DEF Answer, m, Network
<1>7. <<m>> \in Seq(Messages) /\ \A i \in 1 .. Len(<<m>>) : Names(c, <<m>>[i]) /\ Answered(<<m>>[i], got)
  BY <1>2, <1>3
<1> DEFINE ms == <<m>>
<1>8. q = n.link.back \o ms OBVIOUS
<1> HIDE DEF ms, q
<1>9. Served([n EXCEPT !.link.back = q], got) BY ONLY <1>7, <1>8, Served(n, got), ServedBack DEF ms
<1> QED BY <1>6, <1>9

(* ... publications have no task, ...                                       *)
LEMMA ServedSend ==
  ASSUME NEW n, NEW got, Served(n, got), NEW ms \in Seq(InMessages)
  PROVE  Served(SendPublications(n, ms), got)
<1> DEFINE q == n.link.back \o ms
           e == [n EXCEPT !.link.back = q]
           s == SendPublications(n, ms)
<1>1. n \in Network BY DEF Served
<1>2. s \in Network BY <1>1, SendIs
<1>3. ms \in Seq(Messages)
  <2>1. InMessages \subseteq Messages BY DEF InMessages
  <2> QED BY <2>1
<1>4. \A i \in 1 .. Len(ms) : Names(c, ms[i]) /\ Answered(ms[i], got)
  <2> SUFFICES ASSUME NEW i \in 1 .. Len(ms) PROVE Names(c, ms[i]) /\ Answered(ms[i], got) OBVIOUS
  <2>1. ms[i] \in InMessages BY ONLY ms \in Seq(InMessages), i \in 1 .. Len(ms)
  <2>2. ms[i].task \notin Tasks BY <2>1, TaskNames DEF InMessages
  <2> QED BY <2>2, TaskNames DEF Names, Answered, UserTasks
<1>5. q = n.link.back \o ms OBVIOUS
<1> HIDE DEF q
<1>6. Served(e, got) BY <1>3, <1>4, <1>5, ServedBack
<1>7. s.link = e.link /\ s.delivered = e.delivered
  BY <1>1, <1>5 DEF SendPublications, Network
<1> HIDE DEF e, s
<1>8. Served(s, got) BY <1>2, <1>6, <1>7 DEF Served
<1> QED BY <1>8 DEF s

(* ... and what else the server keeps is not about messages on their way.   *)
LEMMA ServedSame ==
  ASSUME NEW n, NEW got, Served(n, got), NEW e \in Network, e.delivered = n.delivered,
         e.link.out = n.link.out, e.link.back = n.link.back
  PROVE  Served(e, got)
BY DEF Served

(* and notes what it did.                                                   *)
LEMMA ServedOther ==
  ASSUME NEW n, NEW got, Served(n, got)
  PROVE  /\ \A v \in BOOLEAN : Served([n EXCEPT !.link.open = v], got)
         /\ \A v : [n EXCEPT !.server = v] \in Network => Served([n EXCEPT !.server = v], got)
         /\ \A v \in BOOLEAN : Served([n EXCEPT !.server.subscribed = v], got)
         /\ \A v \in SUBSET Incoming : Served([n EXCEPT !.acked = v], got)
         /\ \A v \in Seq(Incoming) : Served([n EXCEPT !.server.sent = v], got)
         /\ \A v \in Seq(InMessages) : Served([n EXCEPT !.server.unacked = v], got)
<1>1. n \in Network BY DEF Served
<1>2. n.link \in [up : BOOLEAN, open : BOOLEAN, out : Seq(OutMessages), back : Seq(Messages)]
  BY <1>1, NetFields
<1>3. ASSUME NEW v \in BOOLEAN PROVE Served([n EXCEPT !.link.open = v], got)
  <2> DEFINE e == [n EXCEPT !.link.open = v]
  <2>1. e \in Network BY <1>1, NetLink
  <2>2. e.link = [n.link EXCEPT !.open = v] /\ e.delivered = n.delivered BY <1>1 DEF Network
  <2>3. e.link.out = n.link.out /\ e.link.back = n.link.back BY <1>2, <2>2
  <2> HIDE DEF e
  <2>4. Served(e, got) BY <2>1, <2>2, <2>3, ServedSame
  <2> QED BY <2>4 DEF e
<1>4. ASSUME NEW e \in Network, e.link = n.link, e.delivered = n.delivered PROVE Served(e, got)
  BY <1>4, ServedSame
<1>5. ASSUME NEW v, [n EXCEPT !.server = v] \in Network PROVE Served([n EXCEPT !.server = v], got)
  <2>1. [n EXCEPT !.server = v].link = n.link /\ [n EXCEPT !.server = v].delivered = n.delivered
    BY <1>1 DEF Network
  <2> QED BY <1>4, <1>5, <2>1
<1>6. ASSUME NEW v \in BOOLEAN PROVE Served([n EXCEPT !.server.subscribed = v], got)
  <2> DEFINE e == [n EXCEPT !.server.subscribed = v]
  <2>1. e.link = n.link /\ e.delivered = n.delivered BY <1>1 DEF Network
  <2>2. e \in Network BY <1>1, NetRest
  <2> HIDE DEF e
  <2>3. Served(e, got) BY <1>4, <2>1, <2>2
  <2> QED BY <2>3 DEF e
<1>7. ASSUME NEW v \in SUBSET Incoming PROVE Served([n EXCEPT !.acked = v], got)
  <2> DEFINE e == [n EXCEPT !.acked = v]
  <2>1. e.link = n.link /\ e.delivered = n.delivered BY <1>1 DEF Network
  <2>2. e \in Network BY <1>1, NetRest
  <2> HIDE DEF e
  <2>3. Served(e, got) BY <1>4, <2>1, <2>2
  <2> QED BY <2>3 DEF e
<1>8. ASSUME NEW v \in Seq(Incoming) PROVE Served([n EXCEPT !.server.sent = v], got)
  <2> DEFINE e == [n EXCEPT !.server.sent = v]
  <2>1. e.link = n.link /\ e.delivered = n.delivered BY <1>1 DEF Network
  <2>2. e \in Network BY <1>1, NetRest
  <2> HIDE DEF e
  <2>3. Served(e, got) BY <1>4, <2>1, <2>2
  <2> QED BY <2>3 DEF e
<1>9. ASSUME NEW v \in Seq(InMessages) PROVE Served([n EXCEPT !.server.unacked = v], got)
  <2> DEFINE e == [n EXCEPT !.server.unacked = v]
  <2>1. e.link = n.link /\ e.delivered = n.delivered BY <1>1 DEF Network
  <2>2. e \in Network BY <1>1, NetRest
  <2> HIDE DEF e
  <2>3. Served(e, got) BY <1>4, <2>1, <2>2
  <2> QED BY <2>3 DEF e
<1> QED BY <1>3, <1>5, <1>6, <1>7, <1>8, <1>9
(* It begins a session.                                                     *)
LEMMA ServedSession ==
  ASSUME NEW n, NEW got, Served(n, got)
  PROVE  Served(ServerSession(n), got)
<1>1. n \in Network BY DEF Served
<1>2. CASE c.session = "CONTINUE" /\ ~n.server.clean
  <2> DEFINE ms == n.server.unacked
  <2>1. ms \in Seq(InMessages) BY <1>1, NetFields
  <2>2. ServerSession(n) = SendPublications(n, ms) BY <1>2 DEF ServerSession
  <2> HIDE DEF ms
  <2> QED BY <2>1, <2>2, ServedSend
<1>3. CASE ~(c.session = "CONTINUE" /\ ~n.server.clean)
  <2> DEFINE v == [NewSession EXCEPT !.clean = c.session = "CLEAN", !.sent = n.server.sent]
  <2>1. ServerSession(n) = [n EXCEPT !.server = v] BY <1>3 DEF ServerSession
  <2>2. ServerSession(n) \in Network BY <1>1, SessionIs
  <2> HIDE DEF v
  <2> QED BY <2>1, <2>2, ServedOther
<1> QED BY <1>2, <1>3
(* A step of the server: at most one message is delivered, of a task the    *)
(* application has handed over.                                             *)
Delivers ==
  /\ c' = c
  /\ \E m : /\ net'.delivered \in {net.delivered, net.delivered \cup {m}}
            /\ m \in UserTasks => Fate(c, m) # "idle"

(* Having more, it may answer more.                                         *)
LEMMA AnsweredMore ==
  ASSUME NEW got, NEW E, got \subseteq E
  PROVE  /\ \A m : Answered(m, got) => Answered(m, E)
         /\ \A q : AnswersIn(q, got) => AnswersIn(q, E)
<1>1. \A m : Answered(m, got) => Answered(m, E) BY DEF Answered
<1> QED BY <1>1 DEF AnswersIn

(* The messages still name their tasks.                                     *)
LEMMA ServedMails ==
  ASSUME c \in Memory, net \in Network, MailInv, c' = c, NEW got, net.delivered \subseteq got, Served(net', got),
         net.link # NoNet
  PROVE  MailInv'
<1>1. MailIn(c') /\ AnswersIn(c'.calls, got) BY AnsweredMore DEF MailInv
<1>2. c.data["io"] BY DEF MailInv, Mails
<1>3. Mails(net', c') BY <1>2 DEF Served, Mails, AllName
<1> QED BY <1>1, <1>3 DEF MailInv, Served

(* The server takes the first message.                                      *)
LEMMA TakenServed ==
  ASSUME c \in Memory, net \in Network, MailInv, net.link.out # <<>>
  PROVE  LET h == Head(net.link.out)
             got == Taken.delivered
         IN  /\ Served(Taken, got) /\ Names(c, h) /\ net.delivered \subseteq got
             /\ got \in {net.delivered, net.delivered \cup {h.task}}
             /\ net.link.open /\ h.task \notin In1 => h.task \in got
<1> DEFINE q == Tail(net.link.out)
           h == Head(net.link.out)
           got == IF net.link.open \/ h.task = "connect" THEN net.delivered \cup ({h.task} \ In1) ELSE net.delivered
<1>1. net.link \in [up : BOOLEAN, open : BOOLEAN, out : Seq(OutMessages), back : Seq(Messages)]
  BY NetFields
<1>2. Taken.link = [net.link EXCEPT !.out = q] /\ Taken.delivered = got BY DEF Taken, Network
<1>3. Taken.link.out = q /\ Taken.link.back = net.link.back BY <1>1, <1>2
<1>4. Taken \in Network BY TakenIs
<1>5. got \in {net.delivered, net.delivered \cup {h.task}}
  <2>1. {h.task} \ In1 \in {{}, {h.task}} OBVIOUS
  <2> QED BY <2>1
<1>6. net.delivered \subseteq got /\ (net.link.open /\ h.task \notin In1 => h.task \in got) OBVIOUS
<1>7. Names(c, h) /\ AllName(c, q)
  <2>1. net.link.out \in Seq(OutMessages) BY <1>1
  <2>2. 1 \in 1 .. Len(net.link.out) /\ net.link.out[1] = h BY <2>1
  <2>3. \A i \in 1 .. Len(q) : i + 1 \in 1 .. Len(net.link.out) /\ q[i] = net.link.out[i + 1] BY <2>1
  <2> HIDE DEF q, h
  <2> QED BY <2>2, <2>3 DEF MailInv, Mails, AllName
<1>8. Served(Taken, got)
  <2> HIDE DEF got, q
  <2>1. \A i \in 1 .. Len(net.link.back) : Answered(net.link.back[i], got)
    BY <1>6, AnsweredMore DEF MailInv, Mails
  <2> QED BY <1>2, <1>3, <1>4, <1>7, <2>1 DEF Served, MailInv, Mails
<1> QED BY <1>2, <1>5, <1>6, <1>7, <1>8

(* The server takes a message and answers.                                  *)
LEMMA ServerStep ==
  ASSUME c \in Memory, net \in Network, MailInv, Server
  PROVE  MailInv' /\ Delivers
<1> DEFINE h == Head(net.link.out)
           got == Taken.delivered
<1>1. c' = c /\ net.link.out # <<>>
  BY DEF Server, ServerConnect, ServerSubscribe, ServerTakes, ServerPuback, ServerIgnores, Takes
<1>2. /\ Served(Taken, got) /\ Names(c, h) /\ net.delivered \subseteq got
      /\ got \in {net.delivered, net.delivered \cup {h.task}}
      /\ net.link.open /\ h.task \notin In1 => h.task \in got
  BY <1>1, TakenServed
<1>3. net.link # NoNet BY <1>1 DEF NoNet
<1>4. h.task \in Tasks \cup In1 BY <1>1, FirstOut
<1>5. ASSUME Served(net', got) PROVE MailInv' /\ Delivers
  <2>1. MailInv' BY <1>1, <1>2, <1>3, <1>5, ServedMails
  <2>2. net'.delivered \in {net.delivered, net.delivered \cup {h.task}} BY <1>2, <1>5 DEF Served
  <2>3. h.task \in UserTasks => Fate(c, h.task) # "idle"
    <3> HIDE DEF h
    <3>1. h.task \in UserTasks => c.task[h.task].cs # "none" BY <1>2 DEF Names
    <3> QED BY <3>1 DEF Fate
  <2> QED BY <1>1, <2>1, <2>2, <2>3 DEF Delivers
<1>6. TRUE \in BOOLEAN /\ FALSE \in BOOLEAN OBVIOUS
<1>7. Answered(h, got) => Served(Answer(Taken, TRUE), got) /\ Served(Answer(Taken, FALSE), got)
  BY <1>1, <1>2, <1>6, ServedAnswer
<1> SUFFICES Served(net', got) BY <1>5
<1>8. CASE ServerConnect
  <2>1. Answered(h, got)
    <3>1. h.task \in Internal BY <1>8, TaskNames DEF ServerConnect, Takes
    <3> QED BY <3>1, TaskNames DEF Answered
  <2> DEFINE n == [Answer(Taken, TRUE) EXCEPT !.link.open = TRUE]
  <2>2. Served(n, got) BY <1>6, <1>7, <2>1, ServedOther
  <2>3. net' \in {ServerSession(n), Answer(Taken, FALSE)} BY <1>8 DEF ServerConnect
  <2> HIDE DEF n
  <2>4. Served(ServerSession(n), got) BY <2>2, ServedSession
  <2> QED BY <1>7, <2>1, <2>3, <2>4
<1>9. CASE ServerSubscribe
  <2>1. Answered(h, got)
    <3>1. net.link.open /\ h.task \in SubTasks BY <1>9 DEF ServerSubscribe, Takes
    <3>2. h.task \notin In1 BY <3>1, TaskNames, TaskAssumption DEF Q12
    <3> QED BY <1>2, <3>1, <3>2 DEF Answered
  <2> DEFINE n == Answer(Taken, TRUE)
             v == n.server.subscribed \/ h.task \in Subs
             e == [n EXCEPT !.server.subscribed = v]
  <2>2. Served(n, got) BY <1>7, <2>1
  <2>3. net' \in {e, Answer(Taken, FALSE)} BY <1>9 DEF ServerSubscribe
  <2>4. v \in BOOLEAN
    <3>1. n \in Network BY <2>2 DEF Served
    <3>2. n.server.subscribed \in BOOLEAN BY <3>1, NetFields
    <3> HIDE DEF n, h
    <3> QED BY <3>2
  <2> HIDE DEF v, n
  <2>5. Served(e, got) BY <2>2, <2>4, ServedOther
  <2> HIDE DEF e
  <2> QED BY <1>7, <2>1, <2>3, <2>5
<1>10. CASE ServerTakes
  <2>1. Answered(h, got)
    <3>1. net.link.open /\ h.task \in Tasks BY <1>10, TaskNames DEF ServerTakes, Takes, UserTasks
    <3>2. h.task \notin In1 BY <3>1, TaskNames, TaskAssumption
    <3> QED BY <1>2, <3>1, <3>2 DEF Answered
  <2> DEFINE e == [Taken EXCEPT !.link.open = FALSE]
  <2>2. net' \in {e, Taken, Answer(Taken, TRUE)} BY <1>10 DEF ServerTakes
  <2>3. Served(e, got) BY <1>2, <1>6, ServedOther
  <2> HIDE DEF e
  <2> QED BY <1>2, <1>7, <2>1, <2>2, <2>3
<1>11. CASE ServerPuback
  <2> DEFINE S == Taken.acked \cup {h.task}
             q == Taken.server.unacked
             u == Kept(q, Range(q) \ {h})
             n == [Taken EXCEPT !.acked = S]
             e == [n EXCEPT !.server.unacked = u]
  <2>1. Taken \in Network BY <1>2 DEF Served
  <2>2. S \in SUBSET Incoming
    <3>1. h.task \in Incoming BY <1>11, TaskAssumption DEF ServerPuback, Takes
    <3> QED BY <2>1, <3>1, NetFields
  <2>3. u \in Seq(InMessages)
    <3>1. q \in Seq(InMessages) BY <2>1, NetFields
    <3> HIDE DEF q, h
    <3> QED BY <3>1, KeptRange
  <2>4. net' = e BY <2>1, <1>11 DEF ServerPuback, Network
  <2> HIDE DEF S, u
  <2>5. Served(n, got) BY <1>2, <2>2, ServedOther
  <2> HIDE DEF n
  <2>6. Served(e, got) BY <2>3, <2>5, ServedOther
  <2> QED BY <2>4, <2>6
<1>12. CASE ServerIgnores BY <1>2, <1>12 DEF ServerIgnores
<1> QED BY <1>8, <1>9, <1>10, <1>11, <1>12 DEF Server
(* The server publishes.                                                    *)
LEMMA ServerPublishStep ==
  ASSUME c \in Memory, net \in Network, MailInv, ServerPublish
  PROVE  MailInv' /\ Delivers
<1> DEFINE m == Publication
           got == net.delivered
           s == SendPublications(net, <<m>>)
           v == Append(s.server.sent, m.task)
           n == [s EXCEPT !.server.sent = v]
           u == Append(n.server.unacked, m)
           e == [n EXCEPT !.server.unacked = u]
<1>1. net' \in {n, e} /\ c' = c /\ net.link # NoNet BY DEF ServerPublish, Publication, NoNet
<1>2. m \in InMessages /\ m.task \in Incoming BY PublicationIs
<1>3. Served(net, got) BY DEF MailInv, Mails, Served
<1> HIDE DEF m
<1>4. Served(s, got) /\ s \in Network
  <2>1. <<m>> \in Seq(InMessages) BY <1>2
  <2>2. Served(s, got) BY <1>3, <2>1, ServedSend
  <2> QED BY <2>2 DEF Served
<1> HIDE DEF s
<1>5. v \in Seq(Incoming) BY <1>2, <1>4, NetFields
<1> HIDE DEF v
<1>6. Served(n, got) BY <1>4, <1>5, ServedOther
<1> HIDE DEF n
<1>7. u \in Seq(InMessages)
  <2>1. n \in Network BY <1>6 DEF Served
  <2> QED BY <1>2, <2>1, NetFields
<1> HIDE DEF u
<1>8. Served(e, got) BY <1>6, <1>7, ServedOther
<1> HIDE DEF e
<1>9. Served(net', got) BY <1>1, <1>6, <1>8
<1>10. MailInv' BY <1>1, <1>9, ServedMails
<1>11. net'.delivered = net.delivered BY <1>9 DEF Served
<1> QED BY <1>1, <1>10, <1>11, TaskNames DEF Delivers
-----------------------------------------------------------------------------
(* What a step is for the tasks and for what the server has.                *)
Maps ==
  \/ net'.delivered = net.delivered /\ c'.session = c.session /\ Judges(c, c', net.delivered)
  \/ \E s \in {"CLEAN", "CONTINUE"} : Reconnects(s)
  \/ \E t \in UserTasks : Accepts(t)
  \/ Delivers

(* A step of the client is one Delivery knows.                              *)
LEMMA ClientMaps ==
  ASSUME ClientStep
  PROVE  MailInv' /\ Maps
BY DEF ClientStep, Maps

(* So is every step.                                                        *)
LEMMA StepMaps ==
  ASSUME Inv, Inv', Running, Running', Less(c), MailInv, [Next]_vars, "timers" \notin AppPhases
  PROVE  MailInv' /\ Maps
<1>1. Mailed /\ PollInv(phase, c) BY DEF Inv, Types, Rules, Mailed, Running
<1> USE ClientMaps
<1>2. CASE DrainCalls BY <1>1, <1>2, DrainStep
<1>3. CASE IoPush \/ IoCloseExternally BY <1>1, <1>3, IoPushStep, IoCloseStep
<1>4. CASE SocketConnected \/ SocketReset \/ SocketWritable \/ SocketReadable
  BY <1>1, <1>4, SocketConnectedStep, SocketWritableStep, SocketReadableStep
<1>5. CASE \/ ConnectHandlerFires \/ KeepaliveOnce \/ \E t \in Tasks : TaskTimeout(t)
           \/ PollDone \/ TimersDone \/ DrainDone
  BY <1>1, <1>5, TimersStep
<1>6. CASE \E s \in Sessions : XiConnect(s) BY <1>1, <1>6, XiConnectStep DEF Maps
<1>7. CASE \E t \in UserTasks : XiPublish(t) BY <1>1, <1>7, XiPublishStep DEF Maps
<1>8. CASE XiShutdownConnection BY <1>1, <1>8, XiShutdownStep
<1>9. CASE Server \/ ServerPublish BY <1>1, <1>9, ServerStep, ServerPublishStep DEF Maps, Mailed
<1>10. CASE UNCHANGED vars
  <2>1. c' = c /\ net' = net BY <1>10 DEF vars
  <2>2. MailInv' BY <2>1 DEF MailInv
  <2>3. Judges(c, c', net.delivered) BY <2>1 DEF Judges, Ended
  <2> QED BY <2>1, <2>2, <2>3 DEF Maps
<1>11. CASE Aborted BY <1>10, <1>11 DEF Aborted
<1> QED
  BY <1>2, <1>3, <1>4, <1>5, <1>6, <1>7, <1>8, <1>9, <1>10, <1>11 DEF Next, Loop, DrainCalls
-----------------------------------------------------------------------------
(* The status of a task is its fate.                                        *)
LEMMA PendingIs ==
  ASSUME c \in Memory, NEW t
  PROVE  LET p == PendingCallbacks(t)
             ok == {k \in CallbackOf(t) : k.st = "OK"}
         IN  /\ ~Has(c.calls, CallbackOf(t)) => p = <<>>
             /\ Has(c.calls, CallbackOf(t)) /\ One(c.calls, CallbackOf(t)) =>
                  Len(p) = 1 /\ p \in Seq(Calls) /\ (p[1].st = "OK" <=> Has(c.calls, ok))
<1> DEFINE S == {k \in Range(c.calls) : k.layer = "user" /\ k.fn = "callback" /\ k.arg.task = t}
           p == PendingCallbacks(t)
           ok == {k \in CallbackOf(t) : k.st = "OK"}
<1>1. c.calls \in Seq(Calls) BY FieldsOf
<1>2. \A i \in 1 .. Len(c.calls) : c.calls[i] \in Calls /\ c.calls[i] \in Range(c.calls)
  BY <1>1 DEF Range
<1>3. \A i \in 1 .. Len(c.calls) : c.calls[i] \in S <=> c.calls[i] \in CallbackOf(t)
  BY <1>2, KindOf
<1>4. p = Kept(c.calls, S) BY DEF PendingCallbacks
<1>5. (Has(c.calls, S) <=> Has(c.calls, CallbackOf(t))) /\ (One(c.calls, S) <=> One(c.calls, CallbackOf(t)))
  <2> HIDE DEF S
  <2> QED BY <1>3 DEF Has, One
<1> HIDE DEF S, p
<1>6. ~Has(c.calls, CallbackOf(t)) => p = <<>> BY <1>1, <1>4, <1>5, KeptOne
<1>7. ASSUME Has(c.calls, CallbackOf(t)), One(c.calls, CallbackOf(t))
      PROVE  Len(p) = 1 /\ p \in Seq(Calls) /\ (p[1].st = "OK" <=> Has(c.calls, ok))
  <2>1. Len(p) = 1 /\ p[1] \in S /\ Has(c.calls, {p[1]}) BY <1>1, <1>4, <1>5, <1>7, KeptOne
  <2>2. p \in Seq(Calls) BY <1>1, <1>4, KeptRange
  <2>3. PICK i \in 1 .. Len(c.calls) : c.calls[i] = p[1] BY <2>1 DEF Has
  <2>4. c.calls[i] \in CallbackOf(t) BY <1>3, <2>1, <2>3
  <2>5. \A j \in 1 .. Len(c.calls) : c.calls[j] \in CallbackOf(t) => j = i BY <1>7, <2>4 DEF One
  <2>6. p[1].st = "OK" => Has(c.calls, ok) BY <2>3, <2>4 DEF Has
  <2>7. Has(c.calls, ok) => p[1].st = "OK" BY <2>3, <2>5 DEF Has
  <2> QED BY <2>1, <2>2, <2>6, <2>7
<1> QED BY <1>6, <1>7 DEF p

(* Status is the fate of a task.                                            *)
LEMMA StatusIs ==
  ASSUME c \in Memory, Sound(c), NEW t \in UserTasks
  PROVE  Status(t) = Fate(c, t)
<1> DEFINE o == c.outcome[t]
           p == PendingCallbacks(t)
           s == [k \in DOMAIN p |-> p[k].st]
           v == Verdicts(t)
<1>1. /\ One(c.calls, CallbackOf(t)) /\ Len(o) <= 1
      /\ Has(c.calls, CallbackOf(t)) => o = <<>>
  BY DEF Sound, Book, BookBut, Told
<1>2. o \in Seq({"OK", "ERR"})
  <2>1. c.outcome \in [Tasks -> Seq({"OK", "ERR"})] BY FieldsOf
  <2> QED BY <2>1, TaskNames
<1>3. v = o \o s BY DEF Verdicts
<1>4. CASE Has(c.calls, CallbackOf(t))
  <2>1. Len(p) = 1 /\ p \in Seq(Calls) /\ (p[1].st = "OK" <=> Has(c.calls, {k \in CallbackOf(t) : k.st = "OK"}))
    BY <1>1, <1>4, PendingIs
  <2>2. o = <<>> BY <1>1, <1>4
  <2> HIDE DEF p
  <2>3. DOMAIN p = 1 .. 1 BY <2>1
  <2>4. s = <<p[1].st>> BY <2>3
  <2> HIDE DEF s, o
  <2>5. v = <<p[1].st>> BY <1>3, <2>2, <2>4
  <2> HIDE DEF v
  <2>6. Len(v) = 1 /\ v[1] = p[1].st BY <2>5
  <2>7. Status(t) = IF p[1].st = "OK" THEN "ok" ELSE "failed" BY <2>6 DEF Status, v
  <2> QED BY <1>4, <2>1, <2>2, <2>7 DEF Fate, Heard, WasOk, o
<1>5. CASE ~Has(c.calls, CallbackOf(t))
  <2>1. p = <<>> BY <1>5, PendingIs
  <2> HIDE DEF p
  <2>2. s = <<>> BY <2>1
  <2> HIDE DEF s, o
  <2>3. v = o BY <1>2, <1>3, <2>2
  <2> HIDE DEF v
  <2>4. CASE o = <<>>
    <3>1. Len(v) = 0 BY <2>3, <2>4
    <3> QED BY <1>5, <2>4, <3>1 DEF Status, v, Fate, Heard, o
  <2>5. CASE o # <<>>
    <3>0. Len(o) = 1
      <4> DEFINE n == Len(o)
      <4>1. n \in Nat /\ n # 0 BY <1>2, <2>5
      <4>2. n <= 1 BY <1>1
      <4> HIDE DEF n
      <4>3. n = 1 BY ONLY <4>1, <4>2
      <4> QED BY <4>3 DEF n
    <3>1. Len(v) = 1 /\ v[1] = o[1] BY <2>3, <3>0
    <3>2. Status(t) = IF o[1] = "OK" THEN "ok" ELSE "failed" BY <3>1 DEF Status, v
    <3> QED BY <2>5, <3>2 DEF Fate, Heard, WasOk, o
  <2> QED BY <2>4, <2>5
<1> QED BY <1>4, <1>5
-----------------------------------------------------------------------------
(* The steps of Delivery, in terms of the fates.                            *)
Agree == \A t \in UserTasks : Status(t) = Fate(c, t)

(* When no fate changes, nothing of Delivery does.                          *)
LEMMA StutterStep ==
  ASSUME Agree, Agree', net'.delivered = net.delivered, c'.session = c.session,
         \A t \in UserTasks : Fate(c', t) = Fate(c, t)
  PROVE  UNCHANGED D!vars
BY DEF Agree, D!vars

(* When one does, it is a step of Delivery.                                 *)
LEMMA OneStep ==
  ASSUME Agree, Agree', net'.delivered = net.delivered, c'.session = c.session, NEW x \in UserTasks,
         \A t \in UserTasks \ {x} : Fate(c', t) = Fate(c, t)
  PROVE  /\ Fate(c, x) = "idle" /\ Fate(c', x) = "accepted" => D!Accept(x)
         /\ Fate(c, x) = "accepted" /\ Fate(c', x) = "stored" /\ x \in Q1 \cup Subs => D!Store(x)
         /\ Fate(c, x) \in {"accepted", "stored"} /\ Fate(c', x) = "failed" => D!Fail(x)
         /\ Fate(c, x) \in {"accepted", "stored"} /\ Fate(c', x) = "ok"
            /\ (x \in Q1 \cup Subs => x \in net.delivered) => D!Succeed(x)
BY DEF Agree, D!Accept, D!Store, D!Fail, D!Succeed, D!Step

(* Several at the end of a connection: Abandon.                             *)
LEMMA AbandonStep ==
  ASSUME Agree, Agree', net'.delivered = net.delivered, c'.session = c.session,
         \A t \in UserTasks : Ended(c, c', t)
  PROVE  D!Next \/ UNCHANGED D!vars
<1> DEFINE S == {t \in UserTasks : Fate(c, t) # Fate(c', t) /\ Fate(c', t) = "dropped"}
           F == {t \in UserTasks : Fate(c, t) # Fate(c', t) /\ Fate(c', t) = "failed"}
<1>1. D!Abandon(S, F) BY DEF Agree, Ended, D!Abandon
<1>2. S \in SUBSET UserTasks /\ F \in SUBSET UserTasks OBVIOUS
<1> HIDE DEF S, F
<1> QED BY <1>1, <1>2 DEF D!Next

(* The server got a message: Deliver.                                       *)
LEMMA DeliverStep ==
  ASSUME Agree, Agree', Delivers
  PROVE  D!Next \/ UNCHANGED D!vars
<1>1. PICK m : /\ net'.delivered \in {net.delivered, net.delivered \cup {m}}
               /\ m \in UserTasks => Fate(c, m) # "idle"
  BY DEF Delivers
<1>2. c' = c BY DEF Delivers
<1>3. CASE net'.delivered \cap UserTasks = net.delivered \cap UserTasks
  BY <1>2, <1>3 DEF Agree, D!vars
<1>4. CASE m \in UserTasks /\ net'.delivered = net.delivered \cup {m}
  <2>1. D!Deliver(m) BY <1>1, <1>2, <1>4 DEF Agree, D!Deliver
  <2> QED BY <1>4, <2>1 DEF D!Next
<1> QED BY <1>1, <1>3, <1>4

(* The application connects again: Connect.                                 *)
LEMMA ReconnectStep ==
  ASSUME Agree, Agree', NEW s \in {"CLEAN", "CONTINUE"}, Reconnects(s)
  PROVE  D!Next
<1>1. D!Connect(s) BY DEF Agree, Reconnects, D!Connect
<1> QED BY <1>1 DEF D!Next

(* So every step is one of Delivery, or none.                               *)
LEMMA MapsNext ==
  ASSUME Agree, Agree', Running', Maps
  PROVE  D!Next \/ UNCHANGED D!vars
<1>1. CASE net'.delivered = net.delivered /\ c'.session = c.session /\ Judges(c, c', net.delivered)
  <2>1. CASE \A t \in UserTasks : Ended(c, c', t) BY <1>1, <2>1, AbandonStep
  <2>2. ASSUME NEW x, \A t \in UserTasks \ {x} : Fate(c', t) = Fate(c, t),
               Change(c, c', x, x \in Q1 \cup Subs => x \in net.delivered)
        PROVE  D!Next \/ UNCHANGED D!vars
    <3>1. CASE x \notin UserTasks \/ Fate(c', x) = Fate(c, x) BY <1>1, <2>2, <3>1, StutterStep
    <3>2. CASE x \in UserTasks /\ Fate(c', x) # Fate(c, x)
      <4>1. D!Store(x) \/ D!Fail(x) \/ D!Succeed(x) BY <1>1, <2>2, <3>2, OneStep DEF Change, Running
      <4> QED BY <3>2, <4>1 DEF D!Next
    <3> QED BY <3>1, <3>2
  <2> QED BY <1>1, <2>1, <2>2 DEF Judges
<1>2. CASE \E s \in {"CLEAN", "CONTINUE"} : Reconnects(s) BY <1>2, ReconnectStep
<1>3. CASE \E t \in UserTasks : Accepts(t)
  <2>1. PICK t \in UserTasks : Accepts(t) BY <1>3
  <2>2. D!Accept(t) BY <2>1, OneStep DEF Accepts
  <2> QED BY <2>2 DEF D!Next
<1>4. CASE Delivers BY <1>4, DeliverStep
<1> QED BY <1>1, <1>2, <1>3, <1>4 DEF Maps
-----------------------------------------------------------------------------
(* Nothing is on its way yet, and every task is idle.                       *)
LEMMA InitMails ==
  ASSUME Init
  PROVE  MailInv /\ D!Init
<1>1. /\ c.calls = <<>> /\ c.q12 = <<>> /\ c.saved = <<>> /\ c.queue = <<>> /\ c.session = "CLEAN"
      /\ \A t \in Tasks : c.task[t].cs = "none" /\ c.outcome[t] = <<>>
      /\ net.link = NoNet /\ net.delivered = {}
  BY InitFields
<1>2. MailIn(c)
  <2>1. Range(c.q12) = {} /\ Range(c.saved) = {} BY <1>1, RangeEmpty
  <2>2. Ids(c) BY <2>1 DEF Ids
  <2>3. Mail(c) /\ AllName(c, c.queue) BY <1>1 DEF Mail, AllName
  <2> QED BY <2>2, <2>3 DEF MailIn
<1>3. AnswersIn(c.calls, net.delivered) BY <1>1 DEF AnswersIn
<1>4. Mails(net, c) BY <1>1, NoNetIs
<1>5. \A t \in UserTasks : Status(t) = "idle"
  <2> SUFFICES ASSUME NEW t \in UserTasks PROVE Status(t) = "idle" OBVIOUS
  <2>1. c \in Memory /\ Sound(c)
    <3>1. Inv /\ Running BY <1>1, InitInv, InitFields DEF Running
    <3> QED BY <3>1 DEF Inv, Types, Rules
  <2>2. Status(t) = Fate(c, t) BY <2>1, StatusIs
  <2>3. ~Has(c.calls, CallbackOf(t)) BY <1>1, QueueEmpty
  <2>4. c.outcome[t] = <<>> /\ c.task[t].cs = "none" BY <1>1, TaskNames
  <2> QED BY <2>2, <2>3, <2>4 DEF Fate, Heard
<1>6. D!Init BY <1>1, <1>5 DEF D!Init
<1> QED BY <1>2, <1>3, <1>4, <1>6 DEF MailInv

(* While the client runs, Status and Fate agree.                            *)
LEMMA InvAgree ==
  ASSUME Inv, Running
  PROVE  Agree
BY StatusIs DEF Inv, Types, Rules, Agree

(* A failed assertion is the end.                                           *)
LEMMA StepRuns ==
  ASSUME Inv, [Next]_vars, Running'
  PROVE  Running
<1> SUFFICES ASSUME ~Running PROVE FALSE OBVIOUS
<1>1. c' = c
  <2>1. CASE Next BY <2>1, AbortedAfter DEF Inv
  <2>2. CASE UNCHANGED vars BY <2>2 DEF vars
  <2> QED BY <2>1, <2>2
<1> QED BY <1>1 DEF Running

(* The step of the refinement.                                              *)
LEMMA StepDelivers ==
  ASSUME Inv, Inv', Running => MailInv, IdsLeft, [Next]_vars, Running' => Agree', Running => Agree,
         "timers" \notin AppPhases
  PROVE  (Running' => MailInv') /\ [Running' => D!Next]_(D!vars)
<1> SUFFICES ASSUME Running' PROVE MailInv' /\ (D!Next \/ UNCHANGED D!vars) OBVIOUS
<1>1. Running BY StepRuns
<1>2. Less(c) BY DEF IdsLeft, Less
<1>3. MailInv' /\ Maps BY <1>1, <1>2, StepMaps
<1>4. D!Next \/ UNCHANGED D!vars BY <1>1, <1>3, MapsNext
<1> QED BY <1>3, <1>4
-----------------------------------------------------------------------------
(* ImplementsDelivery: until an assertion fails, every step of the client,  *)
(* of the server and of the application is a step of Delivery for the       *)
(* application's publications and subscriptions, or changes nothing of them *)
(* - as long as last_msg_id does not wrap around, so that an id still names *)
(* one task.                                                                *)
THEOREM DeliveryImplemented ==
  ASSUME "timers" \notin AppPhases
  PROVE  Spec /\ []IdsLeft => ImplementsDelivery
<1>1. Init => (Running => MailInv) /\ D!Init BY InitMails
<1>2. Inv => (Running => Agree) BY InvAgree
<1>3. /\ Inv /\ Inv' /\ (Running => MailInv) /\ IdsLeft /\ [Next]_vars
      /\ (Running => Agree) /\ (Running => Agree)'
      => (Running => MailInv)' /\ [Running' => D!Next]_(D!vars)
  BY StepDelivers
<1>4. Spec => []Inv BY ClientInvariant
<1> QED BY <1>1, <1>2, <1>3, <1>4, PTL DEF Spec, ImplementsDelivery
-----------------------------------------------------------------------------
(* What Delivery promises, its messages being the tasks of UserTasks.       *)
(* Its steps keep its types.                                                *)
LEMMA DeliveryTypes == D!TypeInv /\ [D!Next]_(D!vars) => D!TypeInv'
<1> SUFFICES ASSUME D!TypeInv, [D!Next]_(D!vars) PROVE D!TypeInv'
  OBVIOUS
<1> USE DEF D!TypeInv, D!Statuses, D!Step
<1>1. ASSUME NEW m \in UserTasks,
             D!Accept(m) \/ D!Store(m) \/ D!Deliver(m) \/ D!Succeed(m) \/ D!Fail(m)
      PROVE  D!TypeInv'
  BY <1>1 DEF D!Accept, D!Store, D!Deliver, D!Succeed, D!Fail
<1>2. ASSUME NEW S \in SUBSET UserTasks, NEW F \in SUBSET UserTasks, D!Abandon(S, F)
      PROVE  D!TypeInv'
  BY <1>2 DEF D!Abandon
<1>3. ASSUME NEW s \in {"CLEAN", "CONTINUE"}, D!Connect(s)
      PROVE  D!TypeInv'
  BY <1>3 DEF D!Connect
<1>4. CASE UNCHANGED D!vars
  BY <1>4 DEF D!vars
<1> QED
  BY <1>1, <1>2, <1>3, <1>4 DEF D!Next

(* They keep it true that success was reported of what the server has.      *)
LEMMA DeliverySuccess ==
  D!TypeInv /\ D!SuccessMeansDelivered /\ [D!Next]_(D!vars) => D!SuccessMeansDelivered'
<1> SUFFICES ASSUME D!TypeInv, D!SuccessMeansDelivered, [D!Next]_(D!vars)
             PROVE  D!SuccessMeansDelivered'
  OBVIOUS
<1> USE DEF D!TypeInv, D!SuccessMeansDelivered, D!Step
<1>1. ASSUME NEW m \in UserTasks,
             D!Accept(m) \/ D!Store(m) \/ D!Deliver(m) \/ D!Succeed(m) \/ D!Fail(m)
      PROVE  D!SuccessMeansDelivered'
  BY <1>1 DEF D!Accept, D!Store, D!Deliver, D!Succeed, D!Fail
<1>2. ASSUME NEW S \in SUBSET UserTasks, NEW F \in SUBSET UserTasks, D!Abandon(S, F)
      PROVE  D!SuccessMeansDelivered'
  BY <1>2 DEF D!Abandon
<1>3. ASSUME NEW s \in {"CLEAN", "CONTINUE"}, D!Connect(s)
      PROVE  D!SuccessMeansDelivered'
  BY <1>3 DEF D!Connect
<1>4. CASE UNCHANGED D!vars
  BY <1>4 DEF D!vars
<1> QED
  BY <1>1, <1>2, <1>3, <1>4 DEF D!Next

(* They forget no stored message in a continued session.                    *)
LEMMA DeliveryStored ==
  ASSUME D!TypeInv, [D!Next]_(D!vars), NEW m \in UserTasks,
         Status(m) = "stored", c.session = "CONTINUE"
  PROVE  Status(m)' \in {"stored", "ok", "failed"}
<1> USE DEF D!TypeInv, D!Step
<1>1. ASSUME NEW n \in UserTasks,
             D!Accept(n) \/ D!Store(n) \/ D!Deliver(n) \/ D!Succeed(n) \/ D!Fail(n)
      PROVE  Status(m)' \in {"stored", "ok", "failed"}
  BY <1>1 DEF D!Accept, D!Store, D!Deliver, D!Succeed, D!Fail
<1>2. ASSUME NEW S \in SUBSET UserTasks, NEW F \in SUBSET UserTasks, D!Abandon(S, F)
      PROVE  Status(m)' \in {"stored", "ok", "failed"}
  <2>1. m \notin S /\ m \notin F
    BY <1>2 DEF D!Abandon
  <2> QED
    BY <1>2, <2>1 DEF D!Abandon
<1>3. ASSUME NEW s \in {"CLEAN", "CONTINUE"}, D!Connect(s)
      PROVE  Status(m)' \in {"stored", "ok", "failed"}
  BY <1>3 DEF D!Connect
<1>4. CASE UNCHANGED D!vars
  BY <1>4 DEF D!vars
<1> QED
  BY <1>1, <1>2, <1>3, <1>4 DEF D!Next

(* Whatever behaves like Delivery reports success only for messages the     *)
(* server has, and never forgets a stored message in a continued session.   *)
THEOREM PromisesKept == D!Spec => []D!SuccessMeansDelivered /\ D!StoredIsKept
<1>1. D!Init => D!TypeInv /\ D!SuccessMeansDelivered
  BY DEF D!Init, D!TypeInv, D!Statuses, D!SuccessMeansDelivered
<1>2. D!TypeInv /\ D!SuccessMeansDelivered /\ [D!Next]_(D!vars)
        => D!TypeInv' /\ D!SuccessMeansDelivered'
  BY DeliveryTypes, DeliverySuccess
<1>3. D!TypeInv /\ [D!Next]_(D!vars) =>
        [\A m \in UserTasks :
           [t \in UserTasks |-> Status(t)][m] = "stored" /\ c.session = "CONTINUE" =>
             [t \in UserTasks |-> Status(t)]'[m] \in {"stored", "ok", "failed"}]_(D!vars)
  BY DeliveryStored
<1> QED
  BY <1>1, <1>2, <1>3, PTL DEF D!Spec, D!StoredIsKept

(* The client keeps these promises while no assertion fails and no id is    *)
(* used twice: when do_mqtt_publish_q1 or do_mqtt_subscribe has reported    *)
(* success of a task, or is about to, the server has its message; and a     *)
(* task whose message was written is not forgotten by                       *)
(* xi_mqtt_logic_layer_close_externally as long as the session goes on: its *)
(* status stays "stored" until its callback is called.                      *)
StoredStays ==
  \A t \in UserTasks :
    Status(t) = "stored" /\ c.session = "CONTINUE" => Status(t)' \in {"stored", "ok", "failed"}

THEOREM ClientKeepsPromises ==
  ASSUME "timers" \notin AppPhases
  PROVE  Spec /\ []IdsLeft =>
           [](Running => D!SuccessMeansDelivered) /\ [][Running' => StoredStays]_(D!vars)
<1> DEFINE Promised == Running => D!TypeInv /\ D!SuccessMeansDelivered
           Follows == Running' => D!Next
<1>1. D!Init => Promised
  BY DEF D!Init, D!TypeInv, D!Statuses, D!SuccessMeansDelivered
<1>2. Inv /\ [Next]_vars => (Running' => Running)
  BY StepRuns
<1>3. (Running' => Running) /\ Promised /\ [Follows]_(D!vars) => Promised' /\ [Running' => StoredStays]_(D!vars)
  <2> SUFFICES ASSUME Running' => Running, Promised, [Follows]_(D!vars), Running'
               PROVE  /\ D!TypeInv' /\ D!SuccessMeansDelivered'
                      /\ StoredStays \/ UNCHANGED D!vars
    OBVIOUS
  <2>1. D!TypeInv /\ D!SuccessMeansDelivered /\ [D!Next]_(D!vars) OBVIOUS
  <2>2. StoredStays BY <2>1, DeliveryStored DEF StoredStays
  <2> QED BY <2>1, <2>2, DeliveryTypes, DeliverySuccess
<1>4. Promised => (Running => D!SuccessMeansDelivered) OBVIOUS
<1> HIDE DEF Promised
<1>5. Spec => []Inv BY ClientInvariant
<1> QED BY <1>1, <1>2, <1>3, <1>4, <1>5, DeliveryImplemented, PTL DEF Spec, ImplementsDelivery
=============================================================================
