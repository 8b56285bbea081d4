-------------------------- MODULE MqttTasksProofs --------------------------
(***************************************************************************)
(* The invariant of MqttClient and what keeps it, first half: the task     *)
(* engine of the logic layer (MqttTasks), the call queue, the application, *)
(* the opening of a connection, and the way of a message down and up the   *)
(* layers.  MqttClientProofs has the rest and the theorems.                *)
(***************************************************************************)
EXTENDS MqttClient, TLAPS, WellFoundedInduction, NaturalsInduction

(* What the variables range over.                                           *)
FunctionNames == LayerFunctions \cup {"callback", "connection", "message"}
OutMessages == {m \in Messages : m.task \in Tasks \cup In1}
InMessages == {m \in Messages : m.task \in Incoming}
AckMessages == {m \in Messages : m.task \in In1}
CallTypes == [layer : Layers \cup {"user"}, fn : FunctionNames,
              arg : Messages \cup Seq(Messages), st : Statuses]
Outward(k) == k.fn = "push" /\ (k.layer = "io" \/ (k.layer = "codec" /\ k.st = "OK"))
Calls == {k \in CallTypes :
            /\ IF k.layer = "codec" /\ k.fn = "pull" THEN k.arg \in Seq(Messages)
                                                     ELSE k.arg \in Messages
            /\ Outward(k) => k.arg \in OutMessages
            /\ k.fn = "push" => k.st \in {"OK", "WRITTEN", "FAILED"}
            /\ k.fn = "push" /\ k.layer \in {"top", "logic"} /\ k.st = "OK" => k.arg.task \in Tasks
            /\ k.fn = "message" => k.arg.task \in Incoming}

TaskTypes == [cs : Coroutine, timeout : BOOLEAN,
              session : {"UNSET", "STORE", "DO_NOT_STORE"}, id : 0 .. (IdMod - 1)]
Asserts ==
  {"answer_without_task", "codec_init", "connect_start", "connect_without_message",
   "finalize_timer", "freed_with_timer", "freed_subscription", "keepalive_timer",
   "keepalive_written", "q0_with_message", "q1_start", "q1_timeout", "q1_written", "same_id",
   "same_recv_id", "saved_handlers", "subscribe_failed", "subscribe_resend_state",
   "subscribe_resend_timer", "subscribe_retry", "subscribe_timeout", "subscribe_written",
   "top_data"}
Memory ==
  [calls : Seq(Calls), layer : [Layers -> LayerStates], data : [Layers -> BOOLEAN],
   conn : ConnectionStates, session : {"CLEAN", "CONTINUE"},
   connect_handler : BOOLEAN, shutdown_started : BOOLEAN,
   task : [Tasks -> TaskTypes], current : (Tasks \ Q12) \cup {None},
   q0 : Seq(Tasks \ Q12), q12 : Seq(Q12), last_msg_id : 0 .. (IdMod - 1),
   keepalive_event : BOOLEAN, saved : Seq(Q12), saved_id : 0 .. (IdMod - 1),
   recv : Seq(AckMessages), handlers : Seq(SubTasks), saved_handlers : Seq(SubTasks),
   queue : Seq(OutMessages), io : {"idle", "connecting", "blocked"},
   outcome : [Tasks -> Seq({"OK", "ERR"})], received : Seq(Incoming), told : BOOLEAN,
   abort : Asserts \cup {"none"}]
Fields ==
  {"calls", "layer", "data", "conn", "session", "connect_handler", "shutdown_started", "task",
   "current", "q0", "q12", "last_msg_id", "keepalive_event", "saved", "saved_id", "recv",
   "handlers", "saved_handlers", "queue", "io", "outcome", "received", "told", "abort"}
Network ==
  [link : [up : BOOLEAN, open : BOOLEAN, out : Seq(OutMessages), back : Seq(Messages)],
   delivered : SUBSET Tasks,
   server : [subscribed : BOOLEAN, clean : BOOLEAN, sent : Seq(Incoming), unacked : Seq(InMessages)],
   acked : SUBSET Incoming, due : SUBSET Incoming]
Types == phase \in {"poll", "timers", "drain"} /\ c \in Memory /\ net \in Network

(* Calls of a kind: that one is queued, that at most one is.                *)
Has(q, S) == \E i \in 1 .. Len(q) : q[i] \in S
One(q, S) == \A i, j \in 1 .. Len(q) : q[i] \in S /\ q[j] \in S => i = j
Only(q, S) == \A i \in 1 .. Len(q) : q[i] \in S
Kind(l, fn) == {k \in Calls : k.layer = l /\ k.fn = fn}
With(l, fn, st) == {k \in Kind(l, fn) : k.st = st}

PushOf(t) == {k \in With("top", "push", "OK") \cup With("logic", "push", "OK") : k.arg.task = t}
Fresh == With("top", "push", "OK") \cup With("logic", "push", "OK")
Users == {k \in Fresh : k.arg.task \in UserTasks}
LogicInits == Kind("logic", "init")
Inits == LogicInits \cup Kind("codec", "init") \cup Kind("io", "init") \cup Kind("io", "connect")
         \cup With("codec", "connect", "OK") \cup With("logic", "connect", "OK")
Opened == With("top", "connect", "OK")
Tokens == Kind("io", "push") \cup {k \in Kind("codec", "push") : k.st # "OK"}
Gone(l) == Kind(l, "close_externally")
CallbackOf(t) == {k \in Kind("user", "callback") : k.arg.task = t}

(* What is known of the client's memory a, which tasks it holds first.      *)
Queued(a) == (Range(a.q0) \cup Range(a.q12) \cup Range(a.saved) \cup {a.current}) \ {None}
At(a, t) == t \in Tasks /\ (t = a.current \/ t \in Range(a.q12))
Pending(a, t) == Has(a.calls, PushOf(t))

(* An armed timer belongs to a task the layer works on.                     *)
Timers(a) == \A t \in Tasks : a.task[t].timeout => At(a, t)
(* A task that is held anywhere is alive.                                   *)
Lives(a) == \A t \in Tasks : t \in Queued(a) \/ Pending(a, t)
                               => a.task[t].cs \notin {"none", "freed"}
(* It is held in one place.                                                 *)
Distinct(q) == \A i, j \in 1 .. Len(q) : q[i] = q[j] => i = j
Once(a) ==
  /\ Distinct(a.q0) /\ a.current \notin Range(a.q0) /\ Range(a.q12) \cap Range(a.saved) = {}
  /\ \A t \in Tasks : One(a.calls, PushOf(t)) /\ (Pending(a, t) => t \notin Queued(a))
(* The user hears of a task (x apart) when it is freed, and once.           *)
Heard(a, t) == a.outcome[t] # <<>> \/ Has(a.calls, CallbackOf(t))
Told(a, x) ==
  \A t \in UserTasks :
    /\ Heard(a, t) /\ t # x => a.task[t].cs = "freed"
    /\ One(a.calls, CallbackOf(t)) /\ Len(a.outcome[t]) <= 1
    /\ Has(a.calls, CallbackOf(t)) => a.outcome[t] = <<>>
(* What may outlive a connection, after it was written.                     *)
Sessions1(a) ==
  /\ \A t \in UserTasks : a.task[t].session # "UNSET" =>
       t \in Q1 \cup Subs /\ a.task[t].session = "STORE" /\ ~Pending(a, t)
  /\ "control" \in Queued(a) \/ Pending(a, "control") => a.task["control"].session = "DO_NOT_STORE"
  /\ "control" \notin Range(a.saved)

BookBut(a, x) == Timers(a) /\ Lives(a) /\ Once(a) /\ Told(a, x) /\ Sessions1(a)
Book(a) == BookBut(a, None)

(* The beginning of a connection, one call after another.                   *)
Starting(a) == Has(a.calls, Inits) \/ a.io = "connecting"
Rest(a) == a.conn \in {"UNINITIALIZED", "CLOSED", "OPEN_FAILED"}
StartInv(a) ==
  /\ One(a.calls, Inits)
  /\ Starting(a) =>
       /\ Only(a.calls, Inits \cup Users)
       /\ a.current = None /\ ~a.keepalive_event /\ \A t \in Tasks : ~a.task[t].timeout
       /\ Internal \cap Queued(a) = {}
  /\ a.io = "connecting" => a.data["io"] /\ ~Has(a.calls, Inits)
  /\ Has(a.calls, LogicInits) => ~a.data["logic"] /\ ~a.connect_handler /\ Rest(a)
  /\ a.io = "connecting" \/ Has(a.calls, Inits \ LogicInits) => a.data["logic"] /\ a.conn = "OPENING"
  /\ Has(a.calls, Kind("codec", "init")) => ~a.data["codec"]
  /\ Has(a.calls, Kind("io", "init")) => a.data["codec"] /\ ~a.data["io"]
  /\ Has(a.calls, Kind("io", "connect")) => a.data["codec"]
  /\ Has(a.calls, With("codec", "connect", "OK") \cup With("logic", "connect", "OK")) => a.data["io"]
PollInv(p, a) ==
  /\ p = "poll" => Only(a.calls, Fresh)
  /\ (p = "poll" /\ Rest(a)) \/ (p = "timers" /\ a.connect_handler) => Only(a.calls, Users)
DataInv(a) ==
  /\ a.data["io"] => a.data["codec"]
  /\ a.data["codec"] => a.data["logic"]
  /\ a.data["logic"] => ~Rest(a)
  /\ a.connect_handler => Rest(a)
  /\ ~a.data["io"] => a.io = "idle"
  /\ ~a.data["codec"] => a.queue = <<>>
  /\ ~a.data["logic"] => /\ a.current = None /\ a.q0 = <<>> /\ a.q12 = <<>> /\ a.recv = <<>>
                         /\ ~a.keepalive_event
  /\ a.conn \in {"CLOSED", "OPEN_FAILED"} /\ a.data["top"] => Has(a.calls, LogicInits)
EndInv(a) ==
  /\ Has(a.calls, Gone("codec")) => ~a.data["io"]
  /\ Has(a.calls, Gone("logic")) => ~a.data["codec"]
  /\ Has(a.calls, Gone("top")) => ~a.data["logic"]
CodecInv(a) ==
  a.data["codec"] =>
    /\ One(a.calls, Tokens)
    /\ Has(a.calls, Tokens) => a.io # "blocked"
    /\ Has(a.calls, Tokens) \/ a.io = "blocked" => a.queue # <<>>
(* The tasks the library makes for itself: each once.                       *)
ConnectOnce(a) ==
  "connect" \in Queued(a) =>
    /\ a.conn = "OPENING" /\ ~a.keepalive_event /\ "keepalive" \notin Queued(a)
    /\ "control" \notin Queued(a) /\ ~Pending(a, "control") /\ ~Has(a.calls, Opened)
PingOnce(a) == a.keepalive_event => "keepalive" \notin Queued(a)
RestOnce(a) ==
  /\ Has(a.calls, Opened) => "control" \notin Queued(a) /\ ~Pending(a, "control")
  /\ One(a.calls, Opened)
  /\ ~Pending(a, "keepalive") /\ ~Pending(a, "connect")
  /\ a.conn = "OPENING" => "shutdown" \notin Queued(a) /\ ~Pending(a, "shutdown")
  /\ a.conn = "OPENED" /\ ("shutdown" \in Queued(a) \/ Pending(a, "shutdown")) => a.shutdown_started
InternalInv(a) == ConnectOnce(a) /\ PingOnce(a) /\ RestOnce(a)

(* What holds of the client's memory between two steps.                     *)
Fit(a) == StartInv(a) /\ DataInv(a) /\ EndInv(a) /\ CodecInv(a) /\ InternalInv(a)
Sound(a) == Book(a) /\ Fit(a)
Rules == Sound(c) /\ PollInv(phase, c)

Inv == Types /\ (Running => Rules)

(* Messages and their ids, while the ids have not wrapped.                  *)
IdsLeft == c.last_msg_id + 1 < IdMod
Ids(a) ==
  /\ \A t \in Range(a.q12) : a.task[t].id \in 1 .. a.last_msg_id
  /\ \A t \in Range(a.saved) : a.task[t].id \in 1 .. a.saved_id
  /\ \A t, u \in Range(a.q12) : a.task[t].id = a.task[u].id => t = u
  /\ \A t, u \in Range(a.saved) : a.task[t].id = a.task[u].id => t = u
(* A message of a task names the task that has its id, if any.              *)
Names(a, m) ==
  /\ m.task \in UserTasks => a.task[m.task].cs # "none"
  /\ a.data["logic"] /\ m.task \in Q12 =>
       /\ m.id \in 1 .. a.last_msg_id
       /\ \A t \in Range(a.q12) : a.task[t].id = m.id => t = m.task
(* The messages on their way out and back.                                  *)
AllName(a, q) == \A i \in 1 .. Len(q) : Names(a, q[i])
Mail(a) ==
  \A i \in 1 .. Len(a.calls) :
    /\ Outward(a.calls[i]) \/ (a.calls[i].layer = "logic" /\ a.calls[i].fn = "pull") => Names(a, a.calls[i].arg)
    /\ a.calls[i].layer = "codec" /\ a.calls[i].fn = "pull" => AllName(a, a.calls[i].arg)
(* From a to b, no message lost its task.                                   *)
Keeps(a, b) ==
  Ids(a) /\ Mail(a) /\ AllName(a, a.queue) =>
    Ids(b) /\ Mail(b) /\ AllName(b, b.queue) /\ \A m : Names(a, m) => Names(b, m)
(* An answer to a task comes from the server, which has its message: got is *)
(* what it has.                                                             *)
Answered(m, got) == m.task \in Q1 \cup Subs => m.task \in got
AnswersIn(q, got) ==
  \A i \in 1 .. Len(q) :
    /\ q[i].layer = "logic" /\ q[i].fn = "pull" => Answered(q[i].arg, got)
    /\ q[i].layer = "codec" /\ q[i].fn = "pull" => \A j \in 1 .. Len(q[i].arg) : Answered(q[i].arg[j], got)

-----------------------------------------------------------------------------
(* Queues.  p holds what q holds, and x.                                    *)
Adds(p, q, x) ==
  \A S : /\ Has(p, S) <=> x \in S \/ Has(q, S)
         /\ One(p, S) <=> One(q, S) /\ ~(x \in S /\ Has(q, S))
         /\ Only(p, S) <=> x \in S /\ Only(q, S)

(* No call is on an empty queue.                                            *)
LEMMA QueueEmpty == \A S : ~Has(<<>>, S) /\ One(<<>>, S) /\ Only(<<>>, S)
BY DEF Has, One, Only

(* A queue with one call more.                                              *)
LEMMA QueueAppend ==
  ASSUME NEW T, NEW q \in Seq(T), NEW x \in T
  PROVE  Append(q, x) \in Seq(T) /\ Adds(Append(q, x), q, x)
<1> DEFINE r == Append(q, x)
<1>1. /\ r \in Seq(T) /\ Len(r) = Len(q) + 1 /\ Len(q) \in Nat
      /\ \A i \in 1 .. Len(q) : r[i] = q[i]
      /\ r[Len(q) + 1] = x
  OBVIOUS
<1> HIDE DEF r
<1>2. ASSUME NEW S PROVE Has(r, S) <=> x \in S \/ Has(q, S)
  BY <1>1 DEF Has
<1>3. ASSUME NEW S PROVE One(r, S) <=> One(q, S) /\ ~(x \in S /\ Has(q, S))
  <2>1. One(r, S) => One(q, S) BY <1>1 DEF One
  <2>2. ASSUME One(r, S), x \in S, NEW i \in 1 .. Len(q), q[i] \in S PROVE FALSE
    BY <2>2, <1>1 DEF One
  <2>3. One(q, S) /\ ~(x \in S /\ Has(q, S)) => One(r, S)
    BY <1>1 DEF One, Has
  <2> QED BY <2>1, <2>2, <2>3 DEF Has
<1>4. ASSUME NEW S PROVE Only(r, S) <=> x \in S /\ Only(q, S)
  BY <1>1 DEF Only
<1> QED BY <1>1, <1>2, <1>3, <1>4 DEF Adds, r

(* A queue and the call taken from its head.                                *)
LEMMA QueueTail ==
  ASSUME NEW T, NEW q \in Seq(T), q # <<>>
  PROVE  Head(q) \in T /\ Tail(q) \in Seq(T) /\ Adds(q, Tail(q), Head(q))
<1> DEFINE r == Tail(q)
           x == Head(q)
<1>1. /\ r \in Seq(T) /\ x \in T /\ Len(r) = Len(q) - 1 /\ Len(q) \in Nat \ {0}
      /\ \A i \in 1 .. Len(r) : r[i] = q[i + 1]
      /\ x = q[1]
  OBVIOUS
<1> HIDE DEF r, x
<1>2. \A i \in 2 .. Len(q) : i - 1 \in 1 .. Len(r) /\ r[i - 1] = q[i] BY <1>1
<1>3. \A i \in 1 .. Len(r) : i + 1 \in 2 .. Len(q) BY <1>1
<1>4. ASSUME NEW S PROVE Has(q, S) <=> x \in S \/ Has(r, S)
  <2>1. ASSUME NEW i \in 1 .. Len(q), q[i] \in S PROVE x \in S \/ Has(r, S)
    <3>1. CASE i = 1 BY <3>1, <2>1, <1>1
    <3>2. CASE i # 1
      <4>1. i \in 2 .. Len(q) BY <3>2, <1>1
      <4> QED BY <4>1, <2>1, <1>2 DEF Has
    <3> QED BY <3>1, <3>2
  <2>2. x \in S => Has(q, S) BY <1>1 DEF Has
  <2>3. ASSUME NEW i \in 1 .. Len(r), r[i] \in S PROVE Has(q, S)
    <3>1. i + 1 \in 1 .. Len(q) /\ q[i + 1] \in S BY <2>3, <1>1
    <3> QED BY <3>1 DEF Has
  <2> QED BY <2>1, <2>2, <2>3 DEF Has
<1>5. ASSUME NEW S PROVE One(q, S) <=> One(r, S) /\ ~(x \in S /\ Has(r, S))
  <2>1. ASSUME One(q, S), NEW i \in 1 .. Len(r), NEW j \in 1 .. Len(r), r[i] \in S, r[j] \in S PROVE i = j
    <3>1. i + 1 \in 1 .. Len(q) /\ j + 1 \in 1 .. Len(q) /\ q[i + 1] \in S /\ q[j + 1] \in S
      BY <2>1, <1>1
    <3>2. i + 1 = j + 1 BY <3>1, <2>1 DEF One
    <3> QED BY <3>2
  <2>2. ASSUME One(q, S), x \in S, NEW i \in 1 .. Len(r), r[i] \in S PROVE FALSE
    <3>1. i + 1 \in 1 .. Len(q) /\ 1 \in 1 .. Len(q) /\ q[i + 1] \in S /\ q[1] \in S
      BY <2>2, <1>1
    <3>2. i + 1 = 1 BY <3>1, <2>2 DEF One
    <3> QED BY <3>2
  <2>3. ASSUME One(r, S), ~(x \in S /\ Has(r, S)), NEW i \in 1 .. Len(q), NEW j \in 1 .. Len(q),
               q[i] \in S, q[j] \in S
        PROVE  i = j
    <3>1. CASE i = 1 /\ j = 1 BY <3>1
    <3>2. CASE i = 1 /\ j # 1
      <4>1. j \in 2 .. Len(q) BY <3>2, <1>1
      <4> QED BY <4>1, <3>2, <2>3, <1>1, <1>2 DEF Has
    <3>3. CASE i # 1 /\ j = 1
      <4>1. i \in 2 .. Len(q) BY <3>3, <1>1
      <4> QED BY <4>1, <3>3, <2>3, <1>1, <1>2 DEF Has
    <3>4. CASE i # 1 /\ j # 1
      <4>1. i \in 2 .. Len(q) /\ j \in 2 .. Len(q) BY <3>4, <1>1
      <4>2. i - 1 = j - 1 BY <4>1, <2>3, <1>2 DEF One
      <4> QED BY <4>1, <4>2
    <3> QED BY <3>1, <3>2, <3>3, <3>4
  <2> QED BY <2>1, <2>2, <2>3 DEF One, Has
<1>6. ASSUME NEW S PROVE Only(q, S) <=> x \in S /\ Only(r, S)
  <2>1. Only(q, S) => x \in S /\ Only(r, S) BY <1>1, <1>3 DEF Only
  <2>2. ASSUME x \in S, Only(r, S), NEW i \in 1 .. Len(q) PROVE q[i] \in S
    <3>1. CASE i = 1 BY <3>1, <2>2, <1>1
    <3>2. CASE i # 1
      <4>1. i \in 2 .. Len(q) BY <3>2, <1>1
      <4> QED BY <4>1, <2>2, <1>2 DEF Only
    <3> QED BY <3>1, <3>2
  <2> QED BY <2>1, <2>2 DEF Only
<1> QED BY <1>1, <1>4, <1>5, <1>6 DEF Adds, r, x

(* r is the queue q followed by things in K.                                *)
Grows(q, r, K) ==
  /\ r \in Seq(Calls) /\ Len(q) <= Len(r)
  /\ \A i \in 1 .. Len(q) : r[i] = q[i]
  /\ \A i \in 1 .. Len(r) : i > Len(q) => r[i] \in K

(* A queue grows twice.                                                     *)
LEMMA GrowsTrans ==
  ASSUME NEW q \in Seq(Calls), NEW r, NEW s, NEW K, NEW L, Grows(q, r, K), Grows(r, s, L)
  PROVE  Grows(q, s, K \cup L)
<1>1. Len(q) \in Nat /\ Len(r) \in Nat /\ Len(s) \in Nat BY DEF Grows
<1>2. ASSUME NEW i \in 1 .. Len(s), i > Len(q) PROVE s[i] \in K \cup L
  BY <1>1, <1>2 DEF Grows
<1> QED BY <1>1, <1>2 DEF Grows

(* It grows by fewer kinds of calls.                                        *)
LEMMA GrowsMore ==
  ASSUME NEW q, NEW r, NEW K, NEW L, Grows(q, r, K), K \subseteq L
  PROVE  Grows(q, r, L)
BY DEF Grows

(* It grows by nothing.                                                     *)
LEMMA GrowsSame == ASSUME NEW q \in Seq(Calls), NEW K PROVE Grows(q, q, K)
BY DEF Grows

(* It grows by one call.                                                    *)
LEMMA GrowsAppend ==
  ASSUME NEW q \in Seq(Calls), NEW x \in Calls, NEW K, x \in K
  PROVE  Grows(q, Append(q, x), K)
BY DEF Grows

(* It grows by several.                                                     *)
LEMMA GrowsConcat ==
  ASSUME NEW q \in Seq(Calls), NEW r \in Seq(Calls), NEW K, Only(r, K)
  PROVE  Grows(q, q \o r, K)
<1>1. /\ q \o r \in Seq(Calls) /\ Len(q \o r) = Len(q) + Len(r) /\ Len(q) \in Nat /\ Len(r) \in Nat
      /\ \A i \in 1 .. Len(q) : (q \o r)[i] = q[i]
      /\ \A i \in (Len(q) + 1) .. (Len(q) + Len(r)) : (q \o r)[i] = r[i - Len(q)]
  OBVIOUS
<1> QED BY <1>1 DEF Grows, Only

(* What a queue that grew still has, and still has once.                    *)
LEMMA GrownQueue ==
  ASSUME NEW q \in Seq(Calls), NEW r, NEW K, Grows(q, r, K), NEW S
  PROVE  /\ r \in Seq(Calls)
         /\ Has(q, S) => Has(r, S)
         /\ One(r, S) => One(q, S)
         /\ Only(r, S) => Only(q, S)
         /\ S \cap K = {} => (Has(r, S) <=> Has(q, S)) /\ (One(r, S) <=> One(q, S))
         /\ K \subseteq S /\ Only(q, S) => Only(r, S)
<1>1. Len(q) \in Nat /\ Len(r) \in Nat /\ \A i \in 1 .. Len(q) : i \in 1 .. Len(r) BY DEF Grows
<1>2. Has(q, S) => Has(r, S) BY <1>1 DEF Grows, Has
<1>3. One(r, S) => One(q, S) BY <1>1 DEF Grows, One
<1>4. Only(r, S) => Only(q, S) BY <1>1 DEF Grows, Only
<1>5. ASSUME S \cap K = {}, NEW i \in 1 .. Len(r), r[i] \in S PROVE i \in 1 .. Len(q) /\ q[i] \in S
  BY <1>1, <1>5 DEF Grows
<1>6. S \cap K = {} => (Has(r, S) <=> Has(q, S)) BY <1>2, <1>5 DEF Has
<1>7. S \cap K = {} => (One(r, S) <=> One(q, S)) BY <1>3, <1>5 DEF One
<1>8. K \subseteq S /\ Only(q, S) => Only(r, S) BY <1>1 DEF Grows, Only
<1> QED BY <1>2, <1>3, <1>4, <1>6, <1>7, <1>8 DEF Grows

(* The smallest number of a set; what Kept computes, and what it keeps.     *)
LEMMA LeastOne ==
  ASSUME NEW S \in SUBSET Nat, S # {}
  PROVE  \E n \in S : \A m \in S : n <= m
<1> DEFINE R == OpToRel(<, Nat)
<1>1. IsWellFoundedOn(R, Nat) BY NatLessThanWellFounded
<1>2. \A m, n \in Nat : m < n => <<m, n>> \in R BY DEF OpToRel
<1> HIDE DEF R
<1>3. PICK n \in S : \A m \in S : ~(<<m, n>> \in R) BY <1>1, WFMin
<1>4. \A m \in S : n <= m
  <2> SUFFICES ASSUME NEW m \in S, ~(n <= m) PROVE FALSE OBVIOUS
  <2>1. m < n /\ m \in Nat /\ n \in Nat OBVIOUS
  <2> QED BY <2>1, <1>2, <1>3
<1> QED BY <1>4

(* r is the elements of the first n of s that are in S, in their order.     *)
Selects(s, S, n, r) ==
  \E e \in [1 .. Len(r) -> 1 .. n] :
    /\ \A i \in 1 .. Len(r) : r[i] = s[e[i]] /\ s[e[i]] \in S
    /\ \A i, j \in 1 .. Len(r) : i < j => e[i] < e[j]
    /\ \A k \in 1 .. n : s[k] \in S => \E i \in 1 .. Len(r) : e[i] = k

(* One more element of s.                                                   *)
More(s, S, k, r) == IF s[k] \in S THEN Append(r, s[k]) ELSE r

(* One step of Kept: the result for k from that for k - 1.                  *)
LEMMA SelectsMore ==
  ASSUME NEW T, NEW s \in Seq(T), NEW S, NEW k \in 1 .. Len(s), NEW r \in Seq(T),
         Selects(s, S, k - 1, r)
  PROVE  More(s, S, k, r) \in Seq(T) /\ Selects(s, S, k, More(s, S, k, r))
<1> PICK e \in [1 .. Len(r) -> 1 .. (k - 1)] :
      /\ \A i \in 1 .. Len(r) : r[i] = s[e[i]] /\ s[e[i]] \in S
      /\ \A i, j \in 1 .. Len(r) : i < j => e[i] < e[j]
      /\ \A j \in 1 .. (k - 1) : s[j] \in S => \E i \in 1 .. Len(r) : e[i] = j
  BY DEF Selects
<1>1. s[k] \in T /\ Len(s) \in Nat /\ k \in Nat /\ Len(r) \in Nat OBVIOUS
<1>2. CASE s[k] \notin S
  <2>1. e \in [1 .. Len(r) -> 1 .. k] BY <1>1
  <2>2. \A j \in 1 .. k : s[j] \in S => \E i \in 1 .. Len(r) : e[i] = j BY <1>1, <1>2
  <2>3. Selects(s, S, k, r) BY <2>1, <2>2 DEF Selects
  <2> QED BY <2>3, <1>2 DEF More
<1>3. CASE s[k] \in S
  <2> DEFINE q == Append(r, s[k])
             f == [i \in 1 .. Len(q) |-> IF i = Len(q) THEN k ELSE e[i]]
  <2>1. /\ q \in Seq(T) /\ Len(q) = Len(r) + 1 /\ q[Len(q)] = s[k]
        /\ \A i \in 1 .. Len(r) : q[i] = r[i]
    BY <1>1
  <2> HIDE DEF q
  <2>2. \A i \in 1 .. Len(q) : i # Len(q) => i \in 1 .. Len(r) BY <2>1, <1>1
  <2>3. f \in [1 .. Len(q) -> 1 .. k] BY <2>1, <2>2, <1>1
  <2>4. \A i \in 1 .. Len(q) : f[i] = IF i = Len(q) THEN k ELSE e[i] OBVIOUS
  <2> HIDE DEF f
  <2>5. \A i \in 1 .. Len(q) : q[i] = s[f[i]] /\ s[f[i]] \in S BY <2>1, <2>2, <2>4, <1>3
  <2>6. ASSUME NEW i \in 1 .. Len(q), NEW j \in 1 .. Len(q), i < j PROVE f[i] < f[j]
    <3>1. i \in 1 .. Len(r) /\ f[i] = e[i] BY <2>6, <2>1, <2>4, <1>1
    <3>2. CASE j = Len(q)
      <4>1. e[i] \in 1 .. (k - 1) /\ f[j] = k BY <3>1, <3>2, <2>4
      <4> QED BY <4>1, <3>1, <1>1
    <3>3. CASE j # Len(q) BY <3>1, <3>3, <2>6, <2>2, <2>4
    <3> QED BY <3>2, <3>3
  <2>7. ASSUME NEW j \in 1 .. k, s[j] \in S PROVE \E i \in 1 .. Len(q) : f[i] = j
    <3>1. CASE j = k
      <4>1. Len(q) \in 1 .. Len(q) /\ f[Len(q)] = k BY <2>1, <2>4, <1>1
      <4> QED BY <4>1, <3>1
    <3>2. CASE j # k
      <4>1. j \in 1 .. (k - 1) BY <3>2, <1>1
      <4>2. PICK i \in 1 .. Len(r) : e[i] = j BY <4>1, <2>7
      <4>3. i \in 1 .. Len(q) /\ f[i] = e[i] BY <2>1, <2>4, <1>1
      <4> QED BY <4>2, <4>3
    <3> QED BY <3>1, <3>2
  <2>8. Selects(s, S, k, q) BY <2>3, <2>5, <2>6, <2>7 DEF Selects
  <2>9. More(s, S, k, r) = q BY <1>3 DEF More, q
  <2> QED BY <2>1, <2>8, <2>9
<1> QED BY <1>2, <1>3

(* A function on 0 .. n that selects more and more of s.                    *)
Selection(s, S, n, g) ==
  /\ g[0] = <<>>
  /\ \A k \in 1 .. n : g[k] = More(s, S, k, g[k - 1])

(* So each step of a selection selects.                                     *)
LEMMA Selected ==
  ASSUME NEW T, NEW s \in Seq(T), NEW S, NEW n \in 0 .. Len(s), NEW g, Selection(s, S, n, g),
         NEW k \in 0 .. n
  PROVE  g[k] \in Seq(T) /\ Selects(s, S, k, g[k])
<1> DEFINE Good(j) == g[j] \in Seq(T) /\ Selects(s, S, j, g[j])
           Bad == {j \in 0 .. n : ~Good(j)}
<1>1. Len(s) \in Nat /\ n \in Nat OBVIOUS
<1>2. Good(0)
  <2>1. Selects(s, S, 0, <<>>)
    <3> DEFINE e == [i \in 1 .. 0 |-> 0]
    <3>1. Len(<<>>) = 0 /\ e \in [1 .. 0 -> 1 .. 0] /\ \A i : i \notin 1 .. 0 OBVIOUS
    <3> HIDE DEF e
    <3> QED BY <3>1 DEF Selects
  <2> QED BY <2>1 DEF Selection
<1>3. ASSUME NEW j \in 1 .. n, Good(j - 1) PROVE Good(j)
  <2>1. g[j] = More(s, S, j, g[j - 1]) BY DEF Selection
  <2>2. j \in 1 .. Len(s) BY <1>1
  <2> QED BY <2>1, <2>2, <1>3, SelectsMore
<1> HIDE DEF Good
<1>4. ASSUME Bad # {} PROVE FALSE
  <2>1. Bad \in SUBSET Nat OBVIOUS
  <2>2. PICK j \in Bad : \A m \in Bad : j <= m BY <2>1, <1>4, LeastOne
  <2>3. j \in 1 .. n BY <1>2, <1>1
  <2>4. j - 1 \in 0 .. n /\ ~(j <= j - 1) BY <2>3, <1>1
  <2>5. Good(j - 1) BY <2>4, <2>2
  <2> QED BY <2>3, <2>5, <1>3
<1> QED BY <1>4 DEF Good

(* The equation of the function Kept defines.                               *)
Rule(s, S, g) == [k \in 0 .. Len(s) |-> IF k = 0 THEN <<>>
                                        ELSE IF s[k] \in S THEN Append(g[k - 1], s[k]) ELSE g[k - 1]]

(* A selection exists: recursion over the natural numbers.                  *)
LEMMA SelectionExists ==
  ASSUME NEW T, NEW s \in Seq(T), NEW S
  PROVE  \E g : g = Rule(s, S, g)
<1> DEFINE Good(n) == \E g : Selection(s, S, n, g)
           Bad == {n \in 0 .. Len(s) : ~Good(n)}
<1>1. Len(s) \in Nat OBVIOUS
<1>2. Good(0)
  <2>1. Selection(s, S, 0, [k \in {0} |-> <<>>]) BY DEF Selection
  <2> QED BY <2>1
<1>3. ASSUME NEW n \in 1 .. Len(s), Good(n - 1) PROVE Good(n)
  <2>1. PICK g : Selection(s, S, n - 1, g) BY <1>3
  <2> DEFINE h == [k \in 0 .. n |-> IF k = n THEN More(s, S, n, g[n - 1]) ELSE g[k]]
  <2>2. n \in Nat \ {0} BY <1>1
  <2>3. /\ h[0] = g[0] /\ h[n] = More(s, S, n, g[n - 1])
        /\ \A k \in 0 .. (n - 1) : h[k] = g[k]
    BY <2>2
  <2> HIDE DEF h
  <2>4. ASSUME NEW k \in 1 .. n PROVE h[k] = More(s, S, k, h[k - 1])
    <3>1. k - 1 \in 0 .. (n - 1) BY <2>2
    <3>2. CASE k = n BY <3>1, <3>2, <2>3
    <3>3. CASE k # n
      <4>1. k \in 0 .. (n - 1) /\ k \in 1 .. (n - 1) BY <3>3, <2>2
      <4> QED BY <4>1, <3>1, <2>1, <2>3 DEF Selection
    <3> QED BY <3>2, <3>3
  <2>5. Selection(s, S, n, h) BY <2>1, <2>3, <2>4 DEF Selection
  <2> QED BY <2>5
<1> HIDE DEF Good
<1>4. ASSUME Bad # {} PROVE FALSE
  <2>1. Bad \in SUBSET Nat BY <1>1
  <2>2. PICK j \in Bad : \A m \in Bad : j <= m BY <2>1, <1>4, LeastOne
  <2>3. j \in 1 .. Len(s) BY <1>2, <1>1
  <2>4. j - 1 \in 0 .. Len(s) /\ ~(j <= j - 1) BY <2>3, <1>1
  <2>5. Good(j - 1) BY <2>4, <2>2
  <2> QED BY <2>3, <2>5, <1>3
<1>5. PICK g : Selection(s, S, Len(s), g) BY <1>4, <1>1 DEF Good
<1> DEFINE h == [k \in 0 .. Len(s) |-> g[k]]
           d == Rule(s, S, h)
<1>6. ASSUME NEW k \in 0 .. Len(s) PROVE h[k] = d[k]
  <2>1. CASE k = 0 BY <2>1, <1>5 DEF Selection, Rule
  <2>2. CASE k # 0
    <3>1. k \in 1 .. Len(s) /\ k - 1 \in 0 .. Len(s) BY <2>2, <1>1
    <3>2. g[k] = More(s, S, k, g[k - 1]) BY <3>1, <1>5 DEF Selection
    <3> QED BY <3>1, <3>2, <2>2 DEF More, Rule
  <2> QED BY <2>1, <2>2
<1>7. h = d BY <1>6 DEF Rule
<1> QED BY <1>7

(* The last one is what Kept returns.                                       *)
LEMMA KeptSelects ==
  ASSUME NEW T, NEW s \in Seq(T), NEW S
  PROVE  Kept(s, S) \in Seq(T) /\ Selects(s, S, Len(s), Kept(s, S))
<1> DEFINE k == CHOOSE g : g = Rule(s, S, g)
<1>1. k = Rule(s, S, k) BY SelectionExists
<1>2. Kept(s, S) = k[Len(s)] BY DEF Kept, Rule
<1> HIDE DEF k
<1>3. Len(s) \in Nat OBVIOUS
<1>4. Selection(s, S, Len(s), k)
  <2>1. k[0] = <<>> BY <1>1, <1>3 DEF Rule
  <2>2. ASSUME NEW j \in 1 .. Len(s) PROVE k[j] = More(s, S, j, k[j - 1])
    <3>1. j \in 0 .. Len(s) /\ j # 0 BY <1>3
    <3> QED BY <3>1, <1>1 DEF More, Rule
  <2> QED BY <2>1, <2>2 DEF Selection
<1> QED BY <1>2, <1>3, <1>4, Selected

(* Kept(s, S) has the elements of s in S, each as often as s at most.       *)
LEMMA KeptRange ==
  ASSUME NEW T, NEW s \in Seq(T), NEW S
  PROVE  /\ Kept(s, S) \in Seq(T) /\ Range(Kept(s, S)) = Range(s) \cap S
         /\ Distinct(s) => Distinct(Kept(s, S))
<1> DEFINE r == Kept(s, S)
<1>1. r \in Seq(T) /\ Selects(s, S, Len(s), r) BY KeptSelects
<1> HIDE DEF r
<1>2. PICK e \in [1 .. Len(r) -> 1 .. Len(s)] :
        /\ \A i \in 1 .. Len(r) : r[i] = s[e[i]] /\ s[e[i]] \in S
        /\ \A i, j \in 1 .. Len(r) : i < j => e[i] < e[j]
        /\ \A k \in 1 .. Len(s) : s[k] \in S => \E i \in 1 .. Len(r) : e[i] = k
  BY <1>1 DEF Selects
<1>3. DOMAIN r = 1 .. Len(r) /\ DOMAIN s = 1 .. Len(s) /\ Len(r) \in Nat /\ Len(s) \in Nat BY <1>1
<1>4. Range(r) = Range(s) \cap S
  <2>1. ASSUME NEW x \in Range(r) PROVE x \in Range(s) \cap S
    <3>1. PICK i \in 1 .. Len(r) : x = r[i] BY <1>3 DEF Range
    <3>2. e[i] \in 1 .. Len(s) BY <3>1
    <3> QED BY <3>1, <3>2, <1>2, <1>3 DEF Range
  <2>2. ASSUME NEW x \in Range(s) \cap S PROVE x \in Range(r)
    <3>1. PICK k \in 1 .. Len(s) : x = s[k] BY <1>3 DEF Range
    <3>2. PICK i \in 1 .. Len(r) : e[i] = k BY <3>1, <1>2
    <3> QED BY <3>1, <3>2, <1>2, <1>3 DEF Range
  <2> QED BY <2>1, <2>2
<1>5. ASSUME Distinct(s), NEW i \in 1 .. Len(r), NEW j \in 1 .. Len(r), r[i] = r[j] PROVE i = j
  <2>1. e[i] = e[j] BY <1>5, <1>2 DEF Distinct
  <2>2. e[i] \in Nat /\ i \in Nat /\ j \in Nat BY <1>2, <1>3
  <2> QED BY <2>1, <2>2, <1>2
<1> QED BY <1>1, <1>4, <1>5 DEF r, Distinct

(* Kept finds what a queue holds of a kind, when it holds one at most.      *)
LEMMA KeptOne ==
  ASSUME NEW q \in Seq(Calls), NEW S
  PROVE  /\ ~Has(q, S) => Kept(q, S) = <<>>
         /\ Has(q, S) /\ One(q, S) => Len(Kept(q, S)) = 1 /\ Kept(q, S)[1] \in S /\ Has(q, {Kept(q, S)[1]})
<1> DEFINE r == Kept(q, S)
<1>1. r \in Seq(Calls) /\ Selects(q, S, Len(q), r) BY KeptSelects
<1> HIDE DEF r
<1>2. PICK e \in [1 .. Len(r) -> 1 .. Len(q)] :
        /\ \A i \in 1 .. Len(r) : r[i] = q[e[i]] /\ q[e[i]] \in S
        /\ \A i, j \in 1 .. Len(r) : i < j => e[i] < e[j]
        /\ \A k \in 1 .. Len(q) : q[k] \in S => \E i \in 1 .. Len(r) : e[i] = k
  BY <1>1 DEF Selects
<1>3. Len(r) \in Nat /\ Len(q) \in Nat BY <1>1
<1>4. ASSUME ~Has(q, S) PROVE r = <<>>
  <2>1. Len(r) = 0
    <3> SUFFICES ASSUME Len(r) # 0 PROVE FALSE OBVIOUS
    <3>1. 1 \in 1 .. Len(r) BY <1>3
    <3> QED BY <3>1, <1>2, <1>4 DEF Has
  <2> QED BY <2>1, <1>1
<1>5. ASSUME Has(q, S), One(q, S) PROVE Len(r) = 1 /\ r[1] \in S /\ Has(q, {r[1]})
  <2>1. PICK i \in 1 .. Len(r) : r[i] \in S BY <1>5, <1>2 DEF Has
  <2>2. 1 \in 1 .. Len(r) BY <2>1, <1>3
  <2>3. Len(r) = 1
    <3> SUFFICES ASSUME Len(r) # 1 PROVE FALSE OBVIOUS
    <3>1. \A n \in Nat : 1 \in 1 .. n /\ n # 1 => 2 \in 1 .. n OBVIOUS
    <3>3. 2 \in 1 .. Len(r) BY <3>1, <2>2, <1>3
    <3>4. e[1] < e[2] /\ e[1] \in 1 .. Len(q) /\ e[2] \in 1 .. Len(q) BY <2>2, <3>3, <1>2
    <3>5. e[1] = e[2] BY <3>3, <3>4, <2>2, <1>2, <1>5 DEF One
    <3> QED BY <3>4, <3>5, <1>3
  <2> QED BY <2>2, <2>3, <1>2 DEF Has
<1> QED BY <1>4, <1>5 DEF r

-----------------------------------------------------------------------------
(* What the operators on the client's memory change.                        *)
Edits(a, b, F) == b \in Memory /\ \A f \in Fields \ F : b[f] = a[f]

(* Edits of some fields, then of others.                                    *)
LEMMA EditsTrans ==
  ASSUME NEW a, NEW b, NEW d, NEW F, NEW G, Edits(a, b, F), Edits(b, d, G)
  PROVE  Edits(a, d, F \cup G)
BY DEF Edits

(* Each field, edited.                                                      *)
LEMMA EditTask ==
  ASSUME NEW a \in Memory, NEW v \in [Tasks -> TaskTypes], NEW b, b = [a EXCEPT !.task = v]
  PROVE  Edits(a, b, {"task"}) /\ b.task = v
BY DEF Edits, Fields, Memory

LEMMA EditAbort ==
  ASSUME NEW a \in Memory, NEW v \in Asserts, NEW b, b = [a EXCEPT !.abort = v]
  PROVE  Edits(a, b, {"abort"}) /\ b.abort = v
BY DEF Edits, Fields, Memory

LEMMA EditCalls ==
  ASSUME NEW a \in Memory, NEW v \in Seq(Calls), NEW b, b = [a EXCEPT !.calls = v]
  PROVE  Edits(a, b, {"calls"}) /\ b.calls = v
BY DEF Edits, Fields, Memory

LEMMA EditLayer ==
  ASSUME NEW a \in Memory, NEW v \in [Layers -> LayerStates], NEW b, b = [a EXCEPT !.layer = v]
  PROVE  Edits(a, b, {"layer"}) /\ b.layer = v
BY DEF Edits, Fields, Memory

LEMMA EditCurrent ==
  ASSUME NEW a \in Memory, NEW v \in (Tasks \ Q12) \cup {None}, NEW b, b = [a EXCEPT !.current = v]
  PROVE  Edits(a, b, {"current"}) /\ b.current = v
BY DEF Edits, Fields, Memory

LEMMA EditQ0 ==
  ASSUME NEW a \in Memory, NEW v \in Seq(Tasks \ Q12), NEW b, b = [a EXCEPT !.q0 = v]
  PROVE  Edits(a, b, {"q0"}) /\ b.q0 = v
BY DEF Edits, Fields, Memory

LEMMA EditQ12 ==
  ASSUME NEW a \in Memory, NEW v \in Seq(Q12), NEW b, b = [a EXCEPT !.q12 = v]
  PROVE  Edits(a, b, {"q12"}) /\ b.q12 = v
BY DEF Edits, Fields, Memory

(* The fields by name.                                                      *)
LEMMA FieldsOf ==
  ASSUME NEW a \in Memory
  PROVE  /\ a.calls \in Seq(Calls) /\ a.layer \in [Layers -> LayerStates]
         /\ a.data \in [Layers -> BOOLEAN] /\ a.conn \in ConnectionStates
         /\ a.session \in {"CLEAN", "CONTINUE"} /\ a.connect_handler \in BOOLEAN
         /\ a.shutdown_started \in BOOLEAN /\ a.task \in [Tasks -> TaskTypes]
         /\ a.current \in (Tasks \ Q12) \cup {None} /\ a.q0 \in Seq(Tasks \ Q12)
         /\ a.q12 \in Seq(Q12) /\ a.last_msg_id \in 0 .. (IdMod - 1)
         /\ a.keepalive_event \in BOOLEAN /\ a.saved \in Seq(Q12) /\ a.saved_id \in 0 .. (IdMod - 1)
         /\ a.recv \in Seq(AckMessages) /\ a.handlers \in Seq(SubTasks)
         /\ a.saved_handlers \in Seq(SubTasks) /\ a.queue \in Seq(OutMessages)
         /\ a.io \in {"idle", "connecting", "blocked"} /\ a.outcome \in [Tasks -> Seq({"OK", "ERR"})]
         /\ a.received \in Seq(Incoming) /\ a.told \in BOOLEAN /\ a.abort \in Asserts \cup {"none"}
BY DEF Memory

(* How far a task got, as Status says.                                      *)
WasOk(a, t) == IF a.outcome[t] # <<>> THEN a.outcome[t][1] = "OK"
               ELSE Has(a.calls, {k \in CallbackOf(t) : k.st = "OK"})
Fate(a, t) ==
  IF Heard(a, t)                        THEN IF WasOk(a, t) THEN "ok" ELSE "failed"
  ELSE IF a.task[t].cs = "none"         THEN "idle"
  ELSE IF a.task[t].cs = "freed"        THEN "dropped"
  ELSE IF a.task[t].session = "STORE"   THEN "stored"
  ELSE "accepted"

(* The calls the task engine makes: messages of tasks that are held, ...    *)
Own(a, m) ==
  /\ m.task \in UserTasks => a.task[m.task].cs # "none"
  /\ m.task \in Q12 => m.task \in Range(a.q12) /\ m.id = a.task[m.task].id
Plain(a) == {k \in With("codec", "push", "OK") : Own(a, k.arg)}
            \cup Kind("codec", "close") \cup Kind("user", "message")
            \cup {k \in Kind("top", "connect") : k.st # "OK"}
Loud(a) == Plain(a) \cup Kind("user", "callback")

(* From a to b the task engine changed the fields F and made such calls; no *)
(* task was added, and only the fate of x may have changed.                 *)
Narrow(a, b) ==
  /\ \A t \in Tasks : /\ b.task[t].id = a.task[t].id
                      /\ b.task[t].cs = "none" <=> a.task[t].cs = "none"
                      /\ a.task[t].cs = "freed" => b.task[t].cs = "freed"
  /\ Range(b.q12) \subseteq Range(a.q12) /\ Queued(b) \subseteq Queued(a)
Moves(a, b, F, x) ==
  /\ b \in Memory
  /\ b.abort = "none" =>
       /\ a.abort = "none" /\ \A f \in Fields \ F : b[f] = a[f]
       /\ \A l \in {"io", "codec", "top"} : b.layer[l] = a.layer[l]
       /\ Grows(a.calls, b.calls, Loud(a)) /\ Narrow(a, b)
       /\ \A t \in UserTasks \ {x} : Fate(b, t) = Fate(a, t)
LightFields == {"calls", "layer", "task", "abort", "handlers"}
GoFields == LightFields \cup {"current", "q0", "q12", "recv"}

(* The task t is where the engine may resume it.                            *)
Ready(a, t) == a.abort = "none" => At(a, t) /\ a.task[t].cs \notin {"none", "freed"}
Good(a, x) == a.abort = "none" => BookBut(a, x)

(* What a plain call may be, when fewer tasks wait for their callback.      *)
LEMMA PlainMonotone ==
  ASSUME NEW a, NEW b, Narrow(a, b)
  PROVE  Plain(b) \subseteq Plain(a)
<1>1. ASSUME NEW k \in With("codec", "push", "OK"), Own(b, k.arg) PROVE Own(a, k.arg)
  <2>1. UserTasks \subseteq Tasks /\ Q12 \subseteq Tasks
    BY DEF UserTasks, Tasks, Q12, SubTasks, Internal
  <2> QED BY <2>1, <1>1 DEF Own, Narrow
<1> QED BY <1>1 DEF Plain

(* Two moves in a row, more fields, another task apart, none at all, and a  *)
(* failed assertion.                                                        *)
LEMMA MovesTrans ==
  ASSUME NEW a \in Memory, NEW b, NEW d, NEW F, NEW x, Moves(a, b, F, x), Moves(b, d, F, x)
  PROVE  Moves(a, d, F, x)
<1> SUFFICES ASSUME d.abort = "none"
             PROVE  /\ a.abort = "none" /\ \A f \in Fields \ F : d[f] = a[f]
                    /\ \A l \in {"io", "codec", "top"} : d.layer[l] = a.layer[l]
                    /\ Grows(a.calls, d.calls, Loud(a)) /\ Narrow(a, d)
                    /\ \A t \in UserTasks \ {x} : Fate(d, t) = Fate(a, t)
  BY DEF Moves
<1>1. b.abort = "none" /\ a.abort = "none" BY DEF Moves
<1>2. Narrow(a, b) /\ Narrow(b, d) BY <1>1 DEF Moves
<1>3. Narrow(a, d) BY <1>2 DEF Narrow
<1>4. Grows(a.calls, b.calls, Loud(a)) /\ Grows(b.calls, d.calls, Loud(a))
  BY <1>1, <1>2, PlainMonotone, GrowsMore DEF Moves, Loud
<1>5. Grows(a.calls, d.calls, Loud(a))
  BY <1>4, FieldsOf, GrowsTrans
<1>6. \A f \in Fields \ F : d[f] = a[f] BY <1>1 DEF Moves
<1>7. \A l \in {"io", "codec", "top"} : d.layer[l] = a.layer[l] BY <1>1 DEF Moves
<1>8. \A t \in UserTasks \ {x} : Fate(d, t) = Fate(a, t) BY <1>1 DEF Moves
<1> QED BY <1>1, <1>3, <1>5, <1>6, <1>7, <1>8

LEMMA MovesMore ==
  ASSUME NEW a, NEW b, NEW F, NEW G, NEW x, Moves(a, b, F, x), F \subseteq G
  PROVE  Moves(a, b, G, x)
BY DEF Moves

LEMMA MovesBut ==
  ASSUME NEW a, NEW b, NEW F, NEW x, Moves(a, b, F, None)
  PROVE  Moves(a, b, F, x)
<1>1. None \notin UserTasks BY TaskAssumption DEF UserTasks
<1>2. UserTasks \ {x} \subseteq UserTasks \ {None} BY <1>1
<1> QED BY <1>2 DEF Moves

LEMMA MovesSame ==
  ASSUME NEW a \in Memory, NEW F, NEW x
  PROVE  Moves(a, a, F, x)
<1>1. Grows(a.calls, a.calls, Loud(a)) BY FieldsOf, GrowsSame
<1> QED BY <1>1 DEF Moves, Narrow

LEMMA MovesAborted ==
  ASSUME NEW a, NEW b \in Memory, NEW F, NEW x, b.abort # "none"
  PROVE  Moves(a, b, F, x)
BY DEF Moves

-----------------------------------------------------------------------------
(* The names of the tasks.                                                  *)
LEMMA TaskNames ==
  /\ UserTasks \subseteq Tasks /\ Internal \subseteq Tasks /\ Q12 \subseteq Tasks
  /\ UserTasks \cap Internal = {} /\ None \notin Tasks /\ Tasks = UserTasks \cup Internal
  /\ Q12 \cap UserTasks = Q1 \cup Subs /\ Q12 \cap Internal = {"control"} /\ Q0 \cap Q12 = {}
  /\ Internal = {"connect", "keepalive", "shutdown", "control"}
  /\ Incoming \cap Tasks = {} /\ None \notin Incoming
BY TaskAssumption DEF UserTasks, Tasks, Q12, SubTasks, Internal, None

(* None of the calls of the task engine is of these kinds.                  *)
LEMMA PlainIsNot ==
  ASSUME NEW a, NEW t
  PROVE  /\ CallbackOf(t) \cap Plain(a) = {} /\ PushOf(t) \cap Plain(a) = {} /\ Fresh \cap Plain(a) = {}
         /\ Inits \cap Plain(a) = {} /\ Tokens \cap Plain(a) = {} /\ Opened \cap Plain(a) = {}
         /\ LogicInits \cap Plain(a) = {} /\ \A l : Gone(l) \cap Plain(a) = {}
         /\ {k \in CallbackOf(t) : k.st = "OK"} \cap Plain(a) = {}
<1>1. ASSUME NEW k \in Plain(a)
      PROVE  /\ \/ k.layer = "codec" /\ k.fn = "push" /\ k.st = "OK"
                \/ k.layer = "codec" /\ k.fn = "close"
                \/ k.layer = "user" /\ k.fn = "message"
                \/ k.layer = "top" /\ k.fn = "connect" /\ k.st # "OK"
  BY DEF Plain, With, Kind
<1>2. ASSUME NEW k
      PROVE  /\ k \in CallbackOf(t) => k.layer = "user" /\ k.fn = "callback"
             /\ k \in PushOf(t) \/ k \in Fresh => k.layer \in {"top", "logic"} /\ k.fn = "push"
             /\ k \in Inits => \/ k.fn = "init"
                               \/ k.fn = "connect" /\ k.layer \in {"io", "codec", "logic"}
             /\ k \in LogicInits => k.fn = "init"
             /\ k \in Tokens => k.fn = "push" /\ (k.layer = "io" \/ k.st # "OK")
             /\ k \in Opened => k.layer = "top" /\ k.fn = "connect" /\ k.st = "OK"
             /\ \A l : k \in Gone(l) => k.fn = "close_externally"
  BY DEF CallbackOf, PushOf, Fresh, Inits, LogicInits, Tokens, Opened, Gone, With, Kind
<1>3. ASSUME NEW k \in Plain(a) PROVE k \notin CallbackOf(t) /\ k \notin PushOf(t) /\ k \notin Fresh
  BY <1>1, <1>2
<1>4. ASSUME NEW k \in Plain(a) PROVE k \notin Inits /\ k \notin LogicInits /\ k \notin Opened
  BY <1>1, <1>2
<1>5. ASSUME NEW k \in Plain(a) PROVE k \notin Tokens
  BY <1>1, <1>2
<1>6. ASSUME NEW k \in Plain(a), NEW l PROVE k \notin Gone(l)
  BY <1>1, <1>2
<1> QED BY <1>3, <1>4, <1>5, <1>6

(* What a light change does to the tasks: a few fields of each.             *)
TaskLight(a, b, x) ==
  \A t \in Tasks :
    /\ b.task[t].id = a.task[t].id
    /\ b.task[t].cs = "none" <=> a.task[t].cs = "none"
    /\ b.task[t].cs = "freed" <=> a.task[t].cs = "freed"
    /\ b.task[t].timeout => a.task[t].timeout \/ At(a, t)
    /\ \/ b.task[t].session = a.task[t].session
       \/ t = x /\ t \in Q12 /\ At(a, t) /\ a.task[t].session = "UNSET" /\ b.task[t].session = "STORE"

(* A fate is the same when the user hears nothing.                          *)
LEMMA FateSame ==
  ASSUME NEW a \in Memory, NEW b \in Memory, NEW t \in UserTasks, b.outcome = a.outcome,
         Grows(a.calls, b.calls, Plain(a)),
         b.task[t].cs = "none" <=> a.task[t].cs = "none",
         b.task[t].cs = "freed" <=> a.task[t].cs = "freed"
  PROVE  /\ Heard(b, t) <=> Heard(a, t)
         /\ WasOk(b, t) <=> WasOk(a, t)
         /\ (b.task[t].session = "STORE" <=> a.task[t].session = "STORE") => Fate(b, t) = Fate(a, t)
<1>1. a.calls \in Seq(Calls) BY FieldsOf
<1>2. Has(b.calls, CallbackOf(t)) <=> Has(a.calls, CallbackOf(t))
  BY <1>1, PlainIsNot, GrownQueue
<1>3. Has(b.calls, {k \in CallbackOf(t) : k.st = "OK"}) <=> Has(a.calls, {k \in CallbackOf(t) : k.st = "OK"})
  BY <1>1, PlainIsNot, GrownQueue
<1>4. (Heard(b, t) <=> Heard(a, t)) /\ (WasOk(b, t) <=> WasOk(a, t)) BY <1>2, <1>3 DEF Heard, WasOk
<1> QED BY <1>4 DEF Fate

Light(a, b, x) ==
  /\ Edits(a, b, LightFields)
  /\ b.abort = "none" =>
       /\ a.abort = "none"
       /\ \A l \in {"io", "codec", "top"} : b.layer[l] = a.layer[l]
       /\ Grows(a.calls, b.calls, Plain(a)) /\ TaskLight(a, b, x)

(* A light step frees nothing, and the bookkeeping stays right.             *)
LEMMA LightStep ==
  ASSUME NEW a \in Memory, NEW b, NEW x, Light(a, b, x)
  PROVE  /\ Moves(a, b, LightFields, x)
         /\ \A y : b.abort = "none" /\ BookBut(a, y) => BookBut(b, y)
         /\ \A t : At(b, t) <=> At(a, t)
<1>1. b \in Memory /\ Edits(a, b, LightFields) BY DEF Light, Edits
<1>2. /\ b.current = a.current /\ b.q0 = a.q0 /\ b.q12 = a.q12 /\ b.saved = a.saved
      /\ b.outcome = a.outcome
  BY <1>1 DEF Edits, Fields, LightFields
<1>3. Queued(b) = Queued(a) /\ (\A t : At(b, t) <=> At(a, t)) BY <1>2 DEF Queued, At
<1> SUFFICES ASSUME b.abort = "none"
             PROVE  /\ Moves(a, b, LightFields, x)
                    /\ \A y : BookBut(a, y) => BookBut(b, y)
  BY <1>1, <1>3, MovesAborted
<1>4. a.calls \in Seq(Calls) /\ Grows(a.calls, b.calls, Plain(a)) /\ TaskLight(a, b, x) BY FieldsOf DEF Light
<1>5. ASSUME NEW t \in UserTasks PROVE /\ Heard(b, t) <=> Heard(a, t)
                                       /\ t # x => Fate(b, t) = Fate(a, t)
  <2>1. t \in Tasks BY TaskNames
  <2>2. /\ b.task[t].cs = "none" <=> a.task[t].cs = "none"
        /\ b.task[t].cs = "freed" <=> a.task[t].cs = "freed"
        /\ t # x => b.task[t].session = a.task[t].session
    BY <2>1, <1>4 DEF TaskLight
  <2> QED BY <2>2, <1>1, <1>2, <1>4, FateSame
<1>6. Narrow(a, b) BY <1>2, <1>3, <1>4 DEF Narrow, TaskLight
<1>7. Moves(a, b, LightFields, x)
  <2>1. Grows(a.calls, b.calls, Loud(a)) BY <1>4, GrowsMore DEF Loud
  <2> QED BY <2>1, <1>1, <1>5, <1>6 DEF Moves, Edits, Light
<1>8. ASSUME NEW t
      PROVE  (Pending(b, t) <=> Pending(a, t)) /\ (One(b.calls, PushOf(t)) <=> One(a.calls, PushOf(t)))
  <2>1. PushOf(t) \cap Plain(a) = {} BY PlainIsNot
  <2> QED BY <2>1, <1>4, GrownQueue DEF Pending
<1>9. \A t : /\ Has(b.calls, CallbackOf(t)) <=> Has(a.calls, CallbackOf(t))
             /\ One(b.calls, CallbackOf(t)) <=> One(a.calls, CallbackOf(t))
  BY <1>4, PlainIsNot, GrownQueue
<1>10. ASSUME NEW y, BookBut(a, y) PROVE BookBut(b, y)
  <2>1. Timers(b) BY <1>3, <1>4, <1>10 DEF BookBut, Timers, TaskLight
  <2>2. Lives(b) BY <1>3, <1>4, <1>8, <1>10 DEF BookBut, Lives, TaskLight
  <2>3. Once(b) BY <1>2, <1>3, <1>8, <1>10 DEF BookBut, Once
  <2>4. Told(b, y)
    <3> SUFFICES ASSUME NEW t \in UserTasks
                 PROVE  /\ Heard(b, t) /\ t # y => b.task[t].cs = "freed"
                        /\ One(b.calls, CallbackOf(t)) /\ Len(b.outcome[t]) <= 1
                        /\ Has(b.calls, CallbackOf(t)) => b.outcome[t] = <<>>
      BY DEF Told
    <3>1. t \in Tasks BY TaskNames
    <3>2. b.task[t].cs = "freed" <=> a.task[t].cs = "freed" BY <3>1, <1>4 DEF TaskLight
    <3> QED BY <3>2, <1>2, <1>5, <1>9, <1>10 DEF BookBut, Told
  <2>5. Sessions1(b)
    <3>1. ASSUME NEW t \in UserTasks, b.task[t].session # "UNSET"
          PROVE  t \in Q1 \cup Subs /\ b.task[t].session = "STORE" /\ ~Pending(b, t)
      <4>1. t \in Tasks /\ None \notin Tasks BY TaskNames
      <4>2. \/ b.task[t].session = a.task[t].session
            \/ t \in Q12 /\ At(a, t) /\ b.task[t].session = "STORE"
        BY <4>1, <1>4 DEF TaskLight
      <4>3. t \in Q12 => t \in Q1 \cup Subs BY TaskNames
      <4>4. At(a, t) => ~Pending(a, t) BY <4>1, <1>10 DEF At, Queued, BookBut, Once
      <4> QED BY <4>2, <4>3, <4>4, <3>1, <1>8, <1>10 DEF BookBut, Sessions1
    <3>2. "control" \in Tasks BY TaskNames
    <3>3. \/ b.task["control"].session = a.task["control"].session
          \/ a.task["control"].session = "UNSET"
      BY <3>2, <1>4 DEF TaskLight
    <3>4. ASSUME "control" \in Queued(b) \/ Pending(b, "control")
          PROVE  b.task["control"].session = "DO_NOT_STORE"
      <4>1. a.task["control"].session = "DO_NOT_STORE"
        BY <3>4, <1>3, <1>8, <1>10 DEF BookBut, Sessions1
      <4> QED BY <4>1, <3>3
    <3> QED BY <3>1, <3>4, <1>2, <1>10 DEF BookBut, Sessions1
  <2> QED BY <2>1, <2>2, <2>3, <2>4, <2>5 DEF BookBut
<1> QED BY <1>7, <1>10

-----------------------------------------------------------------------------
(* b is a after light changes, and t is still where it was.                 *)
Led(a, b, t) == b \in Memory /\ Light(a, b, t) /\ Ready(b, t)

(* Light steps in a row, after the task was led or before.                  *)
LEMMA LightTrans ==
  ASSUME NEW a \in Memory, NEW b, NEW d, NEW x, Light(a, b, x), Light(b, d, x)
  PROVE  Light(a, d, x)
<1>1. b \in Memory /\ d \in Memory /\ Edits(a, d, LightFields)
  BY EditsTrans DEF Light, Edits
<1> SUFFICES ASSUME d.abort = "none"
             PROVE  /\ a.abort = "none" /\ \A l \in {"io", "codec", "top"} : d.layer[l] = a.layer[l]
                    /\ Grows(a.calls, d.calls, Plain(a)) /\ TaskLight(a, d, x)
  BY <1>1 DEF Light
<1>2. b.abort = "none" /\ a.abort = "none" BY DEF Light
<1>3. Narrow(a, b) BY <1>2, LightStep DEF Moves
<1>4. Grows(a.calls, b.calls, Plain(a)) /\ Grows(b.calls, d.calls, Plain(a))
  BY <1>2, <1>3, PlainMonotone, GrowsMore DEF Light
<1>5. Grows(a.calls, d.calls, Plain(a) \cup Plain(a)) BY <1>4, FieldsOf, GrowsTrans
<1>6. TaskLight(a, b, x) /\ TaskLight(b, d, x) BY <1>2 DEF Light
<1>7. \A t : At(b, t) <=> At(a, t) BY LightStep
<1>8. TaskLight(a, d, x) BY <1>6, <1>7 DEF TaskLight
<1>9. \A l \in {"io", "codec", "top"} : d.layer[l] = a.layer[l] BY <1>2 DEF Light
<1> QED BY <1>2, <1>5, <1>8, <1>9

LEMMA LedSame ==
  ASSUME NEW a \in Memory, NEW t, Ready(a, t)
  PROVE  Led(a, a, t)
<1>1. Grows(a.calls, a.calls, Plain(a)) BY FieldsOf, GrowsSame
<1>2. Edits(a, a, LightFields) BY DEF Edits
<1>3. TaskLight(a, a, t) BY DEF TaskLight
<1> QED BY <1>1, <1>2, <1>3 DEF Led, Light

LEMMA LedTrans ==
  ASSUME NEW a \in Memory, NEW b, NEW d, NEW t, Led(a, b, t), Light(b, d, t)
  PROVE  Led(a, d, t)
<1>1. b \in Memory /\ Light(a, b, t) /\ Ready(b, t) BY DEF Led
<1>2. Light(a, d, t) BY <1>1, LightTrans
<1>3. d \in Memory BY DEF Light, Edits
<1>4. ASSUME d.abort = "none" PROVE At(d, t) /\ d.task[t].cs \notin {"none", "freed"}
  <2>1. b.abort = "none" /\ TaskLight(b, d, t) BY <1>4 DEF Light
  <2>2. At(b, t) /\ b.task[t].cs \notin {"none", "freed"} BY <2>1, <1>1 DEF Ready
  <2>3. At(d, t) BY <2>2, <1>1, LightStep
  <2>4. t \in Tasks BY <2>2 DEF At
  <2> QED BY <2>1, <2>2, <2>3, <2>4 DEF TaskLight
<1> QED BY <1>2, <1>3, <1>4 DEF Led, Ready

(* One record of the tasks, replaced.                                       *)
LEMMA LightTask ==
  ASSUME NEW b \in Memory, NEW t \in Tasks, Ready(b, t), NEW r \in TaskTypes, NEW d,
         d = [b EXCEPT !.task = [@ EXCEPT ![t] = r]],
         r.id = b.task[t].id, r.cs \notin {"none", "freed"},
         \/ r.session = b.task[t].session
         \/ t \in Q12 /\ b.task[t].session = "UNSET" /\ r.session = "STORE"
  PROVE  Light(b, d, t)
<1> DEFINE v == [b.task EXCEPT ![t] = r]
<1>1. b.task \in [Tasks -> TaskTypes] BY FieldsOf
<1>2. v \in [Tasks -> TaskTypes] /\ v[t] = r /\ \A u \in Tasks : u # t => v[u] = b.task[u]
  BY <1>1
<1>3. d = [b EXCEPT !.task = v] OBVIOUS
<1> HIDE DEF v
<1>4. Edits(b, d, {"task"}) /\ d.task = v
  <2>1. v \in [Tasks -> TaskTypes] BY <1>2
  <2> QED BY ONLY b \in Memory, <2>1, <1>3, EditTask
<1>5. Edits(b, d, LightFields) /\ d.abort = b.abort /\ d.layer = b.layer /\ d.calls = b.calls
  BY <1>4 DEF Edits, LightFields, Fields
<1>6. Grows(b.calls, d.calls, Plain(b)) BY <1>5, FieldsOf, GrowsSame
<1>7. ASSUME b.abort = "none" PROVE TaskLight(b, d, t)
  <2>1. At(b, t) /\ b.task[t].cs \notin {"none", "freed"} BY <1>7 DEF Ready
  <2> QED BY <2>1, <1>2, <1>4 DEF TaskLight
<1> QED BY <1>5, <1>6, <1>7 DEF Light

(* Setting the state or the timer of the task that is led.                  *)
LEMMA LedTask ==
  ASSUME NEW a \in Memory, NEW b, NEW t \in Tasks, Led(a, b, t)
  PROVE  /\ Led(a, CancelTimeout(b, t), t) /\ Led(a, ArmTimeout(b, t), t)
         /\ \A v \in {"new", "sending", "waiting", "retry"} : Led(a, [b EXCEPT !.task[t].cs = v], t)
<1>1. b \in Memory /\ Ready(b, t) /\ b.task[t] \in TaskTypes BY FieldsOf DEF Led
<1>2. ASSUME b.abort # "none", NEW d \in Memory, Edits(b, d, {"task"}) PROVE Light(b, d, t)
  BY <1>2 DEF Light, Edits, LightFields, Fields
<1>3. ASSUME NEW r \in TaskTypes, r.id = b.task[t].id, r.session = b.task[t].session,
             r.cs = b.task[t].cs \/ r.cs \notin {"none", "freed"},
             NEW d, d = [b EXCEPT !.task = [@ EXCEPT ![t] = r]]
      PROVE  Led(a, d, t)
  <2>1. CASE b.abort # "none"
    <3> DEFINE v == [b.task EXCEPT ![t] = r]
    <3>1. v \in [Tasks -> TaskTypes] BY <1>1, FieldsOf
    <3>2. d = [b EXCEPT !.task = v] BY <1>3
    <3> HIDE DEF v
    <3>3. Edits(b, d, {"task"}) BY <3>1, <3>2, <1>1, EditTask
    <3>4. d \in Memory BY <3>3 DEF Edits
    <3> QED BY <3>3, <3>4, <2>1, <1>2, LedTrans
  <2>2. CASE b.abort = "none"
    <3>1. r.cs \notin {"none", "freed"} BY <2>2, <1>1, <1>3 DEF Ready
    <3> QED BY <3>1, <1>1, <1>3, LightTask, LedTrans
  <2> QED BY <2>1, <2>2
<1>4. \A x \in BOOLEAN : LET r == [b.task[t] EXCEPT !.timeout = x]
                         IN  r \in TaskTypes /\ r.id = b.task[t].id /\ r.session = b.task[t].session
                             /\ r.cs = b.task[t].cs
  BY <1>1 DEF TaskTypes
<1>5. \A v \in Coroutine : LET r == [b.task[t] EXCEPT !.cs = v]
                           IN  r \in TaskTypes /\ r.id = b.task[t].id /\ r.session = b.task[t].session
                               /\ r.cs = v
  BY <1>1 DEF TaskTypes
<1>6. Led(a, CancelTimeout(b, t), t) BY <1>3, <1>4 DEF CancelTimeout
<1>7. Led(a, ArmTimeout(b, t), t) BY <1>3, <1>4 DEF ArmTimeout
<1>8. ASSUME NEW v \in {"new", "sending", "waiting", "retry"}
      PROVE  Led(a, [b EXCEPT !.task[t].cs = v], t)
  <2>1. v \in Coroutine BY DEF Coroutine
  <2> QED BY <2>1, <1>3, <1>5
<1> QED BY <1>6, <1>7, <1>8

(* An assertion.                                                            *)
LEMMA AssertNames ==
  /\ {"answer_without_task", "codec_init", "connect_start", "connect_without_message",
      "finalize_timer", "freed_with_timer", "freed_subscription", "keepalive_timer"} \subseteq Asserts
  /\ {"keepalive_written", "q0_with_message", "q1_start", "q1_timeout", "q1_written", "same_id",
      "same_recv_id", "saved_handlers"} \subseteq Asserts
  /\ {"subscribe_failed", "subscribe_resend_state", "subscribe_resend_timer", "subscribe_retry",
      "subscribe_timeout", "subscribe_written", "top_data"} \subseteq Asserts
BY DEF Asserts

(* A check that holds changes nothing, one that fails ends everything.      *)
LEMMA CheckIs ==
  ASSUME NEW b \in Memory, NEW h, NEW s \in Asserts
  PROVE  /\ Check(b, h, s) \in Memory /\ Edits(b, Check(b, h, s), {"abort"})
         /\ Check(b, h, s).abort = "none" => Check(b, h, s) = b /\ h
         /\ \A x : Light(b, Check(b, h, s), x)
<1> DEFINE d == Check(b, h, s)
<1>1. CASE h \/ b.abort # "none"
  <2>1. d = b BY <1>1 DEF Check
  <2>2. Grows(b.calls, b.calls, Plain(b)) BY FieldsOf, GrowsSame
  <2>3. Edits(b, b, {"abort"}) /\ Edits(b, b, LightFields) BY DEF Edits
  <2>4. \A x : TaskLight(b, b, x) BY DEF TaskLight
  <2> QED BY <1>1, <2>1, <2>2, <2>3, <2>4 DEF Light
<1>2. CASE ~(h \/ b.abort # "none")
  <2>1. d = [b EXCEPT !.abort = s] BY <1>2 DEF Check
  <2>2. Edits(b, d, {"abort"}) /\ d.abort = s BY <2>1, EditAbort
  <2>3. s # "none" BY DEF Asserts
  <2> QED BY <2>2, <2>3, <1>2 DEF Light, Edits, LightFields
<1> QED BY <1>1, <1>2

LEMMA LedCheck ==
  ASSUME NEW a \in Memory, NEW b, NEW t, Led(a, b, t), NEW h, NEW s \in Asserts
  PROVE  Led(a, Check(b, h, s), t)
BY CheckIs, LedTrans DEF Led

LEMMA LedNoTimer ==
  ASSUME NEW a \in Memory, NEW b, NEW t, Led(a, b, t), NEW s \in Asserts
  PROVE  Led(a, CheckNoTimer(b, t, s), t)
BY LedCheck DEF CheckNoTimer

-----------------------------------------------------------------------------
(* A call of a neighbour.                                                   *)
LEMMA ContinueIs ==
  ASSUME NEW b \in Memory, NEW from \in Layers, NEW to \in Layers, NEW fn, NEW arg, NEW st,
         [layer |-> to, fn |-> fn, arg |-> arg, st |-> st] \in Calls
  PROVE  LET d == ContinueWith(b, from, fn, to, arg, st)
             k == [layer |-> to, fn |-> fn, arg |-> arg, st |-> st]
         IN  /\ d \in Memory /\ Edits(b, d, {"calls", "layer"}) /\ d.calls = Append(b.calls, k)
             /\ d.layer = [b.layer EXCEPT ![from] = NextLayerState(fn, b.layer[from], st)]
<1> DEFINE k == [layer |-> to, fn |-> fn, arg |-> arg, st |-> st]
           s == NextLayerState(fn, b.layer[from], st)
           u == Append(b.calls, k)
           v == [b.layer EXCEPT ![from] = s]
           d == ContinueWith(b, from, fn, to, arg, st)
<1>1. b.calls \in Seq(Calls) /\ b.layer \in [Layers -> LayerStates] /\ b.layer[from] \in LayerStates
  BY FieldsOf
<1>2. s \in LayerStates BY <1>1 DEF NextLayerState, LayerStates
<1>3. u \in Seq(Calls) /\ v \in [Layers -> LayerStates]
  <2> HIDE DEF s
  <2> QED BY <1>1, <1>2
<1>4. to # "none" BY DEF Layers
<1>5. d = [b EXCEPT !.calls = u, !.layer = v] BY <1>4 DEF ContinueWith
<1> DEFINE e == [b EXCEPT !.calls = u]
<1>6. d = [e EXCEPT !.layer = v] BY <1>5 DEF Memory
<1> HIDE DEF u, v, d
<1>7. Edits(b, e, {"calls"}) /\ e.calls = u BY <1>3, EditCalls
<1>8. e \in Memory BY <1>7 DEF Edits
<1> HIDE DEF e
<1>9. Edits(e, d, {"layer"}) /\ d.layer = v BY <1>3, <1>6, <1>8, EditLayer
<1>10. Edits(b, d, {"calls", "layer"})
  <2>1. Edits(b, d, {"calls"} \cup {"layer"}) BY <1>7, <1>9, EditsTrans
  <2>2. {"calls"} \cup {"layer"} = {"calls", "layer"} OBVIOUS
  <2> QED BY <2>1, <2>2
<1>11. d.calls = u BY <1>7, <1>9 DEF Edits, Fields
<1> QED BY <1>9, <1>10, <1>11 DEF Edits, d, u, v

(* A call that is deferred is a light step.                                 *)
LEMMA LightCall ==
  ASSUME NEW b \in Memory, NEW to \in Layers, NEW fn, NEW arg, NEW st,
         b.abort = "none" => [layer |-> to, fn |-> fn, arg |-> arg, st |-> st] \in Plain(b),
         [layer |-> to, fn |-> fn, arg |-> arg, st |-> st] \in Calls, NEW x
  PROVE  Light(b, ContinueWith(b, "logic", fn, to, arg, st), x)
<1> DEFINE d == ContinueWith(b, "logic", fn, to, arg, st)
           k == [layer |-> to, fn |-> fn, arg |-> arg, st |-> st]
<1>1. "logic" \in Layers BY DEF Layers
<1>2. /\ Edits(b, d, {"calls", "layer"}) /\ d.calls = Append(b.calls, k)
      /\ d.layer = [b.layer EXCEPT !["logic"] = NextLayerState(fn, b.layer["logic"], st)]
  BY <1>1, ContinueIs
<1>3. \A l \in {"io", "codec", "top"} : d.layer[l] = b.layer[l]
  BY <1>2, FieldsOf DEF Layers
<1> HIDE DEF d
<1>4. Edits(b, d, LightFields) /\ d.abort = b.abort /\ d.task = b.task
  BY <1>2 DEF Edits, LightFields, Fields
<1>5. b.abort = "none" => Grows(b.calls, d.calls, Plain(b)) BY <1>2, FieldsOf, GrowsAppend
<1>6. TaskLight(b, d, x) BY <1>4 DEF TaskLight
<1> QED BY <1>3, <1>4, <1>5, <1>6 DEF Light, d

(* The message of a call that carries none.                                 *)
LEMMA NoMsgIs ==
  /\ NoMsg \in Messages /\ NoMsg.task = None /\ NoMsg.id = 0 /\ ~NoMsg.ok
  /\ \A t \in Tasks : /\ [NoMsg EXCEPT !.task = t] \in OutMessages
                      /\ [NoMsg EXCEPT !.task = t].task = t /\ [NoMsg EXCEPT !.task = t].id = 0
<1>1. IdMod \in Nat \ {0} BY TaskAssumption
<1>2. 0 \in 0 .. (IdMod - 1) BY <1>1
<1>3. NoMsg \in Messages /\ NoMsg.task = None /\ NoMsg.id = 0 /\ ~NoMsg.ok BY <1>2 DEF NoMsg, Messages
<1>4. ASSUME NEW t \in Tasks
      PROVE  /\ [NoMsg EXCEPT !.task = t] \in OutMessages
             /\ [NoMsg EXCEPT !.task = t].task = t /\ [NoMsg EXCEPT !.task = t].id = 0
  BY <1>2 DEF NoMsg, Messages, OutMessages
<1> QED BY <1>3, <1>4

(* The coroutines may close the layer, report a connection, and send a      *)
(* message.                                                                 *)
LEMMA LedClose ==
  ASSUME NEW a \in Memory, NEW b, NEW t, Led(a, b, t), NEW st \in Statuses
  PROVE  Led(a, OnPrev(b, "logic", "close", NoMsg, st), t)
<1>1. b \in Memory BY DEF Led
<1> DEFINE k == [layer |-> "codec", fn |-> "close", arg |-> NoMsg, st |-> st]
<1>2. k \in Calls /\ k \in Plain(b)
  BY NoMsgIs DEF Calls, CallTypes, Outward, FunctionNames, LayerFunctions, Layers, Plain, Kind
<1>3. "codec" \in Layers /\ Prev("logic") = "codec" BY DEF Layers, Prev
<1>4. Light(b, ContinueWith(b, "logic", "close", "codec", NoMsg, st), t) BY <1>1, <1>2, <1>3, LightCall
<1> QED BY <1>3, <1>4, LedTrans DEF OnPrev

LEMMA LedReport ==
  ASSUME NEW a \in Memory, NEW b, NEW t, Led(a, b, t), NEW st \in Statuses \ {"OK"}
  PROVE  Led(a, OnSucc(b, "logic", "connect", NoMsg, st), t)
<1>1. b \in Memory BY DEF Led
<1> DEFINE k == [layer |-> "top", fn |-> "connect", arg |-> NoMsg, st |-> st]
<1>2. k \in Calls /\ k \in Plain(b)
  BY NoMsgIs DEF Calls, CallTypes, Outward, FunctionNames, LayerFunctions, Layers, Plain, Kind
<1>3. "top" \in Layers /\ Succ("logic") = "top" BY DEF Layers, Succ
<1>4. Light(b, ContinueWith(b, "logic", "connect", "top", NoMsg, st), t) BY <1>1, <1>2, <1>3, LightCall
<1> QED BY <1>3, <1>4, LedTrans DEF OnSucc

LEMMA LedSend ==
  ASSUME NEW a \in Memory, NEW b, NEW t \in Tasks, Led(a, b, t)
  PROVE  Led(a, Send(b, t), t)
<1> DEFINE d == [b EXCEPT !.task[t].cs = "sending"]
           m == [task |-> t, id |-> b.task[t].id, ok |-> TRUE]
           k == [layer |-> "codec", fn |-> "push", arg |-> m, st |-> "OK"]
<1>1. b \in Memory /\ Led(a, d, t) /\ d \in Memory BY LedTask DEF Led
<1>2. b.task \in [Tasks -> TaskTypes] /\ b.task[t] \in TaskTypes BY <1>1, FieldsOf
<1>3. d.task[t] = [b.task[t] EXCEPT !.cs = "sending"] BY <1>1, <1>2 DEF Memory
<1>4. d.task[t].id = b.task[t].id /\ b.task[t].id \in 0 .. (IdMod - 1) BY <1>2, <1>3 DEF TaskTypes
<1>5. m \in Messages /\ m.task \in Tasks BY <1>4 DEF Messages
<1>6. k \in Calls
  BY <1>5 DEF Calls, CallTypes, Outward, FunctionNames, LayerFunctions, Layers, OutMessages, Statuses
<1>7. ASSUME d.abort = "none" PROVE k \in Plain(d)
  <2>1. At(d, t) /\ d.task[t].cs \notin {"none", "freed"} BY <1>1, <1>7 DEF Led, Ready
  <2>2. t \in Q12 => t \in Range(d.q12)
    <3>1. d.current \in (Tasks \ Q12) \cup {None} BY <1>1, FieldsOf
    <3>2. None \notin Q12 BY TaskNames
    <3> QED BY <2>1, <3>1, <3>2 DEF At
  <2>3. Own(d, m) BY <2>1, <2>2, <1>4 DEF Own
  <2> QED BY <2>3, <1>6 DEF Plain, With, Kind
<1>8. "codec" \in Layers /\ Prev("logic") = "codec" BY DEF Layers, Prev
<1> HIDE DEF d
<1>9. Light(d, ContinueWith(d, "logic", "push", "codec", m, "OK"), t)
  BY <1>1, <1>6, <1>7, <1>8, LightCall
<1>10. Send(b, t) = ContinueWith(d, "logic", "push", "codec", m, "OK")
  BY <1>8 DEF Send, OnPrev, d
<1> QED BY <1>1, <1>9, <1>10, LedTrans

(* A message that was written is stored.                                    *)
LEMMA LedWritten ==
  ASSUME NEW a \in Memory, NEW b, NEW t \in Q12, Led(a, b, t), NEW s \in Asserts
  PROVE  Led(a, MessageWritten(b, t, s), t)
<1> DEFINE e == CheckNoTimer(b, t, s)
           r == [[e.task[t] EXCEPT !.session = IF @ = "UNSET" THEN "STORE" ELSE @] EXCEPT !.cs = "waiting"]
           d == [e EXCEPT !.task[t].session = IF @ = "UNSET" THEN "STORE" ELSE @,
                          !.task[t].cs = "waiting"]
<1>1. Led(a, e, t) BY LedNoTimer
<1>2. t \in Tasks BY TaskNames
<1>3. e \in Memory /\ Ready(e, t) /\ e.task \in [Tasks -> TaskTypes] /\ e.task[t] \in TaskTypes
  BY <1>1, <1>2, FieldsOf DEF Led
<1> HIDE DEF e
<1>4. d = [e EXCEPT !.task = [@ EXCEPT ![t] = r]]
  BY <1>2, <1>3 DEF Memory
<1>5. r \in TaskTypes /\ r.id = e.task[t].id /\ r.cs = "waiting"
      /\ r.session = IF e.task[t].session = "UNSET" THEN "STORE" ELSE e.task[t].session
  BY <1>3 DEF TaskTypes, Coroutine
<1> HIDE DEF r, d
<1>6. Light(e, d, t)
  <2>1. CASE e.abort = "none" BY <1>2, <1>3, <1>4, <1>5, LightTask
  <2>2. CASE e.abort # "none"
    <3> DEFINE v == [e.task EXCEPT ![t] = r]
    <3>1. v \in [Tasks -> TaskTypes] /\ d = [e EXCEPT !.task = v] BY <1>3, <1>4, <1>5
    <3> HIDE DEF v
    <3>2. e \in Memory BY <1>3
    <3>3. Edits(e, d, {"task"}) BY ONLY <3>1, <3>2, EditTask
    <3> QED BY <3>3, <2>2 DEF Light, Edits, LightFields, Fields
  <2> QED BY <2>1, <2>2
<1>7. Led(a, d, t) BY <1>1, <1>6, LedTrans
<1>8. MessageWritten(b, t, s) = IF KeepAlive THEN ArmTimeout(d, t) ELSE d
  BY DEF MessageWritten, d, e
<1> QED BY <1>2, <1>7, <1>8, LedTask

(* The first run of a coroutine.                                            *)
LEMMA LedStart ==
  ASSUME NEW a \in Memory, NEW b, NEW t \in Tasks, Led(a, b, t)
  PROVE  Led(a, StartTask(b, t), t)
<1>1. Led(a, Send(b, t), t) /\ Led(a, CancelTimeout(b, t), t) BY LedSend, LedTask
<1>2. Led(a, Send(ArmTimeout(b, t), t), t) BY LedSend, LedTask
<1>3. Led(a, Send(CheckNoTimer(b, t, "connect_start"), t), t)
  BY AssertNames, LedNoTimer, LedSend
<1>4. CASE t \in Q0
  <2>1. StartTask(b, t) = IF NotOperational(b, "logic") \/ ~b.data["logic"] THEN b ELSE Send(b, t)
    BY <1>4, TaskNames DEF StartTask, UserTasks
  <2> QED BY <2>1, <1>1
<1>5. CASE t \notin Q0 /\ t = "connect"
  <2>1. StartTask(b, t) \in {CancelTimeout(b, t), Send(ArmTimeout(b, t), t),
                             Send(CheckNoTimer(b, t, "connect_start"), t)}
    BY <1>5 DEF StartTask
  <2> QED BY <2>1, <1>1, <1>2, <1>3
<1>6. CASE t \notin Q0 /\ t # "connect"
  <2>1. StartTask(b, t) = IF b.data["logic"] THEN Send(b, t) ELSE b BY <1>6 DEF StartTask
  <2> QED BY <2>1, <1>1
<1> QED BY <1>4, <1>5, <1>6

-----------------------------------------------------------------------------
(* The head and the end of a queue of tasks.                                *)
LEMMA RangeIs ==
  ASSUME NEW T, NEW q \in Seq(T)
  PROVE  Range(q) = {q[i] : i \in 1 .. Len(q)} /\ Range(q) \subseteq T
BY DEF Range

(* The elements of the rest of a sequence, and of one with an element more. *)
LEMMA RangeTail ==
  ASSUME NEW T, NEW q \in Seq(T), q # <<>>
  PROVE  /\ Tail(q) \in Seq(T) /\ Head(q) \in T /\ Range(q) = {Head(q)} \cup Range(Tail(q))
         /\ Distinct(q) => Head(q) \notin Range(Tail(q)) /\ Distinct(Tail(q))
<1> DEFINE r == Tail(q)
           x == Head(q)
<1>1. /\ r \in Seq(T) /\ x \in T /\ Len(r) = Len(q) - 1 /\ Len(q) \in Nat \ {0}
      /\ \A i \in 1 .. Len(r) : r[i] = q[i + 1]
      /\ x = q[1]
  OBVIOUS
<1>2. Range(r) = {r[i] : i \in 1 .. Len(r)} /\ Range(q) = {q[i] : i \in 1 .. Len(q)}
  BY <1>1, RangeIs
<1> HIDE DEF r, x
<1>3. \A i \in 2 .. Len(q) : i - 1 \in 1 .. Len(r) /\ r[i - 1] = q[i] BY <1>1
<1>4. \A i \in 1 .. Len(r) : i + 1 \in 2 .. Len(q) /\ i + 1 \in 1 .. Len(q) /\ i + 1 # 1 BY <1>1
<1>5. 1 \in 1 .. Len(q) /\ \A i \in 1 .. Len(q) : i = 1 \/ i \in 2 .. Len(q) BY <1>1
<1>6. Range(q) = {x} \cup Range(r)
  <2>1. ASSUME NEW y \in Range(q) PROVE y \in {x} \cup Range(r) BY <1>1, <1>2, <1>3, <1>5
  <2>2. ASSUME NEW y \in Range(r) PROVE y \in Range(q) BY <1>1, <1>2, <1>4
  <2>3. x \in Range(q) BY <1>1, <1>2, <1>5
  <2> QED BY <2>1, <2>2, <2>3
<1>7. ASSUME Distinct(q) PROVE x \notin Range(r) /\ Distinct(r)
  <2>1. x \notin Range(r) BY <1>1, <1>2, <1>4, <1>5, <1>7 DEF Distinct
  <2>2. ASSUME NEW i \in 1 .. Len(r), NEW j \in 1 .. Len(r), r[i] = r[j] PROVE i = j
    <3>1. i + 1 = j + 1 BY <1>1, <1>4, <1>7, <2>2 DEF Distinct
    <3> QED BY <3>1, <1>1
  <2> QED BY <2>1, <2>2 DEF Distinct
<1> QED BY <1>1, <1>6, <1>7 DEF r, x

LEMMA RangeAppend ==
  ASSUME NEW T, NEW q \in Seq(T), NEW x \in T
  PROVE  /\ Append(q, x) \in Seq(T) /\ Range(Append(q, x)) = Range(q) \cup {x}
         /\ Distinct(q) /\ x \notin Range(q) => Distinct(Append(q, x))
<1> DEFINE r == Append(q, x)
<1>1. /\ r \in Seq(T) /\ Len(r) = Len(q) + 1 /\ Len(q) \in Nat
      /\ \A i \in 1 .. Len(q) : r[i] = q[i]
      /\ r[Len(q) + 1] = x
  OBVIOUS
<1>2. Range(r) = {r[i] : i \in 1 .. Len(r)} /\ Range(q) = {q[i] : i \in 1 .. Len(q)}
  BY <1>1, RangeIs
<1> HIDE DEF r
<1>3. /\ \A i \in 1 .. Len(r) : i \in 1 .. Len(q) \/ i = Len(q) + 1
      /\ \A i \in 1 .. Len(q) : i \in 1 .. Len(r)
      /\ Len(q) + 1 \in 1 .. Len(r)
  BY <1>1
<1>4. Range(r) = Range(q) \cup {x}
  <2>1. ASSUME NEW y \in Range(r) PROVE y \in Range(q) \cup {x} BY <1>1, <1>2, <1>3
  <2>2. ASSUME NEW y \in Range(q) PROVE y \in Range(r) BY <1>1, <1>2, <1>3
  <2>3. x \in Range(r) BY <1>1, <1>2, <1>3
  <2> QED BY <2>1, <2>2, <2>3
<1>5. ASSUME Distinct(q), x \notin Range(q), NEW i \in 1 .. Len(r), NEW j \in 1 .. Len(r), r[i] = r[j]
      PROVE  i = j
  BY <1>1, <1>2, <1>3, <1>5 DEF Distinct
<1> QED BY <1>1, <1>4, <1>5 DEF Distinct, r

LEMMA RangeCons ==
  ASSUME NEW T, NEW q \in Seq(T), NEW x \in T
  PROVE  /\ <<x>> \o q \in Seq(T) /\ Range(<<x>> \o q) = Range(q) \cup {x}
         /\ Distinct(q) /\ x \notin Range(q) => Distinct(<<x>> \o q)
<1> DEFINE r == <<x>> \o q
<1>1. /\ r \in Seq(T) /\ Len(r) = Len(q) + 1 /\ Len(q) \in Nat
      /\ \A i \in 2 .. Len(r) : r[i] = q[i - 1]
      /\ r[1] = x
  OBVIOUS
<1>2. Range(r) = {r[i] : i \in 1 .. Len(r)} /\ Range(q) = {q[i] : i \in 1 .. Len(q)}
  BY <1>1, RangeIs
<1> HIDE DEF r
<1>3. /\ \A i \in 1 .. Len(r) : i = 1 \/ (i \in 2 .. Len(r) /\ i - 1 \in 1 .. Len(q))
      /\ \A i \in 1 .. Len(q) : i + 1 \in 2 .. Len(r) /\ i + 1 \in 1 .. Len(r) /\ r[i + 1] = q[i]
      /\ 1 \in 1 .. Len(r)
  BY <1>1
<1>4. Range(r) = Range(q) \cup {x}
  <2>1. ASSUME NEW y \in Range(r) PROVE y \in Range(q) \cup {x}
    <3>1. PICK i \in 1 .. Len(r) : y = r[i] BY <1>2
    <3>2. CASE i = 1 BY <3>1, <3>2, <1>1
    <3>3. CASE i # 1
      <4>1. i - 1 \in 1 .. Len(q) /\ y = q[i - 1] BY <3>1, <3>3, <1>1, <1>3
      <4> QED BY <4>1, <1>2
    <3> QED BY <3>2, <3>3
  <2>2. ASSUME NEW y \in Range(q) PROVE y \in Range(r) BY <1>1, <1>2, <1>3
  <2>3. x \in Range(r) BY <1>1, <1>2, <1>3
  <2> QED BY <2>1, <2>2, <2>3
<1>5. ASSUME Distinct(q), x \notin Range(q), NEW i \in 1 .. Len(r), NEW j \in 1 .. Len(r), r[i] = r[j]
      PROVE  i = j
  <2>1. CASE i = 1 \/ j = 1 BY <2>1, <1>1, <1>2, <1>3, <1>5
  <2>2. CASE i # 1 /\ j # 1
    <3>1. i - 1 \in 1 .. Len(q) /\ j - 1 \in 1 .. Len(q) /\ i \in 2 .. Len(r) /\ j \in 2 .. Len(r)
      BY <2>2, <1>3
    <3>2. q[i - 1] = q[j - 1] BY <3>1, <1>1, <1>5
    <3>3. i - 1 = j - 1 BY <3>1, <3>2, <1>5 DEF Distinct
    <3> QED BY <3>3, <1>1
  <2> QED BY <2>1, <2>2
<1> QED BY <1>1, <1>4, <1>5 DEF Distinct, r

-----------------------------------------------------------------------------
(* A task is freed.                                                         *)
LEMMA FreeIs ==
  ASSUME NEW a \in Memory, NEW t \in Tasks
  PROVE  LET b == FreeTask(a, t)
         IN  /\ b \in Memory /\ Edits(a, b, {"task", "abort"})
             /\ b.abort = "none" =>
                  /\ a.abort = "none" /\ ~a.task[t].timeout
                  /\ b.task = [a.task EXCEPT ![t] = [a.task[t] EXCEPT !.cs = "freed"]]
<1> DEFINE e == CheckNoTimer(a, t, "freed_with_timer")
           v == [e.task EXCEPT ![t] = [e.task[t] EXCEPT !.cs = "freed"]]
           b == FreeTask(a, t)
<1>1. e \in Memory /\ Edits(a, e, {"abort"}) /\ (e.abort = "none" => e = a /\ ~a.task[t].timeout)
  BY CheckIs, AssertNames DEF CheckNoTimer
<1> HIDE DEF e
<1>2. b = [e EXCEPT !.task = v] BY DEF FreeTask, e
<1>3. v \in [Tasks -> TaskTypes]
  <2>1. e.task \in [Tasks -> TaskTypes] /\ e.task[t] \in TaskTypes BY <1>1, FieldsOf
  <2>2. [e.task[t] EXCEPT !.cs = "freed"] \in TaskTypes BY <2>1 DEF TaskTypes, Coroutine
  <2> QED BY <2>1, <2>2
<1>4. e.abort = "none" => v = [a.task EXCEPT ![t] = [a.task[t] EXCEPT !.cs = "freed"]] BY <1>1
<1> HIDE DEF v, b
<1>5. Edits(e, b, {"task"}) /\ b.task = v
  <2>1. e \in Memory BY <1>1
  <2> QED BY ONLY <2>1, <1>2, <1>3, EditTask
<1>6. Edits(a, b, {"task", "abort"})
  <2>1. Edits(a, b, {"abort"} \cup {"task"}) BY <1>1, <1>5, EditsTrans
  <2>2. {"abort"} \cup {"task"} = {"task", "abort"} OBVIOUS
  <2> QED BY <2>1, <2>2
<1>7. b.abort = e.abort BY <1>5 DEF Edits, Fields
<1> QED BY <1>1, <1>4, <1>5, <1>6, <1>7 DEF Edits, b

(* From a to b, t was taken from where it was and freed.                    *)
Drops(a, b, t) ==
  /\ Edits(a, b, {"task", "current", "q12", "abort"})
  /\ b.abort = "none" =>
       /\ a.abort = "none" /\ At(a, t)
       /\ \A u \in Tasks \ {t} : b.task[u] = a.task[u]
       /\ b.task[t] = [a.task[t] EXCEPT !.cs = "freed", !.timeout = FALSE]
       /\ \/ t = a.current /\ b.current = None /\ b.q12 = a.q12
          \/ t \in Range(a.q12) /\ b.current = a.current /\ Range(b.q12) = Range(a.q12) \ {t}

(* A task that is dropped is out of the books.                              *)
LEMMA DropsBook ==
  ASSUME NEW a \in Memory, NEW b, NEW t \in Tasks, Drops(a, b, t), NEW x, Good(a, x)
  PROVE  /\ Moves(a, b, GoFields, t) /\ Good(b, x) /\ (x = t => Good(b, None))
         /\ b.abort = "none" =>
              /\ t \notin Queued(b) /\ b.task[t].cs = "freed" /\ b.outcome = a.outcome
              /\ b.calls = a.calls /\ b.q0 = a.q0
<1>1. b \in Memory BY DEF Drops, Edits
<1> SUFFICES ASSUME b.abort = "none"
             PROVE  /\ Moves(a, b, GoFields, t) /\ BookBut(b, x) /\ (x = t => Book(b))
                    /\ t \notin Queued(b) /\ b.task[t].cs = "freed" /\ b.outcome = a.outcome
                    /\ b.calls = a.calls /\ b.q0 = a.q0
  BY <1>1, MovesAborted DEF Good, Book
<1>2. /\ a.abort = "none" /\ At(a, t) /\ BookBut(a, x)
      /\ \A u \in Tasks \ {t} : b.task[u] = a.task[u]
      /\ \/ t = a.current /\ b.current = None /\ b.q12 = a.q12
         \/ t \in Range(a.q12) /\ b.current = a.current /\ Range(b.q12) = Range(a.q12) \ {t}
  BY DEF Drops, Good
<1>3. a.task[t] \in TaskTypes BY FieldsOf
<1>4. b.task[t].cs = "freed" /\ ~b.task[t].timeout
      /\ b.task[t].id = a.task[t].id /\ b.task[t].session = a.task[t].session
  BY <1>3 DEF Drops, TaskTypes
<1>5. /\ b.calls = a.calls /\ b.q0 = a.q0 /\ b.saved = a.saved /\ b.outcome = a.outcome /\ b.layer = a.layer
  BY DEF Drops, Edits, Fields
<1>6. /\ a.current \in (Tasks \ Q12) \cup {None} /\ Range(a.q12) \subseteq Q12 /\ Range(a.saved) \subseteq Q12
      /\ Range(a.q0) \subseteq Tasks \ Q12 /\ None \notin Tasks /\ Q12 \subseteq Tasks
  <2>1. \A T : \A q \in Seq(T) : Range(q) \subseteq T BY DEF Range
  <2> QED BY <2>1, FieldsOf, TaskNames
<1>7. t \in Queued(a) /\ Queued(b) = Queued(a) \ {t}
  <2>1. a.current \notin Range(a.q0) /\ Range(a.q12) \cap Range(a.saved) = {} BY <1>2 DEF BookBut, Once
  <2> QED BY <2>1, <1>2, <1>5, <1>6 DEF Queued, At
<1>8. \A u \in Tasks : At(b, u) <=> At(a, u) /\ u # t BY <1>2, <1>6 DEF At
<1>9. \A u : Pending(b, u) <=> Pending(a, u) BY <1>5 DEF Pending
<1>10. ~Pending(a, t) BY <1>2, <1>7 DEF BookBut, Once
<1>11. Timers(b) BY <1>2, <1>4, <1>8 DEF BookBut, Timers
<1>12. Lives(b) BY <1>2, <1>7, <1>9, <1>10 DEF BookBut, Lives
<1>13. Once(b) BY <1>2, <1>5, <1>6, <1>7, <1>9 DEF BookBut, Once
<1>14. Told(b, x) /\ (x = t => Told(b, None))
  <2> SUFFICES ASSUME NEW u \in UserTasks
               PROVE  /\ Heard(b, u) /\ (u # x \/ u = t) => b.task[u].cs = "freed"
                      /\ One(b.calls, CallbackOf(u)) /\ Len(b.outcome[u]) <= 1
                      /\ Has(b.calls, CallbackOf(u)) => b.outcome[u] = <<>>
    BY DEF Told
  <2>1. u \in Tasks BY TaskNames
  <2>2. Heard(b, u) <=> Heard(a, u) BY <1>5 DEF Heard
  <2>3. b.task[u].cs = "freed" \/ b.task[u] = a.task[u] BY <2>1, <1>2, <1>4
  <2>4. u = t => b.task[u].cs = "freed" BY <1>4
  <2> QED BY <2>2, <2>3, <2>4, <1>2, <1>5 DEF BookBut, Told
<1>15. Sessions1(b)
  <2>1. \A u \in Tasks : b.task[u].session = a.task[u].session BY <1>2, <1>4
  <2>2. UserTasks \subseteq Tasks /\ "control" \in Tasks BY TaskNames
  <2> QED BY <2>1, <2>2, <1>2, <1>5, <1>7, <1>9 DEF BookBut, Sessions1
<1>16. BookBut(b, x) /\ (x = t => Book(b)) BY <1>11, <1>12, <1>13, <1>14, <1>15 DEF BookBut, Book
<1>17. Narrow(a, b)
  <2>1. a.task[t].cs # "none" BY <1>2, <1>7 DEF BookBut, Lives
  <2> QED BY <2>1, <1>2, <1>4, <1>7 DEF Narrow
<1>18. \A u \in UserTasks \ {t} : Fate(b, u) = Fate(a, u)
  BY <1>2, <1>5, TaskNames DEF Fate, Heard, WasOk
<1>19. Moves(a, b, GoFields, t)
  <2>1. Grows(a.calls, b.calls, Loud(a)) BY <1>5, FieldsOf, GrowsSame
  <2>2. \A f \in Fields \ GoFields : b[f] = a[f] BY DEF Drops, Edits, GoFields, LightFields
  <2> QED BY <2>1, <2>2, <1>1, <1>2, <1>5, <1>17, <1>18 DEF Moves
<1> QED BY <1>4, <1>5, <1>7, <1>16, <1>19

-----------------------------------------------------------------------------
(* The queue of the tasks that run one at a time, rearranged.               *)
LEMMA Requeue ==
  ASSUME NEW a \in Memory, NEW b, Edits(a, b, {"q0", "current"}), NEW x, Good(a, x),
         Queued(b) = Queued(a), \A t : At(a, t) => At(b, t),
         a.abort = "none" => Distinct(b.q0) /\ b.current \notin Range(b.q0)
  PROVE  \A y : Moves(a, b, GoFields, y) /\ Good(b, x)
<1>1. b \in Memory BY DEF Edits
<1>2. /\ b.calls = a.calls /\ b.layer = a.layer /\ b.task = a.task /\ b.q12 = a.q12 /\ b.saved = a.saved
      /\ b.outcome = a.outcome /\ b.abort = a.abort
  BY DEF Edits, Fields
<1> SUFFICES ASSUME b.abort = "none", NEW y PROVE Moves(a, b, GoFields, y) /\ BookBut(b, x)
  BY <1>1, MovesAborted DEF Good
<1>3. BookBut(a, x) BY <1>2 DEF Good
<1>4. \A u : Pending(b, u) <=> Pending(a, u) BY <1>2 DEF Pending
<1>5. Timers(b) BY <1>2, <1>3 DEF BookBut, Timers
<1>6. Lives(b) BY <1>2, <1>3, <1>4 DEF BookBut, Lives
<1>7. Once(b) BY <1>2, <1>3, <1>4 DEF BookBut, Once
<1>8. Told(b, x) BY <1>2, <1>3 DEF BookBut, Told, Heard
<1>9. Sessions1(b) BY <1>2, <1>3, <1>4 DEF BookBut, Sessions1
<1>10. BookBut(b, x) BY <1>5, <1>6, <1>7, <1>8, <1>9 DEF BookBut
<1>11. Moves(a, b, GoFields, y)
  <2>1. Grows(a.calls, b.calls, Loud(a)) BY <1>2, FieldsOf, GrowsSame
  <2>2. \A f \in Fields \ GoFields : b[f] = a[f] BY DEF Edits, GoFields
  <2>3. Narrow(a, b) BY <1>2 DEF Narrow
  <2>4. \A t \in UserTasks : Fate(b, t) = Fate(a, t) BY <1>2 DEF Fate, Heard, WasOk
  <2> QED BY <2>1, <2>2, <2>3, <2>4, <1>1, <1>2 DEF Moves
<1> QED BY <1>10, <1>11

(* The task at the head of the queue becomes the current one, or goes to    *)
(* its end.                                                                 *)
LEMMA HeadStarts ==
  ASSUME NEW a \in Memory, a.current = None, a.q0 # <<>>, NEW x, Good(a, x),
         NEW b, b = [a EXCEPT !.q0 = Tail(@), !.current = Head(a.q0)]
  PROVE  /\ \A y : Moves(a, b, GoFields, y)
         /\ Good(b, x) /\ Ready(b, Head(a.q0)) /\ Head(a.q0) \in Tasks \ Q12
         /\ b.calls = a.calls /\ b.outcome = a.outcome
<1> DEFINE t == Head(a.q0)
           q == Tail(a.q0)
           e == [a EXCEPT !.q0 = q]
<1>1. /\ q \in Seq(Tasks \ Q12) /\ t \in Tasks \ Q12 /\ Range(a.q0) = {t} \cup Range(q)
      /\ Distinct(a.q0) => t \notin Range(q) /\ Distinct(q)
  BY FieldsOf, RangeTail
<1> HIDE DEF q, t
<1>2. b = [e EXCEPT !.current = t] BY DEF Memory, q, t
<1>3. Edits(a, e, {"q0"}) /\ e.q0 = q BY <1>1, EditQ0
<1>4. e \in Memory BY <1>3 DEF Edits
<1> HIDE DEF e
<1>5. Edits(e, b, {"current"}) /\ b.current = t
  <2>1. t \in (Tasks \ Q12) \cup {None} BY <1>1
  <2> QED BY ONLY <1>2, <1>4, <2>1, EditCurrent
<1>6. Edits(a, b, {"q0", "current"})
  <2>1. Edits(a, b, {"q0"} \cup {"current"}) BY <1>3, <1>5, EditsTrans
  <2>2. {"q0"} \cup {"current"} = {"q0", "current"} OBVIOUS
  <2> QED BY <2>1, <2>2
<1>7. b.q0 = q /\ b.q12 = a.q12 /\ b.saved = a.saved /\ b.calls = a.calls /\ b.outcome = a.outcome
      /\ b.task = a.task /\ b.abort = a.abort
  BY <1>3, <1>5, <1>6 DEF Edits, Fields
<1>8. None \notin Tasks BY TaskNames
<1>9. Queued(b) = Queued(a) /\ t \in Queued(a) BY <1>1, <1>5, <1>7, <1>8 DEF Queued
<1>10. (\A u : At(a, u) => At(b, u)) /\ At(b, t) BY <1>1, <1>5, <1>7, <1>8 DEF At
<1>11. a.abort = "none" => Distinct(b.q0) /\ b.current \notin Range(b.q0)
  BY <1>1, <1>5, <1>7 DEF Good, BookBut, Once
<1>12. (\A y : Moves(a, b, GoFields, y)) /\ Good(b, x)
  BY <1>6, <1>9, <1>10, <1>11, Requeue
<1>13. Ready(b, t)
  <2>1. a.abort = "none" => a.task[t].cs \notin {"none", "freed"}
    BY <1>1, <1>9 DEF Good, BookBut, Lives
  <2> QED BY <2>1, <1>7, <1>10 DEF Ready
<1> QED BY <1>1, <1>7, <1>12, <1>13 DEF t

LEMMA HeadWaits ==
  ASSUME NEW a \in Memory, a.current = None, a.q0 # <<>>, NEW x, Good(a, x),
         NEW b, b = [a EXCEPT !.q0 = Append(Tail(@), Head(a.q0))]
  PROVE  /\ \A y : Moves(a, b, GoFields, y)
         /\ Good(b, x) /\ b.calls = a.calls /\ b.outcome = a.outcome
         /\ Edits(a, b, {"q0"}) /\ Queued(b) = Queued(a)
<1> DEFINE t == Head(a.q0)
           q == Tail(a.q0)
           r == Append(q, t)
<1>1. /\ q \in Seq(Tasks \ Q12) /\ t \in Tasks \ Q12 /\ Range(a.q0) = {t} \cup Range(q)
      /\ Distinct(a.q0) => t \notin Range(q) /\ Distinct(q)
  BY FieldsOf, RangeTail
<1> HIDE DEF q, t
<1>2. r \in Seq(Tasks \ Q12) /\ Range(r) = Range(a.q0) /\ (Distinct(a.q0) => Distinct(r))
  BY <1>1, RangeAppend
<1>3. b = [a EXCEPT !.q0 = r] BY DEF q, t
<1> HIDE DEF r
<1>4. Edits(a, b, {"q0"}) /\ b.q0 = r BY <1>2, <1>3, EditQ0
<1>5. Edits(a, b, {"q0", "current"}) BY <1>4 DEF Edits
<1>6. b.q12 = a.q12 /\ b.saved = a.saved /\ b.calls = a.calls /\ b.outcome = a.outcome
      /\ b.current = a.current
  BY <1>4 DEF Edits, Fields
<1>7. Queued(b) = Queued(a) BY <1>2, <1>4, <1>6 DEF Queued
<1>8. \A u : At(a, u) => At(b, u) BY <1>6 DEF At
<1>9. a.abort = "none" => Distinct(b.q0) /\ b.current \notin Range(b.q0)
  BY <1>2, <1>4, <1>6 DEF Good, BookBut, Once
<1> QED BY <1>4, <1>5, <1>6, <1>7, <1>8, <1>9, Requeue

(* The current task is freed.                                               *)
LEMMA FreeCurrent ==
  ASSUME NEW a \in Memory, a.current # None, NEW b,
         b = [FreeTask(a, a.current) EXCEPT !.current = None]
  PROVE  Drops(a, b, a.current) /\ b.current = None
<1> DEFINE t == a.current
           e == FreeTask(a, t)
<1>1. t \in Tasks \ Q12 BY FieldsOf
<1>2. /\ e \in Memory /\ Edits(a, e, {"task", "abort"})
      /\ e.abort = "none" => /\ a.abort = "none" /\ ~a.task[t].timeout
                             /\ e.task = [a.task EXCEPT ![t] = [a.task[t] EXCEPT !.cs = "freed"]]
  BY <1>1, FreeIs
<1>3. b = [e EXCEPT !.current = None] OBVIOUS
<1> HIDE DEF e
<1>4. Edits(e, b, {"current"}) /\ b.current = None BY ONLY <1>2, <1>3, EditCurrent
<1>5. Edits(a, b, {"task", "abort"} \cup {"current"}) BY <1>2, <1>4, EditsTrans
<1>6. Edits(a, b, {"task", "current", "q12", "abort"}) BY <1>5 DEF Edits
<1>7. b.abort = e.abort /\ b.task = e.task /\ b.q12 = a.q12 BY <1>4, <1>5 DEF Edits, Fields
<1>8. At(a, t) BY <1>1 DEF At
<1>9. a.task \in [Tasks -> TaskTypes] /\ a.task[t] \in TaskTypes BY <1>1, FieldsOf
<1>10. ASSUME b.abort = "none"
       PROVE  /\ \A u \in Tasks \ {t} : b.task[u] = a.task[u]
              /\ b.task[t] = [a.task[t] EXCEPT !.cs = "freed", !.timeout = FALSE]
  <2>1. b.task = [a.task EXCEPT ![t] = [a.task[t] EXCEPT !.cs = "freed"]] /\ ~a.task[t].timeout
    BY <1>2, <1>7, <1>10
  <2>2. b.task[t] = [a.task[t] EXCEPT !.cs = "freed"] /\ \A u \in Tasks \ {t} : b.task[u] = a.task[u]
    BY <2>1, <1>1, <1>9
  <2>3. a.task[t].timeout = FALSE BY <2>1, <1>9 DEF TaskTypes
  <2>4. b.task[t] = [a.task[t] EXCEPT !.cs = "freed", !.timeout = FALSE] BY <2>2, <2>3, <1>9 DEF TaskTypes
  <2> QED BY <2>2, <2>4
<1> QED BY <1>1, <1>2, <1>4, <1>6, <1>7, <1>8, <1>10 DEF Drops

(* Cancelling a timer, and giving up the current task.                      *)
LEMMA CancelIs ==
  ASSUME NEW a \in Memory, NEW t \in Tasks
  PROVE  LET b == CancelTimeout(a, t)
         IN  /\ b \in Memory /\ Edits(a, b, {"task"})
             /\ b.task = [a.task EXCEPT ![t] = [a.task[t] EXCEPT !.timeout = FALSE]]
<1> DEFINE v == [a.task EXCEPT ![t] = [a.task[t] EXCEPT !.timeout = FALSE]]
<1>1. v \in [Tasks -> TaskTypes]
  <2>1. a.task \in [Tasks -> TaskTypes] /\ a.task[t] \in TaskTypes BY FieldsOf
  <2>2. [a.task[t] EXCEPT !.timeout = FALSE] \in TaskTypes BY <2>1 DEF TaskTypes
  <2> QED BY <2>1, <2>2
<1>2. CancelTimeout(a, t) = [a EXCEPT !.task = v] BY DEF CancelTimeout
<1> HIDE DEF v
<1>3. Edits(a, CancelTimeout(a, t), {"task"}) /\ CancelTimeout(a, t).task = v BY <1>1, <1>2, EditTask
<1> QED BY <1>3 DEF Edits, v

LEMMA CurrentDropped ==
  ASSUME NEW a \in Memory, a.current # None, NEW b,
         b = [FreeTask(CancelTimeout(a, a.current), a.current) EXCEPT !.current = None]
  PROVE  Drops(a, b, a.current) /\ b.current = None
<1> DEFINE t == a.current
           e == CancelTimeout(a, t)
<1>1. t \in Tasks \ Q12 BY FieldsOf
<1>2. e \in Memory /\ Edits(a, e, {"task"})
      /\ e.task = [a.task EXCEPT ![t] = [a.task[t] EXCEPT !.timeout = FALSE]]
  BY <1>1, CancelIs
<1>3. e.current = t /\ e.abort = a.abort /\ e.q12 = a.q12 BY <1>2 DEF Edits, Fields
<1>4. b = [FreeTask(e, e.current) EXCEPT !.current = None] BY <1>3
<1> HIDE DEF e
<1>5. Drops(e, b, t) /\ b.current = None BY <1>2, <1>3, <1>4, FreeCurrent
<1>6. Edits(e, b, {"task", "current", "q12", "abort"}) BY <1>5 DEF Drops
<1>7. Edits(a, b, {"task"} \cup {"task", "current", "q12", "abort"}) BY <1>2, <1>6, EditsTrans
<1>8. Edits(a, b, {"task", "current", "q12", "abort"}) BY <1>7 DEF Edits
<1>9. a.task \in [Tasks -> TaskTypes] /\ a.task[t] \in TaskTypes BY <1>1, FieldsOf
<1>10. ASSUME b.abort = "none"
       PROVE  /\ a.abort = "none" /\ At(a, t)
              /\ \A u \in Tasks \ {t} : b.task[u] = a.task[u]
              /\ b.task[t] = [a.task[t] EXCEPT !.cs = "freed", !.timeout = FALSE]
              /\ b.q12 = a.q12
  <2>1. a.abort = "none" BY <1>3, <1>5, <1>10 DEF Drops
  <2>2. At(a, t) BY <1>1 DEF At
  <2>3. t \notin Range(e.q12)
    <3>1. e.q12 \in Seq(Q12) BY <1>2, FieldsOf
    <3> QED BY <3>1, <1>1, RangeIs
  <2>4. b.q12 = a.q12 BY <2>3, <1>3, <1>5, <1>10 DEF Drops
  <2>5. \A u \in Tasks \ {t} : b.task[u] = a.task[u] BY <1>2, <1>5, <1>9, <1>10 DEF Drops
  <2>6. b.task[t] = [a.task[t] EXCEPT !.cs = "freed", !.timeout = FALSE]
    <3>1. e.task[t] = [a.task[t] EXCEPT !.timeout = FALSE] BY <1>1, <1>2, <1>9
    <3>2. b.task[t] = [e.task[t] EXCEPT !.cs = "freed", !.timeout = FALSE] BY <1>5, <1>10 DEF Drops
    <3> QED BY <3>1, <3>2, <1>9 DEF TaskTypes
  <2> QED BY <2>1, <2>2, <2>4, <2>5, <2>6
<1> QED BY <1>5, <1>8, <1>10, <1>1 DEF Drops

-----------------------------------------------------------------------------
(* From a to b, the engine moved, and what it did is right (x apart).       *)
Quiet(a, b) ==
  b.abort = "none" => b.outcome = a.outcome /\ Grows(a.calls, b.calls, Plain(a))
Goes(a, b, x) == Moves(a, b, GoFields, x) /\ Good(b, None)
Freed(b, t) == b.abort = "none" => t \notin Queued(b) /\ b.task[t].cs = "freed"

(* The user hears nothing twice, and of what changes no call.               *)
LEMMA QuietTrans ==
  ASSUME NEW a \in Memory, NEW b, NEW d, NEW F, NEW x, Moves(a, b, F, x), Quiet(a, b), Quiet(b, d),
         d.abort = "none" => b.abort = "none"
  PROVE  Quiet(a, d)
<1> SUFFICES ASSUME d.abort = "none" PROVE d.outcome = a.outcome /\ Grows(a.calls, d.calls, Plain(a))
  BY DEF Quiet
<1>1. /\ d.outcome = a.outcome /\ Narrow(a, b)
      /\ Grows(a.calls, b.calls, Plain(a)) /\ Grows(b.calls, d.calls, Plain(b))
  BY DEF Quiet, Moves
<1>2. Grows(b.calls, d.calls, Plain(a)) BY <1>1, PlainMonotone, GrowsMore
<1>3. Grows(a.calls, d.calls, Plain(a) \cup Plain(a)) BY <1>1, <1>2, FieldsOf, GrowsTrans
<1> QED BY <1>1, <1>3

LEMMA QuietSame ==
  ASSUME NEW a \in Memory, NEW b, b.abort = "none" => b.outcome = a.outcome /\ b.calls = a.calls
  PROVE  Quiet(a, b)
BY FieldsOf, GrowsSame DEF Quiet

LEMMA QuietLight ==
  ASSUME NEW a \in Memory, NEW b, NEW x, Light(a, b, x)
  PROVE  Quiet(a, b)
BY DEF Quiet, Light, Edits, LightFields, Fields

(* A task that is told and freed has no other fate than before.             *)
LEMMA QuietFate ==
  ASSUME NEW a \in Memory, NEW b, Quiet(a, b), b.abort = "none", NEW t \in UserTasks, Heard(a, t)
  PROVE  Heard(b, t) /\ Fate(b, t) = Fate(a, t)
<1>1. b.outcome = a.outcome /\ Grows(a.calls, b.calls, Plain(a)) /\ a.calls \in Seq(Calls)
  BY FieldsOf DEF Quiet
<1>2. CallbackOf(t) \cap Plain(a) = {} /\ {k \in CallbackOf(t) : k.st = "OK"} \cap Plain(a) = {}
  BY PlainIsNot
<1>3. Has(b.calls, CallbackOf(t)) <=> Has(a.calls, CallbackOf(t)) BY <1>1, <1>2, GrownQueue
<1>4. Has(b.calls, {k \in CallbackOf(t) : k.st = "OK"}) <=> Has(a.calls, {k \in CallbackOf(t) : k.st = "OK"})
  BY <1>1, <1>2, GrownQueue
<1>5. (Heard(b, t) <=> Heard(a, t)) /\ (WasOk(b, t) <=> WasOk(a, t)) BY <1>1, <1>3, <1>4 DEF Heard, WasOk
<1> QED BY <1>5 DEF Fate

(* Light fields are among those that may go.                                *)
LEMMA MovesLight ==
  ASSUME NEW a, NEW b, NEW x, Moves(a, b, LightFields, x)
  PROVE  Moves(a, b, GoFields, x)
<1>1. LightFields \subseteq GoFields BY DEF GoFields
<1> QED BY <1>1, MovesMore

(* A freed task is not made alive.                                          *)
LEMMA FreedStays ==
  ASSUME NEW a, NEW b, NEW F, NEW x, Moves(a, b, F, x), NEW t \in Tasks, Freed(a, t)
  PROVE  Freed(b, t)
BY DEF Freed, Moves, Narrow

(* Starting the task that was taken from the queue.                         *)
LEMMA StartGoes ==
  ASSUME NEW a \in Memory, NEW t \in Tasks \ Q12, Ready(a, t), NEW x, Good(a, x)
  PROVE  LET b == StartTask(a, t)
         IN  (\A y : Moves(a, b, GoFields, y)) /\ Good(b, x) /\ Quiet(a, b)
<1> DEFINE b == StartTask(a, t)
<1>1. Light(a, b, t) BY LedSame, LedStart DEF Led
<1> HIDE DEF b
<1>2. ASSUME NEW y PROVE Moves(a, b, GoFields, y)
  <2>1. \A u \in Tasks : u = t => u \notin Q12 OBVIOUS
  <2>2. Light(a, b, y) BY <1>1, <2>1 DEF Light, TaskLight
  <2> QED BY <2>2, LightStep, MovesLight
<1>3. Good(b, x) BY <1>1, LightStep DEF Good, Light
<1> QED BY <1>1, <1>2, <1>3, QuietLight DEF b

(* xi_mqtt_logic_layer_run_next_q0_task.                                    *)
LEMMA RunNext ==
  ASSUME NEW a \in Memory, NEW x, Good(a, x), x \in {None, a.current}
  PROVE  LET b == RunNextQ0(a)
         IN  /\ Goes(a, b, a.current) /\ Quiet(a, b)
             /\ a.current # None => Freed(b, a.current)
<1> DEFINE b == RunNextQ0(a)
           t == a.current
           d == IF t = None THEN a ELSE [FreeTask(CancelTimeout(a, t), t) EXCEPT !.current = None]
           u == Head(d.q0)
           e == [d EXCEPT !.q0 = Append(Tail(@), u)]
           f == [d EXCEPT !.q0 = Tail(@), !.current = u]
<1>0. /\ t = a.current /\ (t = None => d = a)
      /\ t # None => d = [FreeTask(CancelTimeout(a, a.current), a.current) EXCEPT !.current = None]
      /\ b = IF d.q0 = <<>> THEN d
             ELSE IF d.conn = "OPENING" /\ u # "connect" THEN e ELSE StartTask(f, u)
  BY DEF RunNextQ0
<1> HIDE DEF b, d, t
<1> SUFFICES /\ Moves(a, b, GoFields, t) /\ Good(b, None) /\ Quiet(a, b)
             /\ t # None => Freed(b, t)
  BY <1>0 DEF b, Goes
<1>1. /\ Moves(a, d, GoFields, t) /\ Good(d, None) /\ Quiet(a, d) /\ d.current = None
      /\ t # None => t \in Tasks /\ Freed(d, t)
  <2>1. CASE t = None
    <3>1. d = a /\ x = None /\ a.current = None BY <2>1, <1>0
    <3> QED BY <3>1, <2>1, MovesSame, QuietSame
  <2>2. CASE t # None
    <3>1. t \in Tasks BY <2>2, <1>0, FieldsOf
    <3>2. Drops(a, d, t) /\ d.current = None BY <2>2, <1>0, CurrentDropped
    <3>3. Good(a, t)
      <4>1. None \notin UserTasks BY TaskNames
      <4> QED BY <4>1, <1>0 DEF Good, BookBut, Told
    <3>4. /\ Moves(a, d, GoFields, t) /\ Good(d, None)
          /\ d.abort = "none" => /\ t \notin Queued(d) /\ d.task[t].cs = "freed" /\ d.outcome = a.outcome
                                 /\ d.calls = a.calls
      BY <3>1, <3>2, <3>3, DropsBook
    <3>5. Quiet(a, d) BY <3>4, QuietSame
    <3>6. Freed(d, t) BY <3>4 DEF Freed
    <3> QED BY <3>1, <3>2, <3>4, <3>5, <3>6
  <2> QED BY <2>1, <2>2
<1>2. d \in Memory BY <1>1 DEF Moves
<1>4. CASE b = d BY <1>1, <1>4
<1>5. CASE d.q0 # <<>> /\ b = e
  <2>1. Moves(d, b, GoFields, t) /\ Good(b, None) /\ b.calls = d.calls /\ b.outcome = d.outcome
    BY <1>1, <1>2, <1>5, HeadWaits
  <2>2. Quiet(d, b) BY <2>1, <1>2, QuietSame
  <2>3. Moves(a, b, GoFields, t) BY <2>1, <1>1, MovesTrans
  <2>4. d.abort = "none" \/ b.abort # "none" BY <2>1 DEF Moves
  <2>5. Quiet(a, b) BY <2>2, <2>4, <1>1, QuietTrans
  <2>6. t # None => Freed(b, t) BY <2>1, <1>1, FreedStays
  <2> QED BY <2>1, <2>3, <2>5, <2>6
<1>6. CASE d.q0 # <<>> /\ b = StartTask(f, u)
  <2>1. /\ Moves(d, f, GoFields, t) /\ Good(f, None) /\ Ready(f, u) /\ u \in Tasks \ Q12
        /\ f.calls = d.calls /\ f.outcome = d.outcome
    BY <1>1, <1>2, <1>6, HeadStarts
  <2>2. f \in Memory BY <2>1 DEF Moves
  <2> HIDE DEF f, u
  <2>3. Moves(f, b, GoFields, t) /\ Good(b, None) /\ Quiet(f, b) BY <1>6, <2>1, <2>2, StartGoes
  <2>4. Quiet(d, f) BY <2>1, <1>2, QuietSame
  <2>5. Moves(d, b, GoFields, t) BY <2>1, <2>3, <1>2, MovesTrans
  <2>6. Quiet(d, b) BY <2>1, <2>3, <2>4, <1>2, QuietTrans DEF Moves
  <2>7. Moves(a, b, GoFields, t) BY <2>5, <1>1, MovesTrans
  <2>8. Quiet(a, b) BY <2>5, <2>6, <1>1, QuietTrans DEF Moves
  <2> QED BY <2>3, <2>5, <2>7, <2>8, <1>1, FreedStays
<1> QED BY <1>0, <1>4, <1>5, <1>6

(* xi_mqtt_logic_layer_finalize_task.                                       *)
LEMMA Finalize ==
  ASSUME NEW a \in Memory, NEW t \in Tasks, Ready(a, t), Good(a, t)
  PROVE  LET b == FinalizeTask(a, t)
         IN  Goes(a, b, t) /\ Quiet(a, b) /\ Freed(b, t)
<1> DEFINE b == FinalizeTask(a, t)
           e == CheckNoTimer(a, t, "finalize_timer")
           f == [e EXCEPT !.q12 = Kept(@, Q12 \ {t})]
<1>1. e \in Memory /\ (e.abort = "none" => e = a /\ ~a.task[t].timeout)
      /\ Light(a, e, t) /\ (\A y : Light(a, e, y))
  BY CheckIs, AssertNames DEF CheckNoTimer
<1>2. b = IF t \in Q12 THEN FreeTask(f, t) ELSE RunNextQ0(e) BY DEF FinalizeTask
<1> HIDE DEF b, e
<1> SUFFICES Goes(a, b, t) /\ Quiet(a, b) /\ Freed(b, t) BY DEF b
<1>3. ASSUME e.abort # "none", b.abort # "none", b \in Memory PROVE Goes(a, b, t) /\ Quiet(a, b) /\ Freed(b, t)
  BY <1>3, MovesAborted DEF Goes, Good, Quiet, Freed
<1>4. CASE t \in Q12
  <2> DEFINE q == Kept(e.q12, Q12 \ {t})
  <2>1. e.q12 \in Seq(Q12) BY <1>1, FieldsOf
  <2>2. q \in Seq(Q12) /\ Range(q) = Range(e.q12) \cap (Q12 \ {t}) BY <2>1, KeptRange
  <2>3. f = [e EXCEPT !.q12 = q] OBVIOUS
  <2> HIDE DEF q, f
  <2>4. Edits(e, f, {"q12"}) /\ f.q12 = q BY ONLY <1>1, <2>2, <2>3, EditQ12
  <2>5. f \in Memory BY <2>4 DEF Edits
  <2>6. /\ b \in Memory /\ Edits(f, b, {"task", "abort"})
        /\ b.abort = "none" =>
             /\ f.abort = "none" /\ ~f.task[t].timeout
             /\ b.task = [f.task EXCEPT ![t] = [f.task[t] EXCEPT !.cs = "freed"]]
    BY <1>2, <1>4, <2>5, FreeIs
  <2>7. f.abort = e.abort /\ f.task = e.task /\ b.current = e.current /\ b.q12 = q
        /\ b.calls = e.calls /\ b.outcome = e.outcome
    BY <2>4, <2>6 DEF Edits, Fields
  <2>8. CASE e.abort # "none" BY <2>6, <2>7, <2>8, <1>3
  <2>9. CASE e.abort = "none"
    <3>1. e = a /\ ~a.task[t].timeout /\ a.abort = "none" BY <1>1, <2>9
    <3>2. At(a, t) BY <3>1 DEF Ready
    <3>3. t \in Range(a.q12)
      <4>1. a.current \in (Tasks \ Q12) \cup {None} /\ None \notin Q12 BY FieldsOf, TaskNames
      <4> QED BY <4>1, <1>4, <3>2 DEF At
    <3>4. Range(q) = Range(a.q12) \ {t} BY <2>1, <2>2, <3>1, RangeIs
    <3>5. a.task \in [Tasks -> TaskTypes] /\ a.task[t] \in TaskTypes BY FieldsOf
    <3>6. ASSUME b.abort = "none"
          PROVE  /\ \A u \in Tasks \ {t} : b.task[u] = a.task[u]
                 /\ b.task[t] = [a.task[t] EXCEPT !.cs = "freed", !.timeout = FALSE]
      <4>1. b.task = [a.task EXCEPT ![t] = [a.task[t] EXCEPT !.cs = "freed"]] BY <2>6, <2>7, <3>1, <3>6
      <4>2. b.task[t] = [a.task[t] EXCEPT !.cs = "freed"] /\ \A u \in Tasks \ {t} : b.task[u] = a.task[u]
        BY <4>1, <3>5
      <4>3. a.task[t].timeout = FALSE BY <3>1, <3>5 DEF TaskTypes
      <4>4. b.task[t] = [a.task[t] EXCEPT !.cs = "freed", !.timeout = FALSE] BY <4>2, <4>3, <3>5 DEF TaskTypes
      <4> QED BY <4>2, <4>4
    <3>7. Edits(a, b, {"task", "current", "q12", "abort"})
      <4>1. Edits(a, b, {"q12"} \cup {"task", "abort"}) BY <2>4, <2>6, <3>1, EditsTrans
      <4> QED BY <4>1 DEF Edits
    <3>8. Drops(a, b, t) BY <2>7, <3>1, <3>2, <3>3, <3>4, <3>6, <3>7 DEF Drops
    <3>9. /\ Moves(a, b, GoFields, t) /\ Good(b, None)
          /\ b.abort = "none" => t \notin Queued(b) /\ b.task[t].cs = "freed"
      BY <3>8, DropsBook
    <3>10. Quiet(a, b) BY <2>7, <3>1, QuietSame
    <3> QED BY <3>9, <3>10 DEF Goes, Freed
  <2> QED BY <2>8, <2>9
<1>5. CASE t \notin Q12
  <2>1. b = RunNextQ0(e) BY <1>2, <1>5
  <2>2. CASE e.abort = "none"
    <3>1. e = a /\ a.abort = "none" BY <1>1, <2>2
    <3>2. At(a, t) BY <3>1 DEF Ready
    <3>3. t = a.current
      <4>1. Range(a.q12) \subseteq Q12 BY FieldsOf, RangeIs
      <4> QED BY <4>1, <1>5, <3>2 DEF At
    <3>4. t # None BY TaskNames
    <3> QED BY <2>1, <3>1, <3>3, <3>4, RunNext
  <2>3. CASE e.abort # "none"
    <3>1. Good(e, None) BY <2>3 DEF Good
    <3>2. Goes(e, b, e.current) BY <2>1, <3>1, <1>1, RunNext
    <3>3. b \in Memory /\ b.abort # "none" BY <2>3, <3>2 DEF Goes, Moves
    <3> QED BY <2>3, <3>3, <1>3
  <2> QED BY <2>2, <2>3
<1> QED BY <1>4, <1>5

-----------------------------------------------------------------------------
(* The tasks of a and b, and the calls about tasks, are the same.           *)
Alike(a, b) ==
  /\ b.task = a.task /\ b.current = a.current /\ b.q0 = a.q0 /\ b.q12 = a.q12 /\ b.saved = a.saved
  /\ b.outcome = a.outcome
  /\ \A t \in Tasks : /\ Pending(b, t) <=> Pending(a, t)
                      /\ One(b.calls, PushOf(t)) <=> One(a.calls, PushOf(t))
                      /\ Has(b.calls, CallbackOf(t)) <=> Has(a.calls, CallbackOf(t))
                      /\ One(b.calls, CallbackOf(t)) <=> One(a.calls, CallbackOf(t))
                      /\ Has(b.calls, {k \in CallbackOf(t) : k.st = "OK"})
                           <=> Has(a.calls, {k \in CallbackOf(t) : k.st = "OK"})

(* Memories with the same tasks and calls about tasks have the same books.  *)
LEMMA AlikeBook ==
  ASSUME NEW a, NEW b, Alike(a, b)
  PROVE  /\ \A x : BookBut(a, x) => BookBut(b, x)
         /\ Queued(b) = Queued(a) /\ \A t : At(b, t) <=> At(a, t)
         /\ \A t \in UserTasks : (Fate(b, t) = Fate(a, t)) /\ (Heard(b, t) <=> Heard(a, t))
<1>1. Queued(b) = Queued(a) /\ \A t : At(b, t) <=> At(a, t) BY DEF Alike, Queued, At
<1>2. \A t \in Tasks : (Heard(b, t) <=> Heard(a, t)) /\ (WasOk(b, t) <=> WasOk(a, t))
  BY DEF Alike, Heard, WasOk
<1>3. UserTasks \subseteq Tasks /\ "control" \in Tasks BY TaskNames
<1>4. \A t \in UserTasks : (Fate(b, t) = Fate(a, t)) /\ (Heard(b, t) <=> Heard(a, t))
  BY <1>2, <1>3 DEF Alike, Fate
<1>5. ASSUME NEW x, BookBut(a, x) PROVE BookBut(b, x)
  <2>1. Timers(b) BY <1>1, <1>5 DEF BookBut, Timers, Alike
  <2>2. Lives(b) BY <1>1, <1>5 DEF BookBut, Lives, Alike
  <2>3. Once(b) BY <1>1, <1>5 DEF BookBut, Once, Alike
  <2>4. Told(b, x) BY <1>3, <1>4, <1>5 DEF BookBut, Told, Alike
  <2>5. Sessions1(b) BY <1>1, <1>3, <1>5 DEF BookBut, Sessions1, Alike
  <2> QED BY <2>1, <2>2, <2>3, <2>4, <2>5 DEF BookBut
<1> QED BY <1>1, <1>4, <1>5

(* Alike twice, and after a call that is about no task.                     *)
LEMMA AlikeTrans ==
  ASSUME NEW a, NEW b, NEW d, Alike(a, b), Alike(b, d)
  PROVE  Alike(a, d)
BY DEF Alike

(* A call that is about no task.                                            *)
Neutral(k) == \A t \in Tasks : k \notin PushOf(t) /\ k \notin CallbackOf(t)

LEMMA NeutralIs ==
  ASSUME NEW k,
         \/ k.layer \notin {"user", "top", "logic"}
         \/ k.layer = "user" /\ k.fn # "callback"
         \/ k.layer \in {"top", "logic"} /\ (k.fn # "push" \/ k.st # "OK")
  PROVE  Neutral(k)
BY DEF Neutral, PushOf, CallbackOf, With, Kind

LEMMA AlikeAdds ==
  ASSUME NEW a, NEW b, NEW k, Neutral(k), Adds(a.calls, b.calls, k) \/ Adds(b.calls, a.calls, k),
         b.task = a.task, b.current = a.current, b.q0 = a.q0, b.q12 = a.q12, b.saved = a.saved,
         b.outcome = a.outcome
  PROVE  Alike(a, b)
<1> SUFFICES ASSUME NEW t \in Tasks
             PROVE  /\ Pending(b, t) <=> Pending(a, t)
                    /\ One(b.calls, PushOf(t)) <=> One(a.calls, PushOf(t))
                    /\ Has(b.calls, CallbackOf(t)) <=> Has(a.calls, CallbackOf(t))
                    /\ One(b.calls, CallbackOf(t)) <=> One(a.calls, CallbackOf(t))
                    /\ Has(b.calls, {k2 \in CallbackOf(t) : k2.st = "OK"})
                         <=> Has(a.calls, {k2 \in CallbackOf(t) : k2.st = "OK"})
  BY DEF Alike
<1>1. k \notin PushOf(t) /\ k \notin CallbackOf(t) /\ k \notin {k2 \in CallbackOf(t) : k2.st = "OK"}
  BY DEF Neutral
<1> QED BY <1>1 DEF Adds, Pending

LEMMA AlikeGrows ==
  ASSUME NEW a \in Memory, NEW b, NEW K, Grows(a.calls, b.calls, K), \A k \in K : Neutral(k),
         b.task = a.task, b.current = a.current, b.q0 = a.q0, b.q12 = a.q12, b.saved = a.saved,
         b.outcome = a.outcome
  PROVE  Alike(a, b)
<1>1. a.calls \in Seq(Calls) BY FieldsOf
<1> SUFFICES ASSUME NEW t \in Tasks
             PROVE  /\ Pending(b, t) <=> Pending(a, t)
                    /\ One(b.calls, PushOf(t)) <=> One(a.calls, PushOf(t))
                    /\ Has(b.calls, CallbackOf(t)) <=> Has(a.calls, CallbackOf(t))
                    /\ One(b.calls, CallbackOf(t)) <=> One(a.calls, CallbackOf(t))
                    /\ Has(b.calls, {k2 \in CallbackOf(t) : k2.st = "OK"})
                         <=> Has(a.calls, {k2 \in CallbackOf(t) : k2.st = "OK"})
  BY DEF Alike
<1>2. PushOf(t) \cap K = {} /\ CallbackOf(t) \cap K = {} BY DEF Neutral
<1>3. {k2 \in CallbackOf(t) : k2.st = "OK"} \cap K = {} BY <1>2
<1>4. (Has(b.calls, PushOf(t)) <=> Has(a.calls, PushOf(t)))
      /\ (One(b.calls, PushOf(t)) <=> One(a.calls, PushOf(t)))
  BY <1>1, <1>2, GrownQueue
<1>5. (Has(b.calls, CallbackOf(t)) <=> Has(a.calls, CallbackOf(t)))
      /\ (One(b.calls, CallbackOf(t)) <=> One(a.calls, CallbackOf(t)))
  BY <1>1, <1>2, GrownQueue
<1>6. Has(b.calls, {k2 \in CallbackOf(t) : k2.st = "OK"})
        <=> Has(a.calls, {k2 \in CallbackOf(t) : k2.st = "OK"})
  BY <1>1, <1>3, GrownQueue
<1> QED BY <1>4, <1>5, <1>6 DEF Pending

-----------------------------------------------------------------------------
(* What became of the task t.                                               *)
Outcome(a, b, t, may) ==
  b.abort = "none" /\ t \in UserTasks =>
    /\ Fate(a, t) \in {"accepted", "stored"}
    /\ \/ Fate(b, t) = Fate(a, t)
       \/ Fate(a, t) = "accepted" /\ Fate(b, t) = "stored" /\ t \in Q1 \cup Subs
       \/ Fate(b, t) = "failed"
       \/ Fate(b, t) = "ok" /\ may
Resumed(a, b, t, may) == Goes(a, b, t) /\ Outcome(a, b, t, may)

(* The fate of a task that can be resumed.                                  *)
LEMMA ReadyFate ==
  ASSUME NEW a \in Memory, NEW t \in UserTasks, Ready(a, t), Good(a, None), a.abort = "none"
  PROVE  ~Heard(a, t) /\ Fate(a, t) = IF a.task[t].session = "STORE" THEN "stored" ELSE "accepted"
<1>1. t # None BY TaskNames
<1>2. ~Heard(a, t) BY <1>1 DEF Ready, Good, BookBut, Told
<1> QED BY <1>2 DEF Ready, Fate

(* A task that was led has been resumed.                                    *)
LEMMA LedResumed ==
  ASSUME NEW a \in Memory, NEW t \in Tasks, Ready(a, t), Good(a, None), NEW b, Led(a, b, t), NEW may
  PROVE  Resumed(a, b, t, may)
<1>1. Light(a, b, t) /\ b \in Memory /\ Ready(b, t) BY DEF Led
<1>2. Goes(a, b, t) BY <1>1, LightStep, MovesLight DEF Goes, Good, Light
<1>3. ASSUME b.abort = "none", t \in UserTasks
      PROVE  /\ Fate(a, t) \in {"accepted", "stored"}
             /\ \/ Fate(b, t) = Fate(a, t)
                \/ Fate(a, t) = "accepted" /\ Fate(b, t) = "stored" /\ t \in Q1 \cup Subs
  <2>1. a.abort = "none" /\ TaskLight(a, b, t) /\ Good(b, None) BY <1>1, <1>2, <1>3 DEF Light, Goes
  <2>2. Fate(a, t) = IF a.task[t].session = "STORE" THEN "stored" ELSE "accepted" BY <1>3, <2>1, ReadyFate
  <2>3. Fate(b, t) = IF b.task[t].session = "STORE" THEN "stored" ELSE "accepted" BY <1>1, <1>3, <2>1, ReadyFate
  <2>4. \/ b.task[t].session = a.task[t].session
        \/ t \in Q12 /\ a.task[t].session = "UNSET" /\ b.task[t].session = "STORE"
    BY <2>1 DEF TaskLight
  <2>5. t \in Q12 => t \in Q1 \cup Subs BY <1>3, TaskNames
  <2> QED BY <2>2, <2>3, <2>4, <2>5
<1> QED BY <1>2, <1>3 DEF Resumed, Outcome

(* The callback of a task that is done.                                     *)
LEMMA DeferIs ==
  ASSUME NEW a \in Memory, NEW t \in Tasks, Ready(a, t), Good(a, None), NEW st \in Statuses
  PROVE  LET b == DeferUsersCallback(a, t, st)
         IN  /\ b \in Memory /\ b.abort = a.abort /\ b.task = a.task /\ Queued(b) = Queued(a)
             /\ \A F : {"calls"} \subseteq F => Moves(a, b, F, t)
             /\ Good(b, t) /\ Ready(b, t)
             /\ b.abort = "none" /\ t \in UserTasks =>
                  /\ Fate(a, t) \in {"accepted", "stored"}
                  /\ Heard(b, t) /\ Fate(b, t) = IF st = "OK" THEN "ok" ELSE "failed"
<1> DEFINE k == [layer |-> "user", fn |-> "callback", arg |-> [NoMsg EXCEPT !.task = t], st |-> st]
           q == Append(a.calls, k)
           b == DeferUsersCallback(a, t, st)
<1>1. [NoMsg EXCEPT !.task = t] \in OutMessages /\ [NoMsg EXCEPT !.task = t].task = t BY NoMsgIs
<1>2. k \in Calls
  BY <1>1 DEF Calls, CallTypes, Outward, FunctionNames, LayerFunctions, Layers, OutMessages
<1>3. k.layer = "user" /\ k.fn = "callback" /\ k.st = st /\ k.arg.task = t BY <1>1
<1>4. b = [a EXCEPT !.calls = q] BY DEF DeferUsersCallback
<1> HIDE DEF k, b
<1>5. q \in Seq(Calls) /\ Adds(q, a.calls, k) BY <1>2, FieldsOf, QueueAppend
<1>6. Grows(a.calls, q, Loud(a))
  <2>1. k \in Loud(a) BY <1>2, <1>3 DEF Loud, Kind
  <2> QED BY <2>1, <1>2, FieldsOf, GrowsAppend
<1> HIDE DEF q
<1>7. Edits(a, b, {"calls"}) /\ b.calls = q BY <1>4, <1>5, EditCalls
<1>8. b \in Memory BY <1>7 DEF Edits
<1>9. /\ b.abort = a.abort /\ b.task = a.task /\ b.current = a.current /\ b.q0 = a.q0 /\ b.q12 = a.q12
      /\ b.saved = a.saved /\ b.outcome = a.outcome /\ b.layer = a.layer
  BY <1>7 DEF Edits, Fields
<1>10. Queued(b) = Queued(a) /\ \A u : At(b, u) <=> At(a, u) BY <1>9 DEF Queued, At
<1>11. \A u : k \notin PushOf(u) /\ (k \in CallbackOf(u) <=> u = t)
  BY <1>2, <1>3 DEF PushOf, With, Kind, CallbackOf
<1>12. \A u : (Pending(b, u) <=> Pending(a, u)) /\ (One(b.calls, PushOf(u)) <=> One(a.calls, PushOf(u)))
  BY <1>5, <1>7, <1>11 DEF Pending, Adds
<1>13. \A u \in UserTasks \ {t} :
         /\ Has(b.calls, CallbackOf(u)) <=> Has(a.calls, CallbackOf(u))
         /\ One(b.calls, CallbackOf(u)) <=> One(a.calls, CallbackOf(u))
         /\ Has(b.calls, {k2 \in CallbackOf(u) : k2.st = "OK"})
                         <=> Has(a.calls, {k2 \in CallbackOf(u) : k2.st = "OK"})
  BY <1>5, <1>7, <1>11 DEF Adds
<1>14. \A u \in UserTasks \ {t} : (Heard(b, u) <=> Heard(a, u)) /\ Fate(b, u) = Fate(a, u)
  BY <1>9, <1>13 DEF Heard, WasOk, Fate
<1>15. Ready(b, t) BY <1>9, <1>10 DEF Ready
<1>16. ASSUME b.abort = "none", t \in UserTasks
       PROVE  /\ Fate(a, t) \in {"accepted", "stored"} /\ ~Heard(a, t)
              /\ Heard(b, t) /\ Fate(b, t) = IF st = "OK" THEN "ok" ELSE "failed"
              /\ One(b.calls, CallbackOf(t)) /\ b.outcome[t] = <<>>
  <2>1. a.abort = "none" BY <1>9, <1>16
  <2>2. ~Heard(a, t) /\ Fate(a, t) \in {"accepted", "stored"} BY <2>1, <1>16, ReadyFate
  <2>3. ~Has(a.calls, CallbackOf(t)) /\ a.outcome[t] = <<>> BY <2>2 DEF Heard
  <2>4. Has(b.calls, CallbackOf(t)) BY <1>5, <1>7, <1>11 DEF Adds
  <2>5. One(b.calls, CallbackOf(t)) BY <1>5, <1>7, <1>16, <2>1, <2>3 DEF Adds, Good, BookBut, Told
  <2>6. Has(b.calls, {k2 \in CallbackOf(t) : k2.st = "OK"}) <=> st = "OK"
    <3>1. ~Has(a.calls, {k2 \in CallbackOf(t) : k2.st = "OK"}) BY <2>3 DEF Has
    <3>2. k \in {k2 \in CallbackOf(t) : k2.st = "OK"} <=> st = "OK" BY <1>3, <1>11
    <3> QED BY <3>1, <3>2, <1>5, <1>7 DEF Adds
  <2>7. Heard(b, t) /\ (WasOk(b, t) <=> st = "OK") BY <2>3, <2>4, <2>6, <1>9 DEF Heard, WasOk
  <2>8. Fate(b, t) = IF st = "OK" THEN "ok" ELSE "failed" BY <2>7 DEF Fate
  <2> QED BY <2>2, <2>3, <2>5, <2>7, <2>8, <1>9
<1>17. ASSUME b.abort = "none" PROVE BookBut(b, t)
  <2>1. BookBut(a, None) BY <1>9, <1>17 DEF Good
  <2>2. Timers(b) BY <2>1, <1>9, <1>10 DEF BookBut, Timers
  <2>3. Lives(b) BY <2>1, <1>9, <1>10, <1>12 DEF BookBut, Lives
  <2>4. Once(b) BY <2>1, <1>9, <1>10, <1>12 DEF BookBut, Once
  <2>5. Told(b, t)
    <3> SUFFICES ASSUME NEW u \in UserTasks
                 PROVE  /\ Heard(b, u) /\ u # t => b.task[u].cs = "freed"
                        /\ One(b.calls, CallbackOf(u)) /\ Len(b.outcome[u]) <= 1
                        /\ Has(b.calls, CallbackOf(u)) => b.outcome[u] = <<>>
      BY DEF Told
    <3>1. u # None BY TaskNames
    <3>2. CASE u = t BY <3>2, <1>16, <1>17, <1>9, <2>1 DEF BookBut, Told
    <3>3. CASE u # t BY <3>1, <3>3, <1>9, <1>13, <1>14, <2>1 DEF BookBut, Told
    <3> QED BY <3>2, <3>3
  <2>6. Sessions1(b) BY <2>1, <1>9, <1>10, <1>12 DEF BookBut, Sessions1
  <2> QED BY <2>2, <2>3, <2>4, <2>5, <2>6 DEF BookBut
<1>18. ASSUME NEW F, {"calls"} \subseteq F PROVE Moves(a, b, F, t)
  <2>1. \A f \in Fields \ F : b[f] = a[f] BY <1>7, <1>18 DEF Edits
  <2>2. Narrow(a, b) BY <1>9, <1>10 DEF Narrow
  <2> QED BY <2>1, <2>2, <1>6, <1>7, <1>8, <1>9, <1>14 DEF Moves
<1> QED BY <1>8, <1>9, <1>10, <1>15, <1>16, <1>17, <1>18 DEF Good, b

-----------------------------------------------------------------------------
(* The coroutines.                                                          *)
LEMMA LedFinal ==
  ASSUME NEW a \in Memory, NEW t \in Tasks, Good(a, None), NEW b, Led(a, b, t)
  PROVE  Goes(a, FinalizeTask(b, t), t) /\ Freed(FinalizeTask(b, t), t)
<1>1. b \in Memory /\ Light(a, b, t) /\ Ready(b, t) BY DEF Led
<1>2. Moves(a, b, GoFields, t) /\ Good(b, None) BY <1>1, LightStep, MovesLight DEF Good, Light
<1>3. Good(b, t)
  <2>1. None \notin UserTasks BY TaskNames
  <2> QED BY <1>2, <2>1 DEF Good, BookBut, Told
<1>4. Goes(b, FinalizeTask(b, t), t) /\ Freed(FinalizeTask(b, t), t) BY <1>1, <1>3, Finalize
<1> QED BY <1>2, <1>4, MovesTrans DEF Goes

(* The end of a coroutine that tells the user.                              *)
LEMMA LedFinish ==
  ASSUME NEW a \in Memory, NEW t \in Tasks, Ready(a, t), Good(a, None), NEW b, Led(a, b, t),
         NEW st \in Statuses
  PROVE  LET r == FinalizeTask(DeferUsersCallback(b, t, st), t)
         IN  Resumed(a, r, t, st = "OK") /\ Freed(r, t)
<1> DEFINE d == DeferUsersCallback(b, t, st)
           r == FinalizeTask(d, t)
<1>1. b \in Memory /\ Light(a, b, t) /\ Ready(b, t) BY DEF Led
<1>2. Moves(a, b, GoFields, t) /\ Good(b, None) BY <1>1, LightStep, MovesLight DEF Good, Light
<1>3. /\ d \in Memory /\ d.abort = b.abort /\ Moves(b, d, GoFields, t) /\ Good(d, t) /\ Ready(d, t)
      /\ d.abort = "none" /\ t \in UserTasks =>
           Heard(d, t) /\ Fate(d, t) = IF st = "OK" THEN "ok" ELSE "failed"
  <2>1. {"calls"} \subseteq GoFields BY DEF GoFields, LightFields
  <2> QED BY <1>1, <1>2, <2>1, DeferIs
<1> HIDE DEF d
<1>4. Goes(d, r, t) /\ Quiet(d, r) /\ Freed(r, t) BY <1>3, Finalize
<1> HIDE DEF r
<1>5. Goes(a, r, t)
  <2>1. Moves(a, d, GoFields, t) BY <1>2, <1>3, MovesTrans
  <2> QED BY <2>1, <1>4, MovesTrans DEF Goes
<1>6. ASSUME r.abort = "none", t \in UserTasks
      PROVE  /\ Fate(a, t) \in {"accepted", "stored"}
             /\ Fate(r, t) = IF st = "OK" THEN "ok" ELSE "failed"
  <2>1. d.abort = "none" /\ a.abort = "none" BY <1>4, <1>5, <1>6 DEF Goes, Moves
  <2>2. Fate(r, t) = Fate(d, t) BY <2>1, <1>3, <1>4, <1>6, QuietFate
  <2>3. Fate(a, t) \in {"accepted", "stored"} BY <2>1, <1>6, ReadyFate
  <2> QED BY <2>1, <2>2, <2>3, <1>3, <1>6
<1>7. Outcome(a, r, t, st = "OK") BY <1>6 DEF Outcome
<1> QED BY <1>4, <1>5, <1>7 DEF Resumed, r, d

(* Success may be reported in more cases.                                   *)
LEMMA ResumedMay ==
  ASSUME NEW a, NEW b, NEW t, NEW p, NEW q, Resumed(a, b, t, p), p => q
  PROVE  Resumed(a, b, t, q)
BY DEF Resumed, Outcome

(* A subscription is entered in the handlers.                               *)
LEMMA LedHandlers ==
  ASSUME NEW a \in Memory, NEW b, NEW t \in SubTasks, Led(a, b, t)
  PROVE  Led(a, [b EXCEPT !.handlers = Append(@, t)], t)
<1> DEFINE q == Append(b.handlers, t)
           d == [b EXCEPT !.handlers = q]
<1>1. b \in Memory BY DEF Led
<1>2. q \in Seq(SubTasks) BY <1>1, FieldsOf
<1> HIDE DEF q
<1>3. Edits(b, d, {"handlers"}) BY <1>1, <1>2 DEF Edits, Fields, Memory
<1> HIDE DEF d
<1>4. Edits(b, d, LightFields) /\ d.abort = b.abort /\ d.layer = b.layer /\ d.calls = b.calls
      /\ d.task = b.task
  BY <1>3 DEF Edits, LightFields, Fields
<1>5. Grows(b.calls, d.calls, Plain(b)) BY <1>1, <1>4, FieldsOf, GrowsSame
<1>6. Light(b, d, t) BY <1>4, <1>5 DEF Light, TaskLight
<1> QED BY <1>6, LedTrans DEF d, q

(* do_mqtt_publish_q0, in any state and with any status.                    *)
LEMMA Q0Resumed ==
  ASSUME NEW a \in Memory, NEW t \in Q0, Ready(a, t), Good(a, None), NEW st \in Statuses, NEW m
  PROVE  Resumed(a, DoMqttPublishQ0(a, t, st, m), t, TRUE)
<1> DEFINE e == Check(a, m = NoMsg, "q0_with_message")
           v == IF st = "WRITTEN" THEN "OK" ELSE st
<1>1. t \in Tasks /\ v \in Statuses BY TaskNames DEF UserTasks, Statuses
<1>2. Led(a, e, t) BY AssertNames, LedSame, LedCheck
<1> HIDE DEF e, v
<1>3. Resumed(a, e, t, TRUE) /\ Resumed(a, Send(e, t), t, TRUE) BY <1>1, <1>2, LedSend, LedResumed
<1>4. Resumed(a, FinalizeTask(DeferUsersCallback(e, t, v), t), t, TRUE)
  BY <1>1, <1>2, LedFinish, ResumedMay
<1> QED BY <1>3, <1>4 DEF DoMqttPublishQ0, e, v

(* do_mqtt_publish_q1 reports success only for an answer to a publication.  *)
LEMMA Q1Resumed ==
  ASSUME NEW a \in Memory, NEW t \in Q1, Ready(a, t), Good(a, None), NEW st \in Statuses, NEW m
  PROVE  Resumed(a, DoMqttPublishQ1(a, t, st, m), t, st = "OK" /\ m.task \in Q1)
<1> DEFINE P(b) == Resumed(a, b, t, st = "OK" /\ m.task \in Q1)
<1>1. t \in Tasks /\ t \in Q12 BY TaskNames DEF Q12
<1>2. Led(a, a, t) /\ Led(a, CancelTimeout(a, t), t) BY <1>1, LedSame, LedTask
<1>3. P([CancelTimeout(a, t) EXCEPT !.task[t].cs = "new"]) BY <1>1, <1>2, LedTask, LedResumed
<1>4. P(Send(CheckNoTimer(a, t, "q1_start"), t)) BY <1>1, <1>2, AssertNames, LedNoTimer, LedSend, LedResumed
<1>5. P(MessageWritten(a, t, "q1_written")) BY <1>1, <1>2, AssertNames, LedWritten, LedResumed
<1>6. P(Send(a, t)) /\ P(Send(CancelTimeout(a, t), t)) BY <1>1, <1>2, LedSend, LedResumed
<1>7. P(Send(CheckNoTimer(a, t, "q1_timeout"), t)) BY <1>1, <1>2, AssertNames, LedNoTimer, LedSend, LedResumed
<1>8. /\ st = "OK" /\ m.task \in Q1 => P(FinalizeTask(DeferUsersCallback(CancelTimeout(a, t), t, "OK"), t))
      /\ P(FinalizeTask(DeferUsersCallback(CancelTimeout(a, t), t, "ERR"), t))
  <2>1. "OK" \in Statuses /\ "ERR" \in Statuses BY DEF Statuses
  <2>2. /\ Resumed(a, FinalizeTask(DeferUsersCallback(CancelTimeout(a, t), t, "OK"), t), t, "OK" = "OK")
        /\ Resumed(a, FinalizeTask(DeferUsersCallback(CancelTimeout(a, t), t, "ERR"), t), t, "ERR" = "OK")
    BY <2>1, <1>1, <1>2, LedFinish
  <2> QED BY <2>2, ResumedMay
<1> HIDE DEF P
<1>9. P(DoMqttPublishQ1(a, t, st, m)) BY <1>3, <1>4, <1>5, <1>6, <1>7, <1>8 DEF DoMqttPublishQ1
<1> QED BY <1>9 DEF P

(* do_mqtt_subscribe does so for an answer to a subscription.               *)
LEMMA SubscribeResumed ==
  ASSUME NEW a \in Memory, NEW t \in SubTasks, Ready(a, t), Good(a, None), NEW st \in Statuses, NEW m
  PROVE  Resumed(a, DoMqttSubscribe(a, t, st, m), t, st = "OK" /\ m.task \in SubTasks)
<1> DEFINE P(b) == Resumed(a, b, t, st = "OK" /\ m.task \in SubTasks)
           h == [a EXCEPT !.handlers = Append(@, t)]
           d == IF m.ok THEN h ELSE a
           v == IF m.ok THEN "OK" ELSE "ERR"
<1>1. t \in Tasks /\ t \in Q12 BY TaskNames DEF Q12
<1>2. Led(a, a, t) /\ Led(a, CancelTimeout(a, t), t) /\ P(CancelTimeout(a, t))
  BY <1>1, LedSame, LedTask, LedResumed
<1>3. P(Send(a, t)) /\ P(Send(CancelTimeout(a, t), t)) BY <1>1, <1>2, LedSend, LedResumed
<1>4. P(MessageWritten(a, t, "subscribe_written")) BY <1>1, <1>2, AssertNames, LedWritten, LedResumed
<1>5. P(ArmTimeout([CheckNoTimer(a, t, "subscribe_retry") EXCEPT !.task[t].cs = "retry"], t))
  <2> DEFINE e == CheckNoTimer(a, t, "subscribe_retry")
  <2>1. Led(a, e, t) BY <1>2, AssertNames, LedNoTimer
  <2> HIDE DEF e
  <2>2. Led(a, [e EXCEPT !.task[t].cs = "retry"], t) BY <2>1, <1>1, LedTask
  <2>3. P(ArmTimeout([e EXCEPT !.task[t].cs = "retry"], t)) BY <2>2, <1>1, LedTask, LedResumed
  <2> QED BY <2>3 DEF e
<1>6. P(Send(Check(CheckNoTimer(a, t, "subscribe_resend_timer"), st = "RESEND", "subscribe_resend_state"), t))
  <2> DEFINE e == CheckNoTimer(a, t, "subscribe_resend_timer")
             f == Check(e, st = "RESEND", "subscribe_resend_state")
  <2>1. Led(a, e, t) BY <1>2, AssertNames, LedNoTimer
  <2> HIDE DEF e
  <2>2. Led(a, f, t) BY <2>1, AssertNames, LedCheck
  <2> HIDE DEF f
  <2>3. P(Send(f, t)) BY <2>2, <1>1, LedSend, LedResumed
  <2> QED BY <2>3 DEF e, f
<1>7. P(Send(CheckNoTimer(a, t, "subscribe_timeout"), t))
  BY <1>1, <1>2, AssertNames, LedNoTimer, LedSend, LedResumed
<1>8. st = "OK" /\ m.task \in SubTasks => P(FinalizeTask(DeferUsersCallback(CancelTimeout(d, t), t, v), t))
  <2>1. Led(a, d, t) BY <1>2, LedHandlers
  <2>2. v \in Statuses BY DEF Statuses
  <2> HIDE DEF d, v
  <2>3. Led(a, CancelTimeout(d, t), t) BY <2>1, <1>1, LedTask
  <2>4. Resumed(a, FinalizeTask(DeferUsersCallback(CancelTimeout(d, t), t, v), t), t, v = "OK")
    BY <2>2, <2>3, <1>1, LedFinish
  <2> QED BY <2>4, ResumedMay
<1>9. P(Check(FinalizeTask(CancelTimeout(a, t), t), FALSE, "subscribe_failed"))
  <2> DEFINE e == FinalizeTask(CancelTimeout(a, t), t)
             f == Check(e, FALSE, "subscribe_failed")
  <2>1. e \in Memory BY <1>1, <1>2, LedFinal DEF Goes, Moves
  <2> HIDE DEF e
  <2>2. f \in Memory /\ f.abort # "none" BY <2>1, AssertNames, CheckIs
  <2> HIDE DEF f
  <2>3. P(f) BY <2>2, MovesAborted DEF Resumed, Goes, Good, Outcome
  <2> QED BY <2>3 DEF f, e
<1> HIDE DEF P
<1>10. P(DoMqttSubscribe(a, t, st, m))
  BY <1>2, <1>3, <1>4, <1>5, <1>6, <1>7, <1>8, <1>9 DEF DoMqttSubscribe
<1> QED BY <1>10 DEF P

-----------------------------------------------------------------------------
(* The tasks the library makes for itself.                                  *)
AcceptedOf(a) ==
  OnSucc([a EXCEPT !.keepalive_event = @ \/ KeepAlive, !.conn = "OPENED"], "logic", "connect", NoMsg, "OK")

(* Two more fields.                                                         *)
LEMMA EditEvent ==
  ASSUME NEW a \in Memory, NEW v \in BOOLEAN, NEW b, b = [a EXCEPT !.keepalive_event = v]
  PROVE  Edits(a, b, {"keepalive_event"}) /\ b.keepalive_event = v
BY DEF Edits, Fields, Memory

LEMMA EditConn ==
  ASSUME NEW a \in Memory, NEW v \in ConnectionStates, NEW b, b = [a EXCEPT !.conn = v]
  PROVE  Edits(a, b, {"conn"}) /\ b.conn = v
BY DEF Edits, Fields, Memory

(* What is true of the tasks does not depend on the rest of the memory.     *)
LEMMA AlikeGood ==
  ASSUME NEW a, NEW b, Alike(a, b), b.abort = a.abort
  PROVE  /\ \A x : Good(a, x) => Good(b, x)
         /\ \A t : Ready(a, t) => Ready(b, t)
<1>1. b.task = a.task BY DEF Alike
<1> QED BY <1>1, AlikeBook DEF Good, Ready

(* What the server's acceptance does to the client's memory.                *)
LEMMA AcceptedIs ==
  ASSUME NEW a \in Memory
  PROVE  LET b == AcceptedOf(a)
             k == [layer |-> "top", fn |-> "connect", arg |-> NoMsg, st |-> "OK"]
         IN  /\ b \in Memory /\ Edits(a, b, {"calls", "layer", "conn", "keepalive_event"})
             /\ b.conn = "OPENED" /\ b.keepalive_event = (a.keepalive_event \/ KeepAlive)
             /\ k \in Opened /\ k \in Calls /\ b.calls = Append(a.calls, k)
             /\ b.layer = [a.layer EXCEPT !["logic"] = "CONNECTED"]
             /\ Alike(a, b) /\ b.abort = a.abort
<1> DEFINE v == a.keepalive_event \/ KeepAlive
           e == [a EXCEPT !.keepalive_event = v]
           f == [e EXCEPT !.conn = "OPENED"]
           k == [layer |-> "top", fn |-> "connect", arg |-> NoMsg, st |-> "OK"]
           b == AcceptedOf(a)
<1>1. v \in BOOLEAN BY FieldsOf, TaskAssumption
<1> HIDE DEF v
<1>2. Edits(a, e, {"keepalive_event"}) /\ e.keepalive_event = v BY <1>1, EditEvent
<1> HIDE DEF e
<1>3. e \in Memory /\ "OPENED" \in ConnectionStates BY <1>2 DEF Edits, ConnectionStates
<1>4. Edits(e, f, {"conn"}) /\ f.conn = "OPENED" BY <1>3, EditConn
<1> HIDE DEF f
<1>5. f \in Memory BY <1>4 DEF Edits
<1>6. b = ContinueWith(f, "logic", "connect", "top", NoMsg, "OK")
  <2>1. [a EXCEPT !.keepalive_event = @ \/ KeepAlive, !.conn = "OPENED"] = f BY DEF f, e, v, Memory
  <2> QED BY <2>1 DEF AcceptedOf, OnSucc, Succ
<1>7. k \in Calls
  BY NoMsgIs DEF Calls, CallTypes, Outward, FunctionNames, LayerFunctions, Layers, Statuses
<1>8. "top" \in Layers /\ "logic" \in Layers BY DEF Layers
<1>9. /\ b \in Memory /\ Edits(f, b, {"calls", "layer"}) /\ b.calls = Append(f.calls, k)
      /\ b.layer = [f.layer EXCEPT !["logic"] = NextLayerState("connect", f.layer["logic"], "OK")]
  BY <1>5, <1>6, <1>7, <1>8, ContinueIs
<1> HIDE DEF b
<1>10. Edits(a, b, {"calls", "layer", "conn", "keepalive_event"})
  <2>1. Edits(a, b, ({"keepalive_event"} \cup {"conn"}) \cup {"calls", "layer"})
    BY <1>2, <1>4, <1>9, EditsTrans
  <2>2. ({"keepalive_event"} \cup {"conn"}) \cup {"calls", "layer"}
         = {"calls", "layer", "conn", "keepalive_event"}
    OBVIOUS
  <2> QED BY <2>1, <2>2
<1>11. f.calls = a.calls /\ f.layer = a.layer /\ b.conn = "OPENED" /\ b.keepalive_event = v
  BY <1>2, <1>4, <1>9 DEF Edits, Fields
<1>12. /\ b.task = a.task /\ b.current = a.current /\ b.q0 = a.q0 /\ b.q12 = a.q12 /\ b.saved = a.saved
       /\ b.outcome = a.outcome /\ b.abort = a.abort
  BY <1>10 DEF Edits, Fields
<1>13. Alike(a, b)
  <2>1. Neutral(k) BY NeutralIs
  <2>2. Adds(b.calls, a.calls, k) BY <1>7, <1>9, <1>11, FieldsOf, QueueAppend
  <2> HIDE DEF k
  <2> QED BY <2>1, <2>2, <1>12, AlikeAdds
<1>14. k \in Opened BY <1>7 DEF Opened, With, Kind
<1>15. NextLayerState("connect", f.layer["logic"], "OK") = "CONNECTED" BY DEF NextLayerState
<1> QED BY <1>7, <1>9, <1>10, <1>11, <1>12, <1>13, <1>14, <1>15 DEF b, v

(* The connect task goes on, or opens the connection and is freed.          *)
Opens(a, b) ==
  \E e \in Memory : Led(a, e, "connect") /\ Goes(AcceptedOf(e), b, "connect") /\ Freed(b, "connect")

(* do_mqtt_connect, which opens the connection or ends, and its timer.      *)
LEMMA ConnectGoes ==
  ASSUME NEW a \in Memory, Ready(a, "connect"), Good(a, None), NEW st \in Statuses, NEW m
  PROVE  LET b == DoMqttConnect(a, st, m) IN Goes(a, b, "connect") \/ Opens(a, b)
<1> DEFINE t == "connect"
           P(b) == Goes(a, b, t) \/ Opens(a, b)
           d == CancelTimeout(Check(a, m # NoMsg, "connect_without_message"), t)
           Report(e, s) == OnSucc(e, "logic", "connect", NoMsg, s)
<1>1. t \in Tasks BY TaskNames
<1>2. Led(a, a, t) BY LedSame
<1>3. \A e : Led(a, e, t) => P(e) /\ P(FinalizeTask(e, t))
  <2>1. ASSUME NEW e, Led(a, e, t) PROVE Resumed(a, e, t, TRUE) BY <2>1, <1>1, LedResumed
  <2> QED BY <2>1, <1>1, LedFinal DEF Resumed
<1>4. P([CancelTimeout(a, t) EXCEPT !.task[t].cs = "new"]) BY <1>1, <1>2, <1>3, LedTask
<1>5. P(StartTask(a, t)) BY <1>1, <1>2, <1>3, LedStart
<1>6. P([a EXCEPT !.task[t].cs = "waiting"]) BY <1>1, <1>2, <1>3, LedTask
<1>7. P(FinalizeTask(CancelTimeout(Report(a, "ERR"), t), t))
  <2>1. "ERR" \in Statuses \ {"OK"} BY DEF Statuses
  <2>2. Led(a, Report(a, "ERR"), t) BY <2>1, <1>2, LedReport
  <2>3. Led(a, CancelTimeout(Report(a, "ERR"), t), t) BY <2>2, <1>1, LedTask
  <2> QED BY <2>3, <1>3
<1>8. Led(a, d, t)
  <2>1. Led(a, Check(a, m # NoMsg, "connect_without_message"), t) BY <1>2, AssertNames, LedCheck
  <2> QED BY <2>1, <1>1, LedTask
<1> HIDE DEF d
<1>9. P(FinalizeTask(d, t)) /\ P(FinalizeTask(Report(d, "ERR"), t))
  <2>1. "ERR" \in Statuses \ {"OK"} BY DEF Statuses
  <2>2. Led(a, Report(d, "ERR"), t) BY <2>1, <1>8, LedReport
  <2> QED BY <2>2, <1>3, <1>8
<1>10. P(FinalizeTask(AcceptedOf(d), t))
  <2> DEFINE g == AcceptedOf(d)
  <2>1. d \in Memory /\ Good(d, None) /\ Ready(d, t) BY <1>8, LightStep DEF Led, Good, Light
  <2>2. g \in Memory /\ Alike(d, g) /\ g.abort = d.abort BY <2>1, AcceptedIs
  <2> HIDE DEF g
  <2>3. Good(g, None) /\ Ready(g, t) BY <2>1, <2>2, AlikeGood
  <2>4. Good(g, t)
    <3>1. None \notin UserTasks BY TaskNames
    <3> QED BY <2>3, <3>1 DEF Good, BookBut, Told
  <2>5. Goes(g, FinalizeTask(g, t), t) /\ Freed(FinalizeTask(g, t), t) BY <2>2, <2>3, <2>4, <1>1, Finalize
  <2> QED BY <2>1, <2>5, <1>8 DEF g, Opens
<1>11. DoMqttConnect(a, st, m) =
         IF NotOperational(a, "logic") \/ ~a.data["logic"]
         THEN [CancelTimeout(a, t) EXCEPT !.task[t].cs = "new"]
         ELSE IF a.task[t].cs = "new" THEN StartTask(a, t)
         ELSE IF a.task[t].cs = "sending"
              THEN IF st = "WRITTEN" THEN [a EXCEPT !.task[t].cs = "waiting"]
                   ELSE FinalizeTask(CancelTimeout(Report(a, "ERR"), t), t)
         ELSE IF m.task # t THEN FinalizeTask(d, t)
         ELSE IF m.ok THEN FinalizeTask(AcceptedOf(d), t) ELSE FinalizeTask(Report(d, "ERR"), t)
  BY DEF DoMqttConnect, AcceptedOf, d
<1> HIDE DEF P, Report, t
<1>12. P(DoMqttConnect(a, st, m)) BY <1>4, <1>5, <1>6, <1>7, <1>9, <1>10, <1>11
<1> QED BY <1>12 DEF P, t

LEMMA ConnectTimeoutGoes ==
  ASSUME NEW a \in Memory, Ready(a, "connect"), Good(a, None)
  PROVE  Goes(a, DoMqttConnectTimeout(a), "connect")
<1>1. "connect" \in Tasks /\ "TIMEOUT" \in Statuses \ {"OK"} BY TaskNames DEF Statuses
<1>2. Led(a, OnSucc(a, "logic", "connect", NoMsg, "TIMEOUT"), "connect") BY <1>1, LedSame, LedReport
<1> QED BY <1>1, <1>2, LedFinal DEF DoMqttConnectTimeout

(* The ping goes on, or schedules the next one and is freed.                *)
Rearms(a, b) ==
  \E e \in Memory : Led(a, e, "keepalive") /\ Goes(RearmKeepalive(e), b, "keepalive") /\ Freed(b, "keepalive")

(* The next ping is scheduled while the connection is open.                 *)
LEMMA RearmIs ==
  ASSUME NEW a \in Memory
  PROVE  LET b == RearmKeepalive(a)
         IN  /\ b \in Memory /\ Edits(a, b, {"keepalive_event"}) /\ Alike(a, b) /\ b.abort = a.abort
             /\ b.keepalive_event = (a.keepalive_event \/ a.conn = "OPENED")
<1> DEFINE v == a.keepalive_event \/ a.conn = "OPENED"
           b == RearmKeepalive(a)
<1>1. v \in BOOLEAN BY FieldsOf
<1>2. b = [a EXCEPT !.keepalive_event = v] BY DEF RearmKeepalive
<1> HIDE DEF v, b
<1>3. Edits(a, b, {"keepalive_event"}) /\ b.keepalive_event = v BY <1>1, <1>2, EditEvent
<1>4. /\ b.task = a.task /\ b.current = a.current /\ b.q0 = a.q0 /\ b.q12 = a.q12 /\ b.saved = a.saved
      /\ b.outcome = a.outcome /\ b.abort = a.abort /\ b.calls = a.calls
  BY <1>3 DEF Edits, Fields
<1>5. Alike(a, b) BY <1>4 DEF Alike, Pending
<1> QED BY <1>3, <1>4, <1>5 DEF Edits, v, b

(* do_mqtt_keepalive_task and do_shutdown.                                  *)
LEMMA KeepaliveGoes ==
  ASSUME NEW a \in Memory, Ready(a, "keepalive"), Good(a, None), NEW st \in Statuses, NEW m
  PROVE  LET b == DoMqttKeepaliveTask(a, st, m) IN Goes(a, b, "keepalive") \/ Rearms(a, b)
<1> DEFINE t == "keepalive"
           P(b) == Goes(a, b, t) \/ Rearms(a, b)
           d == CancelTimeout(a, t)
<1>1. t \in Tasks BY TaskNames
<1>2. Led(a, a, t) /\ Led(a, d, t) BY <1>1, LedSame, LedTask
<1>3. \A e : Led(a, e, t) => P(e) /\ P(FinalizeTask(e, t))
  <2>1. ASSUME NEW e, Led(a, e, t) PROVE Resumed(a, e, t, TRUE) BY <2>1, <1>1, LedResumed
  <2> QED BY <2>1, <1>1, LedFinal DEF Resumed
<1>4. P(Send(a, t)) BY <1>1, <1>2, <1>3, LedSend
<1>5. P(ArmTimeout([CheckNoTimer(a, t, "keepalive_written") EXCEPT !.task[t].cs = "waiting"], t))
  <2> DEFINE e == CheckNoTimer(a, t, "keepalive_written")
             f == [e EXCEPT !.task[t].cs = "waiting"]
  <2>1. Led(a, e, t) BY <1>2, AssertNames, LedNoTimer
  <2> HIDE DEF e
  <2>2. Led(a, f, t) BY <2>1, <1>1, LedTask
  <2> HIDE DEF f
  <2>3. P(ArmTimeout(f, t)) BY <2>2, <1>1, <1>3, LedTask
  <2> QED BY <2>3 DEF e, f
<1>6. P(OnPrev([CheckNoTimer(a, t, "keepalive_timer") EXCEPT !.task[t].cs = "new"],
               "logic", "close", NoMsg, "TIMEOUT"))
  <2> DEFINE e == CheckNoTimer(a, t, "keepalive_timer")
             f == [e EXCEPT !.task[t].cs = "new"]
  <2>1. Led(a, e, t) BY <1>2, AssertNames, LedNoTimer
  <2> HIDE DEF e
  <2>2. Led(a, f, t) BY <2>1, <1>1, LedTask
  <2> HIDE DEF f
  <2>3. "TIMEOUT" \in Statuses BY DEF Statuses
  <2>4. P(OnPrev(f, "logic", "close", NoMsg, "TIMEOUT")) BY <2>2, <2>3, <1>3, LedClose
  <2> QED BY <2>4 DEF e, f
<1>7. P(FinalizeTask(d, t)) BY <1>2, <1>3
<1>8. P(FinalizeTask(RearmKeepalive(d), t))
  <2> DEFINE g == RearmKeepalive(d)
  <2>1. d \in Memory /\ Good(d, None) /\ Ready(d, t) BY <1>2, LightStep DEF Led, Good, Light
  <2>2. g \in Memory /\ Alike(d, g) /\ g.abort = d.abort BY <2>1, RearmIs
  <2> HIDE DEF g, d
  <2>3. Good(g, None) /\ Ready(g, t) BY <2>1, <2>2, AlikeGood
  <2>4. Good(g, t)
    <3>1. None \notin UserTasks BY TaskNames
    <3> QED BY <2>3, <3>1 DEF Good, BookBut, Told
  <2>5. Goes(g, FinalizeTask(g, t), t) /\ Freed(FinalizeTask(g, t), t) BY <2>2, <2>3, <2>4, <1>1, Finalize
  <2> QED BY <2>1, <2>5, <1>2 DEF g, Rearms
<1>9. P(a) BY <1>2, <1>3
<1>10. DoMqttKeepaliveTask(a, st, m) \in
         {a, Send(a, t),
          ArmTimeout([CheckNoTimer(a, t, "keepalive_written") EXCEPT !.task[t].cs = "waiting"], t),
          OnPrev([CheckNoTimer(a, t, "keepalive_timer") EXCEPT !.task[t].cs = "new"],
                 "logic", "close", NoMsg, "TIMEOUT"),
          FinalizeTask(RearmKeepalive(d), t), FinalizeTask(d, t)}
  BY DEF DoMqttKeepaliveTask
<1> HIDE DEF P, t, d
<1>11. P(DoMqttKeepaliveTask(a, st, m)) BY <1>4, <1>5, <1>6, <1>7, <1>8, <1>9, <1>10
<1> QED BY <1>11 DEF P, t

LEMMA ShutdownGoes ==
  ASSUME NEW a \in Memory, Ready(a, "shutdown"), Good(a, None), NEW st \in Statuses
  PROVE  Goes(a, DoShutdown(a, st), "shutdown")
<1> DEFINE t == "shutdown"
<1>1. t \in Tasks /\ "OK" \in Statuses BY TaskNames DEF Statuses
<1>2. Led(a, a, t) /\ Led(a, Send(a, t), t) BY <1>1, LedSame, LedSend
<1>3. a.data["logic"] => Led(a, LogicClose(a, "OK"), t)
  <2>1. Led(a, OnPrev(a, "logic", "close", NoMsg, "OK"), t) BY <1>1, <1>2, LedClose
  <2> QED BY <2>1 DEF LogicClose
<1>4. a.data["logic"] => Led(a, [LogicClose(a, "OK") EXCEPT !.task[t].cs = "new"], t)
  BY <1>1, <1>3, LedTask
<1>5. Goes(a, a, t) /\ Goes(a, Send(a, t), t)
  <2>1. Resumed(a, a, t, TRUE) /\ Resumed(a, Send(a, t), t, TRUE) BY <1>1, <1>2, LedResumed
  <2> QED BY <2>1 DEF Resumed
<1>6. a.data["logic"] => Goes(a, FinalizeTask([LogicClose(a, "OK") EXCEPT !.task[t].cs = "new"], t), t)
  BY <1>1, <1>4, LedFinal
<1> QED BY <1>5, <1>6 DEF DoShutdown

(* xi_evtd_execute_handle: any task of the layer, resumed.                  *)
LEMMA ResumeIs ==
  ASSUME NEW a \in Memory, NEW t \in Tasks, Ready(a, t), Good(a, None), NEW st \in Statuses, NEW m
  PROVE  LET b == Resume(a, t, st, m)
         IN  /\ \/ Goes(a, b, t)
                \/ t = "connect" /\ Opens(a, b)
                \/ t = "keepalive" /\ Rearms(a, b)
             /\ Outcome(a, b, t, t \in Q1 \cup Subs =>
                                    /\ st = "OK" /\ (t \in Q1 <=> m.task \in Q1)
                                    /\ m.task \in Q1 \cup SubTasks)
<1> DEFINE may == t \in Q1 \cup Subs => st = "OK" /\ (t \in Q1 <=> m.task \in Q1) /\ m.task \in Q1 \cup SubTasks
           b == Resume(a, t, st, m)
<1>1. /\ Q0 \cap (Q1 \cup SubTasks \cup Internal) = {} /\ Q1 \cap (SubTasks \cup Internal) = {}
      /\ Subs \cap Internal = {} /\ Tasks = Q0 \cup Q1 \cup SubTasks \cup {"connect", "keepalive", "shutdown"}
      /\ SubTasks = Subs \cup {"control"}
      /\ Internal = {"connect", "keepalive", "shutdown", "control"} /\ UserTasks = Q0 \cup Q1 \cup Subs
  BY TaskAssumption DEF SubTasks, Tasks, Internal, UserTasks
<1>2. CASE t \in Q0
  <2>1. b = DoMqttPublishQ0(a, t, st, m) BY <1>1, <1>2 DEF Resume
  <2>2. TRUE => may BY <1>1, <1>2
  <2>3. Resumed(a, b, t, may) BY <2>1, <2>2, <1>2, Q0Resumed, ResumedMay
  <2> QED BY <2>3 DEF Resumed
<1>3. CASE t \in Q1
  <2>1. b = DoMqttPublishQ1(a, t, st, m) BY <1>1, <1>3 DEF Resume
  <2>2. st = "OK" /\ m.task \in Q1 => may BY <1>1, <1>3
  <2>3. Resumed(a, b, t, may) BY <2>1, <2>2, <1>3, Q1Resumed, ResumedMay
  <2> QED BY <2>3 DEF Resumed
<1>4. CASE t \in SubTasks
  <2>1. b = DoMqttSubscribe(a, t, st, m) BY <1>1, <1>4 DEF Resume
  <2>2. st = "OK" /\ m.task \in SubTasks => may BY <1>1, <1>4
  <2>3. Resumed(a, b, t, may) BY <2>1, <2>2, <1>4, SubscribeResumed, ResumedMay
  <2> QED BY <2>3 DEF Resumed
<1>5. CASE t = "connect"
  <2>1. b = DoMqttConnect(a, st, m) BY <1>1, <1>5 DEF Resume
  <2>2. t \notin UserTasks BY <1>1, <1>5
  <2> QED BY <2>1, <2>2, <1>5, ConnectGoes DEF Outcome
<1>6. CASE t = "keepalive"
  <2>1. b = DoMqttKeepaliveTask(a, st, m) BY <1>1, <1>6 DEF Resume
  <2>2. t \notin UserTasks BY <1>1, <1>6
  <2> QED BY <2>1, <2>2, <1>6, KeepaliveGoes DEF Outcome
<1>7. CASE t = "shutdown"
  <2>1. b = DoShutdown(a, st) BY <1>1, <1>7 DEF Resume
  <2>2. t \notin UserTasks BY <1>1, <1>7
  <2> QED BY <2>1, <2>2, <1>7, ShutdownGoes DEF Outcome
<1> QED BY <1>1, <1>2, <1>3, <1>4, <1>5, <1>6, <1>7

-----------------------------------------------------------------------------
(* A new task.                                                              *)
Waits(a, t) ==
  /\ a.task[t].cs \notin {"none", "freed"} /\ t \notin Queued(a) /\ ~Pending(a, t)
  /\ t = "control" => a.task[t].session = "DO_NOT_STORE"
  /\ t \in UserTasks => a.task[t].session = "UNSET"

Makes(a, b, t, s) ==
  /\ b \in Memory /\ Edits(a, b, {"task"})
  /\ b.task[t].cs = "new" /\ ~b.task[t].timeout /\ b.task[t].session = s
  /\ \A u \in Tasks \ {t} : b.task[u] = a.task[u]

(* Making a task.                                                           *)
LEMMA MakeIs ==
  ASSUME NEW a \in Memory, NEW t \in Tasks, NEW s \in {"UNSET", "DO_NOT_STORE"}
  PROVE  Makes(a, MakeTask(a, t, s), t, s)
<1> DEFINE r == [cs |-> "new", timeout |-> FALSE, session |-> s, id |-> 0]
           v == [a.task EXCEPT ![t] = r]
           b == MakeTask(a, t, s)
<1>1. a.task \in [Tasks -> TaskTypes] BY FieldsOf
<1>2. r \in TaskTypes
  <2>1. 0 \in 0 .. (IdMod - 1) BY TaskAssumption
  <2> QED BY <2>1 DEF TaskTypes, Coroutine
<1>3. v \in [Tasks -> TaskTypes] /\ v[t] = r /\ \A u \in Tasks \ {t} : v[u] = a.task[u]
  <2> HIDE DEF r
  <2> QED BY <1>1, <1>2
<1>4. b = [a EXCEPT !.task = v] BY DEF MakeTask
<1> HIDE DEF v, b
<1>5. Edits(a, b, {"task"}) /\ b.task = v BY <1>3, <1>4, EditTask
<1> QED BY <1>3, <1>5 DEF Edits, b, Makes

(* A new task is alive and nowhere yet.                                     *)
LEMMA MakeBook ==
  ASSUME NEW a \in Memory, NEW t \in Tasks, NEW s \in {"UNSET", "DO_NOT_STORE"}, Book(a),
         t \notin Queued(a), ~Pending(a, t), t \in UserTasks => a.task[t].cs = "none" /\ s = "UNSET",
         t = "control" => s = "DO_NOT_STORE"
  PROVE  LET b == MakeTask(a, t, s)
         IN  /\ Book(b) /\ Waits(b, t) /\ Queued(b) = Queued(a)
             /\ \A u \in UserTasks \ {t} : Fate(b, u) = Fate(a, u)
             /\ t \in UserTasks => Fate(a, t) = "idle" /\ Fate(b, t) = "accepted"
<1> DEFINE b == MakeTask(a, t, s)
<1>1. /\ b \in Memory /\ Edits(a, b, {"task"})
      /\ b.task[t].cs = "new" /\ ~b.task[t].timeout /\ b.task[t].session = s
      /\ \A u \in Tasks \ {t} : b.task[u] = a.task[u]
  <2>1. Makes(a, b, t, s) BY MakeIs
  <2> HIDE DEF b
  <2> QED BY <2>1 DEF Makes
<1> HIDE DEF b
<1>2. /\ b.current = a.current /\ b.q0 = a.q0 /\ b.q12 = a.q12 /\ b.saved = a.saved
      /\ b.outcome = a.outcome /\ b.calls = a.calls
  BY <1>1 DEF Edits, Fields
<1>3. Queued(b) = Queued(a) /\ \A u : At(b, u) <=> At(a, u) BY <1>2 DEF Queued, At
<1>4. \A u : (Pending(b, u) <=> Pending(a, u)) /\ (Heard(b, u) <=> Heard(a, u)) /\ (WasOk(b, u) <=> WasOk(a, u))
  BY <1>2 DEF Pending, Heard, WasOk
<1>5. t \in UserTasks => ~Heard(a, t)
  <2>1. None \notin UserTasks BY TaskNames
  <2> QED BY <2>1 DEF Book, BookBut, Told
<1>6. UserTasks \subseteq Tasks /\ "control" \in Tasks \ UserTasks BY TaskNames
<1>7. Timers(b) BY <1>1, <1>3 DEF Book, BookBut, Timers
<1>8. Lives(b) BY <1>1, <1>3, <1>4 DEF Book, BookBut, Lives
<1>9. Once(b) BY <1>2, <1>3, <1>4 DEF Book, BookBut, Once
<1>10. Told(b, None)
  <2> SUFFICES ASSUME NEW u \in UserTasks
               PROVE  /\ Heard(b, u) /\ u # None => b.task[u].cs = "freed"
                      /\ One(b.calls, CallbackOf(u)) /\ Len(b.outcome[u]) <= 1
                      /\ Has(b.calls, CallbackOf(u)) => b.outcome[u] = <<>>
    BY DEF Told
  <2>1. CASE u = t BY <2>1, <1>2, <1>4, <1>5 DEF Book, BookBut, Told
  <2>2. CASE u # t BY <2>2, <1>1, <1>2, <1>4, <1>6 DEF Book, BookBut, Told
  <2> QED BY <2>1, <2>2
<1>11. Sessions1(b)
  <2>1. ASSUME NEW u \in UserTasks, b.task[u].session # "UNSET"
        PROVE  u \in Q1 \cup Subs /\ b.task[u].session = "STORE" /\ ~Pending(b, u)
    BY <2>1, <1>1, <1>4, <1>6 DEF Book, BookBut, Sessions1
  <2>2. ASSUME "control" \in Queued(b) \/ Pending(b, "control") PROVE b.task["control"].session = "DO_NOT_STORE"
    <3>1. "control" \in Queued(a) \/ Pending(a, "control") BY <2>2, <1>3, <1>4
    <3>2. "control" # t BY <3>1
    <3> QED BY <3>1, <3>2, <1>1, <1>6 DEF Book, BookBut, Sessions1
  <2>3. "control" \notin Range(b.saved) BY <1>2 DEF Book, BookBut, Sessions1
  <2> QED BY <2>1, <2>2, <2>3 DEF Sessions1
<1>12. Waits(b, t) BY <1>1, <1>3, <1>4 DEF Waits
<1>13. \A u \in UserTasks \ {t} : Fate(b, u) = Fate(a, u) BY <1>1, <1>4, <1>6 DEF Fate
<1>14. t \in UserTasks => Fate(a, t) = "idle" /\ Fate(b, t) = "accepted" BY <1>1, <1>4, <1>5 DEF Fate
<1> QED BY <1>3, <1>7, <1>8, <1>9, <1>10, <1>11, <1>12, <1>13, <1>14 DEF Book, BookBut, b

(* From a to b, the new task t was put in a queue.                          *)
Queues(a, b, t) ==
  /\ Edits(a, b, {"task", "last_msg_id", "q12", "q0", "abort"})
  /\ b.abort = "none" =>
       /\ a.abort = "none"
       /\ \A u \in Tasks : /\ b.task[u].cs = a.task[u].cs /\ b.task[u].timeout = a.task[u].timeout
                           /\ b.task[u].session = a.task[u].session
                           /\ u # t => b.task[u].id = a.task[u].id
       /\ Queued(b) = Queued(a) \cup {t}
       /\ Range(a.q12) \subseteq Range(b.q12)
       /\ Distinct(a.q0) /\ t \notin Range(a.q0) => Distinct(b.q0)
       /\ IF t \in Q12 THEN /\ b.q0 = a.q0 /\ Range(b.q12) = Range(a.q12) \cup {t}
                            /\ b.last_msg_id = (a.last_msg_id + 1) % IdMod
                            /\ b.task[t].id = b.last_msg_id
                            /\ \A u \in Range(a.q12) : a.task[u].id # b.last_msg_id
                       ELSE /\ b.q12 = a.q12 /\ Range(b.q0) = Range(a.q0) \cup {t} /\ b.task = a.task
                            /\ b.last_msg_id = a.last_msg_id

(* Then it gets its place in a queue.                                       *)
LEMMA QueuesBook ==
  ASSUME NEW a \in Memory, NEW b, NEW t \in Tasks, Queues(a, b, t), Book(a), Waits(a, t)
  PROVE  /\ b \in Memory /\ Good(b, None) /\ (t \in Q12 => Ready(b, t))
         /\ b.abort = "none" => \A u \in UserTasks : Fate(b, u) = Fate(a, u)
<1>1. b \in Memory BY DEF Queues, Edits
<1> SUFFICES ASSUME b.abort = "none"
             PROVE  /\ Book(b) /\ (t \in Q12 => At(b, t) /\ b.task[t].cs \notin {"none", "freed"})
                    /\ \A u \in UserTasks : Fate(b, u) = Fate(a, u)
  BY <1>1 DEF Good, Book, Ready
<1>2. /\ b.current = a.current /\ b.saved = a.saved /\ b.outcome = a.outcome /\ b.calls = a.calls
  BY DEF Queues, Edits, Fields
<1>3. /\ \A u \in Tasks : /\ b.task[u].cs = a.task[u].cs /\ b.task[u].timeout = a.task[u].timeout
                          /\ b.task[u].session = a.task[u].session
      /\ Queued(b) = Queued(a) \cup {t} /\ Range(a.q12) \subseteq Range(b.q12)
      /\ Distinct(a.q0) /\ t \notin Range(a.q0) => Distinct(b.q0)
      /\ Range(b.q12) \subseteq Range(a.q12) \cup {t} /\ Range(b.q0) \subseteq Range(a.q0) \cup {t}
      /\ t \in Q12 => Range(b.q12) = Range(a.q12) \cup {t}
      /\ t \notin Q12 => b.q12 = a.q12
  BY DEF Queues
<1>4. \A u : /\ Pending(b, u) <=> Pending(a, u)
             /\ Heard(b, u) <=> Heard(a, u)
             /\ WasOk(b, u) <=> WasOk(a, u)
  BY <1>2 DEF Pending, Heard, WasOk
<1>5. UserTasks \subseteq Tasks /\ "control" \in Tasks /\ t # None BY TaskNames
<1>6. t \notin Queued(a) /\ ~Pending(a, t) BY DEF Waits
<1>7. t # a.current /\ t \notin Range(a.q0) /\ t \notin Range(a.saved) /\ t \notin Range(a.q12)
  BY <1>5, <1>6 DEF Queued
<1>8. Timers(b) BY <1>2, <1>3 DEF Book, BookBut, Timers, At
<1>9. Lives(b) BY <1>3, <1>4 DEF Book, BookBut, Lives, Waits
<1>10. Once(b)
  <2>1. Distinct(b.q0) /\ b.current \notin Range(b.q0) BY <1>2, <1>3, <1>7 DEF Book, BookBut, Once
  <2>2. Range(b.q12) \cap Range(b.saved) = {} BY <1>2, <1>3, <1>7 DEF Book, BookBut, Once
  <2>3. \A u \in Tasks : One(b.calls, PushOf(u)) /\ (Pending(b, u) => u \notin Queued(b))
    BY <1>2, <1>3, <1>4, <1>6 DEF Book, BookBut, Once
  <2> QED BY <2>1, <2>2, <2>3 DEF Once
<1>11. Told(b, None) BY <1>2, <1>3, <1>4, <1>5 DEF Book, BookBut, Told
<1>12. Sessions1(b) BY <1>2, <1>3, <1>4, <1>5 DEF Book, BookBut, Sessions1, Waits
<1>13. \A u \in UserTasks : Fate(b, u) = Fate(a, u) BY <1>3, <1>4, <1>5 DEF Fate
<1>14. t \in Q12 => At(b, t) /\ b.task[t].cs \notin {"none", "freed"} BY <1>3 DEF At, Waits
<1> QED BY <1>8, <1>9, <1>10, <1>11, <1>12, <1>13, <1>14 DEF Book, BookBut

-----------------------------------------------------------------------------
(* What holds of the memory survives the moves of the engine.               *)
LEMMA MovesCalls ==
  ASSUME NEW a \in Memory, NEW b, NEW x, Moves(a, b, GoFields, x), b.abort = "none"
  PROVE  /\ \A S \in {Inits, LogicInits, Opened, Tokens, Gone("codec"), Gone("logic"), Gone("top")} :
              (Has(b.calls, S) <=> Has(a.calls, S)) /\ (One(b.calls, S) <=> One(a.calls, S))
         /\ \A t : Pending(b, t) <=> Pending(a, t)
<1>1. Grows(a.calls, b.calls, Loud(a)) /\ a.calls \in Seq(Calls) BY FieldsOf DEF Moves
<1>2. \A S : S \cap Loud(a) = {} =>
        (Has(b.calls, S) <=> Has(a.calls, S)) /\ (One(b.calls, S) <=> One(a.calls, S))
  BY <1>1, GrownQueue
<1>3. \A S : S \cap Plain(a) = {} /\ S \cap Kind("user", "callback") = {} => S \cap Loud(a) = {} BY DEF Loud
<1>4. ASSUME NEW k \in Kind("user", "callback")
      PROVE  /\ k \notin Inits /\ k \notin LogicInits /\ k \notin Opened /\ k \notin Tokens
             /\ (\A l \in {"codec", "logic", "top"} : k \notin Gone(l)) /\ \A t : k \notin PushOf(t)
  BY DEF Inits, LogicInits, Opened, Tokens, Gone, PushOf, With, Kind
<1>5. ASSUME NEW S \in {Inits, LogicInits, Opened, Tokens, Gone("codec"), Gone("logic"), Gone("top")}
      PROVE  S \cap Loud(a) = {}
  BY <1>3, <1>4, PlainIsNot
<1>6. ASSUME NEW t PROVE PushOf(t) \cap Loud(a) = {} BY <1>3, <1>4, PlainIsNot
<1> QED BY <1>2, <1>5, <1>6 DEF Pending

(* Moves within an open connection leave its structure alone.               *)
LEMMA MovesStruct ==
  ASSUME NEW a \in Memory, NEW b, NEW x, Moves(a, b, GoFields, x), b.abort = "none",
         ~Starting(a), a.data["logic"]
  PROVE  /\ ~Starting(b) /\ b.data = a.data /\ b.conn = a.conn /\ b.session = a.session
         /\ b.connect_handler = a.connect_handler /\ Queued(b) \subseteq Queued(a)
         /\ StartInv(a) => StartInv(b)
         /\ DataInv(a) => DataInv(b)
         /\ EndInv(a) => EndInv(b)
         /\ CodecInv(a) => CodecInv(b)
         /\ ConnectOnce(a) => ConnectOnce(b)
         /\ PingOnce(a) => PingOnce(b)
         /\ RestOnce(a) => RestOnce(b)
<1>1. /\ b.data = a.data /\ b.conn = a.conn /\ b.session = a.session /\ b.io = a.io /\ b.queue = a.queue
      /\ b.connect_handler = a.connect_handler /\ b.shutdown_started = a.shutdown_started
      /\ b.keepalive_event = a.keepalive_event
  BY DEF Moves, GoFields, LightFields, Fields
<1>2. Queued(b) \subseteq Queued(a) BY DEF Moves, Narrow
<1>3. /\ \A S \in {Inits, LogicInits, Opened, Tokens, Gone("codec"), Gone("logic"), Gone("top")} :
           (Has(b.calls, S) <=> Has(a.calls, S)) /\ (One(b.calls, S) <=> One(a.calls, S))
      /\ \A t : Pending(b, t) <=> Pending(a, t)
  BY MovesCalls
<1>4. ~Starting(b) /\ ~Has(b.calls, Inits) /\ b.io # "connecting" BY <1>1, <1>3 DEF Starting
<1>5. StartInv(a) => StartInv(b)
  <2>1. ASSUME NEW S, S \subseteq Inits PROVE ~Has(b.calls, S) BY <2>1, <1>4 DEF Has
  <2>2. /\ LogicInits \subseteq Inits /\ Kind("codec", "init") \subseteq Inits /\ Kind("io", "init") \subseteq Inits
        /\ Kind("io", "connect") \subseteq Inits /\ Inits \ LogicInits \subseteq Inits
        /\ With("codec", "connect", "OK") \cup With("logic", "connect", "OK") \subseteq Inits
    BY DEF Inits
  <2> QED BY <2>1, <2>2, <1>3, <1>4 DEF StartInv
<1>6. DataInv(a) => DataInv(b) BY <1>1, <1>3 DEF DataInv, Rest
<1>7. EndInv(a) => EndInv(b) BY <1>1, <1>3 DEF EndInv
<1>8. CodecInv(a) => CodecInv(b) BY <1>1, <1>3 DEF CodecInv
<1>9. ConnectOnce(a) => ConnectOnce(b) BY <1>1, <1>2, <1>3 DEF ConnectOnce
<1>10. PingOnce(a) => PingOnce(b) BY <1>1, <1>2 DEF PingOnce
<1>11. RestOnce(a) => RestOnce(b) BY <1>1, <1>2, <1>3 DEF RestOnce
<1> QED BY <1>1, <1>2, <1>4, <1>5, <1>6, <1>7, <1>8, <1>9, <1>10, <1>11

(* The messages on their way still name their tasks.                        *)
LEMMA MovesKeeps ==
  ASSUME NEW a \in Memory, NEW b, NEW x, Moves(a, b, GoFields, x), b.abort = "none"
  PROVE  Keeps(a, b)
<1> SUFFICES ASSUME Ids(a), Mail(a), AllName(a, a.queue)
             PROVE  /\ Ids(b) /\ Mail(b) /\ AllName(b, b.queue)
                    /\ \A m : Names(a, m) => Names(b, m)
  BY DEF Keeps
<1>1. /\ b.data = a.data /\ b.last_msg_id = a.last_msg_id /\ b.saved_id = a.saved_id /\ b.queue = a.queue
      /\ b.saved = a.saved
  BY DEF Moves, GoFields, LightFields, Fields
<1>2. /\ \A t \in Tasks : /\ b.task[t].id = a.task[t].id
                          /\ b.task[t].cs = "none" <=> a.task[t].cs = "none"
      /\ Range(b.q12) \subseteq Range(a.q12)
  BY DEF Moves, Narrow
<1>3. Q12 \subseteq Tasks /\ UserTasks \subseteq Tasks BY TaskNames
<1>4. a.q12 \in Seq(Q12) /\ a.saved \in Seq(Q12) BY FieldsOf
<1>5. Range(a.q12) \subseteq Tasks /\ Range(a.saved) \subseteq Tasks BY <1>3, <1>4, RangeIs
<1>6. Ids(b) BY <1>1, <1>2, <1>5 DEF Ids
<1>7. ASSUME NEW m, Names(a, m) PROVE Names(b, m) BY <1>7, <1>1, <1>2, <1>3, <1>5 DEF Names
<1>8. ASSUME NEW m, Own(a, m) PROVE Names(b, m) BY <1>8, <1>1, <1>2, <1>3, <1>5 DEF Own, Names, Ids
<1>9. AllName(b, b.queue) BY <1>1, <1>7 DEF AllName
<1>10. Grows(a.calls, b.calls, Loud(a)) /\ a.calls \in Seq(Calls) BY FieldsOf DEF Moves
<1>11. ASSUME NEW i \in 1 .. Len(b.calls)
       PROVE  /\ Outward(b.calls[i]) \/ (b.calls[i].layer = "logic" /\ b.calls[i].fn = "pull")
                   => Names(b, b.calls[i].arg)
              /\ b.calls[i].layer = "codec" /\ b.calls[i].fn = "pull" => AllName(b, b.calls[i].arg)
  <2>1. CASE i \in 1 .. Len(a.calls)
    <3>1. b.calls[i] = a.calls[i] BY <2>1, <1>10 DEF Grows
    <3> QED BY <2>1, <3>1, <1>7 DEF Mail, AllName
  <2>2. CASE i \notin 1 .. Len(a.calls)
    <3>1. i > Len(a.calls)
      <4>1. Len(a.calls) \in Nat /\ Len(b.calls) \in Nat BY <1>10 DEF Grows
      <4> QED BY <4>1, <2>2
    <3>2. b.calls[i] \in Loud(a) BY <3>1, <1>10 DEF Grows
    <3>3. \/ b.calls[i].layer = "codec" /\ b.calls[i].fn = "push" /\ Own(a, b.calls[i].arg)
          \/ b.calls[i].layer = "codec" /\ b.calls[i].fn = "close"
          \/ b.calls[i].layer = "user" /\ b.calls[i].fn \in {"message", "callback"}
          \/ b.calls[i].layer = "top" /\ b.calls[i].fn = "connect"
      BY <3>2 DEF Loud, Plain, With, Kind
    <3> QED BY <3>3, <1>8 DEF Outward
  <2> QED BY <2>1, <2>2
<1>12. Mail(b) BY <1>11 DEF Mail
<1> QED BY <1>6, <1>7, <1>9, <1>12

-----------------------------------------------------------------------------
(* A step of the engine from a to b, in which the fate of x may change.     *)
Leads(a, b, x) ==
  /\ b \in Memory
  /\ b.abort = "none" =>
       /\ Sound(b) /\ ~Starting(b) /\ b.data = a.data /\ b.session = a.session
       /\ b.connect_handler = a.connect_handler /\ Keeps(a, b)
       /\ \A t \in UserTasks \ {x} : Fate(b, t) = Fate(a, t)

(* Messages keep their tasks twice.                                         *)
LEMMA KeepsTrans ==
  ASSUME NEW a, NEW b, NEW d, Keeps(a, b), Keeps(b, d)
  PROVE  Keeps(a, d)
BY DEF Keeps

(* A coroutine that goes on keeps the invariant.                            *)
LEMMA GoesLeads ==
  ASSUME NEW a \in Memory, NEW b, NEW x, Goes(a, b, x), a.abort = "none" => Fit(a) /\ ~Starting(a) /\ a.data["logic"]
  PROVE  Leads(a, b, x)
<1>1. Moves(a, b, GoFields, x) /\ Good(b, None) /\ b \in Memory BY DEF Goes, Moves
<1> SUFFICES ASSUME b.abort = "none"
             PROVE  /\ Sound(b) /\ ~Starting(b) /\ b.data = a.data /\ b.session = a.session
                    /\ b.connect_handler = a.connect_handler /\ Keeps(a, b)
                    /\ \A t \in UserTasks \ {x} : Fate(b, t) = Fate(a, t)
  BY <1>1 DEF Leads
<1>2. a.abort = "none" /\ \A t \in UserTasks \ {x} : Fate(b, t) = Fate(a, t) BY <1>1 DEF Moves
<1>3. Book(b) BY <1>1 DEF Good, Book
<1>4. Keeps(a, b) BY <1>1, MovesKeeps
<1>5. /\ ~Starting(b) /\ b.data = a.data /\ b.session = a.session
      /\ b.connect_handler = a.connect_handler /\ Fit(b)
  BY <1>1, <1>2, MovesStruct DEF Fit, InternalInv
<1> QED BY <1>2, <1>3, <1>4, <1>5 DEF Sound

(* Until it is freed, the task that just opened the connection (or armed    *)
(* the next ping) is the only one out of place.                             *)
LEMMA FreesLeads ==
  ASSUME NEW a \in Memory, NEW b, NEW x, Goes(a, b, x), Freed(b, x),
         a.abort = "none" =>
           /\ ~Starting(a) /\ a.data["logic"] /\ StartInv(a) /\ DataInv(a) /\ EndInv(a) /\ CodecInv(a)
           /\ RestOnce(a) /\ (x = "connect" \/ ConnectOnce(a)) /\ (x = "keepalive" \/ PingOnce(a))
  PROVE  Leads(a, b, x)
<1>1. Moves(a, b, GoFields, x) /\ Good(b, None) /\ b \in Memory BY DEF Goes, Moves
<1> SUFFICES ASSUME b.abort = "none"
             PROVE  /\ Sound(b) /\ ~Starting(b) /\ b.data = a.data /\ b.session = a.session
                    /\ b.connect_handler = a.connect_handler /\ Keeps(a, b)
                    /\ \A t \in UserTasks \ {x} : Fate(b, t) = Fate(a, t)
  BY <1>1 DEF Leads
<1>2. a.abort = "none" /\ \A t \in UserTasks \ {x} : Fate(b, t) = Fate(a, t) BY <1>1 DEF Moves
<1>3. Book(b) BY <1>1 DEF Good, Book
<1>4. Keeps(a, b) BY <1>1, MovesKeeps
<1>5. /\ ~Starting(b) /\ b.data = a.data /\ b.session = a.session
      /\ b.connect_handler = a.connect_handler /\ StartInv(b) /\ DataInv(b) /\ EndInv(b) /\ CodecInv(b)
      /\ RestOnce(b) /\ (x = "connect" \/ ConnectOnce(b)) /\ (x = "keepalive" \/ PingOnce(b))
  BY <1>1, <1>2, MovesStruct
<1>6. x \notin Queued(b) BY DEF Freed
<1>7. ConnectOnce(b) /\ PingOnce(b) BY <1>5, <1>6 DEF ConnectOnce, PingOnce
<1> QED BY <1>2, <1>3, <1>4, <1>5, <1>7 DEF Sound, Fit, InternalInv

(* What changes no fate may come before it.                                 *)
LEMMA LeadsThrough ==
  ASSUME NEW a, NEW b, NEW d, NEW x, Leads(b, d, x),
         d.abort = "none" =>
           /\ b.data = a.data /\ b.session = a.session
           /\ b.connect_handler = a.connect_handler /\ Keeps(a, b)
           /\ \A t \in UserTasks \ {x} : Fate(b, t) = Fate(a, t)
  PROVE  Leads(a, d, x)
<1> SUFFICES ASSUME d.abort = "none"
             PROVE  /\ Sound(d) /\ ~Starting(d) /\ d.data = a.data /\ d.session = a.session
                    /\ d.connect_handler = a.connect_handler /\ Keeps(a, d)
                    /\ \A t \in UserTasks \ {x} : Fate(d, t) = Fate(a, t)
  BY DEF Leads
<1>1. Keeps(a, d) BY KeepsTrans DEF Leads
<1> QED BY <1>1 DEF Leads

(* Every task of the layer is held by it.                                   *)
LEMMA LayersTask ==
  ASSUME NEW a \in Memory, a.abort = "none", Sound(a), NEW t, At(a, t)
  PROVE  /\ Ready(a, t) /\ t \in Tasks /\ t \in Queued(a) /\ a.data["logic"] /\ Good(a, None)
         /\ ~a.connect_handler
<1>1. t \in Tasks /\ t # None BY TaskNames DEF At
<1>2. t \in Queued(a) BY <1>1 DEF At, Queued
<1>3. a.task[t].cs \notin {"none", "freed"} BY <1>1, <1>2 DEF Sound, Book, BookBut, Lives
<1>4. a.data["logic"]
  <2>1. Range(<<>>) = {} BY DEF Range
  <2>2. "logic" \in Layers /\ a.data["logic"] \in BOOLEAN BY FieldsOf DEF Layers
  <2> QED BY <2>1, <2>2, <1>1 DEF At, Sound, Fit, DataInv
<1>5. ~a.connect_handler BY <1>4 DEF Sound, Fit, DataInv
<1> QED BY <1>1, <1>2, <1>3, <1>4, <1>5 DEF Ready, Good, Sound, Book

(* So does one that is only led,                                            *)
LEMMA LightStruct ==
  ASSUME NEW a \in Memory, NEW b, NEW t, Led(a, b, t), b.abort = "none", Sound(a), ~Starting(a), a.data["logic"]
  PROVE  Leads(a, b, t) /\ a.abort = "none" /\ b.conn = a.conn /\ At(b, t)
<1>1. Light(a, b, t) /\ b \in Memory /\ Ready(b, t) BY DEF Led
<1>2. Moves(a, b, LightFields, t) /\ Book(b) BY <1>1, LightStep DEF Sound, Book
<1>3. Moves(a, b, GoFields, t) BY <1>2, MovesLight
<1>4. a.abort = "none" /\ \A u \in UserTasks \ {t} : Fate(b, u) = Fate(a, u) BY <1>2 DEF Moves
<1>5. /\ ~Starting(b) /\ b.data = a.data /\ b.session = a.session /\ b.conn = a.conn
      /\ b.connect_handler = a.connect_handler /\ Fit(b)
  BY <1>3, MovesStruct DEF Sound, Fit, InternalInv
<1> QED BY <1>1, <1>2, <1>3, <1>4, <1>5, MovesKeeps DEF Sound, Ready, Leads

(* one that opens the connection,                                           *)
LEMMA OpensLeads ==
  ASSUME NEW a \in Memory, NEW b, Opens(a, b), Sound(a), ~Starting(a), a.data["logic"]
  PROVE  Leads(a, b, "connect")
<1> DEFINE t == "connect"
<1>1. PICK e \in Memory : Led(a, e, t) /\ Goes(AcceptedOf(e), b, t) /\ Freed(b, t) BY DEF Opens
<1> DEFINE g == AcceptedOf(e)
           k == [layer |-> "top", fn |-> "connect", arg |-> NoMsg, st |-> "OK"]
<1>2. /\ g \in Memory /\ Edits(e, g, {"calls", "layer", "conn", "keepalive_event"})
      /\ g.conn = "OPENED" /\ k \in Opened /\ k \in Calls /\ g.calls = Append(e.calls, k)
      /\ Alike(e, g) /\ g.abort = e.abort
  BY AcceptedIs
<1> HIDE DEF g
<1>3. CASE g.abort # "none"
  <2>1. b \in Memory /\ b.abort # "none" BY <1>1, <1>3 DEF g, Goes, Moves
  <2> QED BY <2>1 DEF Leads
<1>4. CASE g.abort = "none"
  <2>1. /\ Sound(e) /\ ~Starting(e) /\ e.data = a.data /\ e.session = a.session
        /\ e.connect_handler = a.connect_handler /\ Keeps(a, e) /\ At(e, t)
        /\ \A u \in UserTasks \ {t} : Fate(e, u) = Fate(a, u)
    <3>1. Leads(a, e, t) /\ At(e, t) BY <1>1, <1>2, <1>4, LightStruct
    <3> QED BY <3>1, <1>2, <1>4 DEF Leads
  <2>2. /\ g.data = e.data /\ g.session = e.session /\ g.connect_handler = e.connect_handler
        /\ g.io = e.io /\ g.queue = e.queue /\ g.last_msg_id = e.last_msg_id /\ g.saved_id = e.saved_id
    BY <1>2 DEF Edits, Fields
  <2>3. /\ g.task = e.task /\ g.current = e.current /\ g.q0 = e.q0 /\ g.q12 = e.q12 /\ g.saved = e.saved
        /\ g.recv = e.recv /\ g.shutdown_started = e.shutdown_started
    BY <1>2 DEF Alike, Edits, Fields
  <2>4. Adds(g.calls, e.calls, k) /\ Grows(e.calls, g.calls, {k})
    BY <1>2, FieldsOf, QueueAppend, GrowsAppend
  <2>5. /\ k \notin Inits /\ k \notin LogicInits /\ k \notin Tokens
        /\ \A l \in {"codec", "logic", "top"} : k \notin Gone(l)
    BY DEF Inits, LogicInits, Tokens, Gone, With, Kind
  <2>6. \A S : k \notin S => (Has(g.calls, S) <=> Has(e.calls, S)) /\ (One(g.calls, S) <=> One(e.calls, S))
    BY <2>4 DEF Adds
  <2>7. \A u \in Tasks : Pending(g, u) <=> Pending(e, u) BY <1>2 DEF Alike
  <2>8. Queued(g) = Queued(e) BY <1>2, AlikeBook
  <2>9. t \in Queued(e) /\ e.data["logic"] BY <2>1, <1>2, <1>4, LayersTask
  <2>10. e.conn = "OPENING" /\ "keepalive" \notin Queued(e) /\ "control" \notin Queued(e)
         /\ ~Pending(e, "control") /\ ~Has(e.calls, Opened) /\ "shutdown" \notin Queued(e) /\ ~Pending(e, "shutdown")
         /\ ~Pending(e, "keepalive") /\ ~Pending(e, "connect")
    BY <2>1, <2>9 DEF Sound, Fit, InternalInv, ConnectOnce, RestOnce
  <2>11. ~Starting(g) /\ ~Has(g.calls, Inits) BY <2>1, <2>2, <2>5, <2>6 DEF Starting
  <2>12. StartInv(g)
    <3>1. ASSUME NEW S, S \subseteq Inits PROVE ~Has(g.calls, S) BY <3>1, <2>11 DEF Has
    <3>2. /\ LogicInits \subseteq Inits /\ Kind("codec", "init") \subseteq Inits /\ Kind("io", "init") \subseteq Inits
          /\ Kind("io", "connect") \subseteq Inits /\ Inits \ LogicInits \subseteq Inits
          /\ With("codec", "connect", "OK") \cup With("logic", "connect", "OK") \subseteq Inits
      BY DEF Inits
    <3>3. One(g.calls, Inits) BY <2>1, <2>5, <2>6 DEF Sound, Fit, StartInv
    <3> QED BY <3>1, <3>2, <3>3, <2>11 DEF StartInv, Starting
  <2>13. DataInv(g) BY <2>1, <2>2, <2>3, <2>9, <1>2 DEF Sound, Fit, DataInv, Rest
  <2>14. EndInv(g) BY <2>1, <2>2, <2>5, <2>6 DEF Sound, Fit, EndInv
  <2>15. CodecInv(g) BY <2>1, <2>2, <2>5, <2>6 DEF Sound, Fit, CodecInv
  <2>16. RestOnce(g)
    <3>1. Internal \subseteq Tasks /\ {"control", "keepalive", "connect", "shutdown"} \subseteq Internal BY TaskNames
    <3>2. One(g.calls, Opened) BY <2>10, <2>4, <2>1 DEF Adds, Sound, Fit, InternalInv, RestOnce
    <3> QED BY <3>1, <3>2, <2>7, <2>8, <2>10, <1>2 DEF RestOnce
  <2>17. PingOnce(g) BY <2>8, <2>10 DEF PingOnce
  <2>18. Leads(g, b, t) BY <1>1, <1>2, <2>1, <2>2, <2>9, <2>11, <2>12, <2>13, <2>14, <2>15, <2>16, <2>17, FreesLeads DEF g
  <2>19. Keeps(e, g)
    <3> SUFFICES ASSUME Ids(e), Mail(e), AllName(e, e.queue)
                 PROVE  /\ Ids(g) /\ Mail(g) /\ AllName(g, g.queue)
                        /\ \A m : Names(e, m) => Names(g, m)
      BY DEF Keeps
    <3>1. Ids(g) BY <2>2, <2>3 DEF Ids
    <3>2. \A m : Names(e, m) => Names(g, m) BY <2>2, <2>3 DEF Names
    <3>3. AllName(g, g.queue) BY <3>2, <2>2 DEF AllName
    <3>4. Mail(g)
      <4> SUFFICES ASSUME NEW i \in 1 .. Len(g.calls)
                   PROVE  /\ Outward(g.calls[i]) \/ (g.calls[i].layer = "logic" /\ g.calls[i].fn = "pull")
                               => Names(g, g.calls[i].arg)
                          /\ g.calls[i].layer = "codec" /\ g.calls[i].fn = "pull" => AllName(g, g.calls[i].arg)
        BY DEF Mail
      <4>1. e.calls \in Seq(Calls) /\ i \in Nat /\ Len(e.calls) \in Nat BY FieldsOf
      <4>2. CASE i \in 1 .. Len(e.calls)
        <5>1. g.calls[i] = e.calls[i] BY <4>2, <2>4 DEF Grows
        <5> QED BY <5>1, <4>2, <3>2 DEF Mail, AllName
      <4>3. CASE i \notin 1 .. Len(e.calls)
        <5>1. g.calls[i] = k
          <6>1. i > Len(e.calls) BY <4>1, <4>3
          <6> QED BY <6>1, <2>4 DEF Grows
        <5> QED BY <5>1 DEF Outward
      <4> QED BY <4>2, <4>3
    <3> QED BY <3>1, <3>2, <3>3, <3>4
  <2>20. Keeps(a, g) BY <2>1, <2>19, KeepsTrans
  <2>21. \A u \in UserTasks \ {t} : Fate(g, u) = Fate(a, u) BY <2>1, <1>2, AlikeBook
  <2> QED BY <2>1, <2>2, <2>18, <2>20, <2>21, LeadsThrough
<1> QED BY <1>3, <1>4

(* and one that schedules the next ping.                                    *)
LEMMA RearmsLeads ==
  ASSUME NEW a \in Memory, NEW b, Rearms(a, b), Sound(a), ~Starting(a), a.data["logic"]
  PROVE  Leads(a, b, "keepalive")
<1> DEFINE t == "keepalive"
<1>1. PICK e \in Memory : Led(a, e, t) /\ Goes(RearmKeepalive(e), b, t) /\ Freed(b, t) BY DEF Rearms
<1> DEFINE g == RearmKeepalive(e)
<1>2. /\ g \in Memory /\ Edits(e, g, {"keepalive_event"}) /\ Alike(e, g) /\ g.abort = e.abort
  BY RearmIs
<1> HIDE DEF g
<1>3. CASE g.abort # "none"
  <2>1. b \in Memory /\ b.abort # "none" BY <1>1, <1>3 DEF g, Goes, Moves
  <2> QED BY <2>1 DEF Leads
<1>4. CASE g.abort = "none"
  <2>1. /\ Sound(e) /\ ~Starting(e) /\ e.data = a.data /\ e.session = a.session
        /\ e.connect_handler = a.connect_handler /\ Keeps(a, e) /\ At(e, t)
        /\ \A u \in UserTasks \ {t} : Fate(e, u) = Fate(a, u)
    <3>1. Leads(a, e, t) /\ At(e, t) BY <1>1, <1>2, <1>4, LightStruct
    <3> QED BY <3>1, <1>2, <1>4 DEF Leads
  <2>2. /\ g.data = e.data /\ g.session = e.session /\ g.connect_handler = e.connect_handler
        /\ g.io = e.io /\ g.queue = e.queue /\ g.last_msg_id = e.last_msg_id /\ g.saved_id = e.saved_id
        /\ g.calls = e.calls /\ g.conn = e.conn
    BY <1>2 DEF Edits, Fields
  <2>3. /\ g.task = e.task /\ g.current = e.current /\ g.q0 = e.q0 /\ g.q12 = e.q12 /\ g.saved = e.saved
        /\ g.recv = e.recv /\ g.shutdown_started = e.shutdown_started
    BY <1>2 DEF Alike, Edits, Fields
  <2>8. Queued(g) = Queued(e) BY <1>2, AlikeBook
  <2>9. t \in Queued(e) /\ e.data["logic"] BY <2>1, <1>2, <1>4, LayersTask
  <2>11. ~Starting(g) /\ ~Has(g.calls, Inits) BY <2>1, <2>2 DEF Starting
  <2>12. StartInv(g) BY <2>1, <2>2, <2>11 DEF StartInv, Sound, Fit, Rest, Starting
  <2>13. DataInv(g) BY <2>1, <2>2, <2>3, <2>9, <1>2 DEF Sound, Fit, DataInv, Rest
  <2>14. EndInv(g) BY <2>1, <2>2 DEF Sound, Fit, EndInv
  <2>15. CodecInv(g) BY <2>1, <2>2 DEF Sound, Fit, CodecInv
  <2>16. RestOnce(g) /\ ConnectOnce(g)
    BY <2>1, <2>2, <2>3, <2>8, <2>9 DEF Sound, Fit, InternalInv, RestOnce, ConnectOnce, Pending
  <2>18. Leads(g, b, t) BY <1>1, <1>2, <2>1, <2>2, <2>9, <2>11, <2>12, <2>13, <2>14, <2>15, <2>16, FreesLeads DEF g
  <2>19. Keeps(e, g)
    <3>1. Ids(e) => Ids(g) BY <2>2, <2>3 DEF Ids
    <3>2. \A m : Names(e, m) => Names(g, m) BY <2>2, <2>3 DEF Names
    <3>3. AllName(e, e.queue) => AllName(g, g.queue) BY <3>2, <2>2 DEF AllName
    <3>4. Mail(e) => Mail(g) BY <3>2, <2>2 DEF Mail, AllName
    <3> QED BY <3>1, <3>2, <3>3, <3>4 DEF Keeps
  <2>20. Keeps(a, g) BY <2>1, <2>19, KeepsTrans
  <2>21. \A u \in UserTasks \ {t} : Fate(g, u) = Fate(a, u) BY <2>1, <1>2, AlikeBook
  <2> QED BY <2>1, <2>2, <2>18, <2>20, <2>21, LeadsThrough
<1> QED BY <1>3, <1>4

(* Resuming a task of the layer.                                            *)
LEMMA ResumeLeads ==
  ASSUME NEW a \in Memory, a.abort = "none", Sound(a), ~Starting(a), NEW t, At(a, t), NEW st \in Statuses, NEW m
  PROVE  LET b == Resume(a, t, st, m)
         IN  /\ Leads(a, b, t)
             /\ Outcome(a, b, t, t \in Q1 \cup Subs =>
                                    /\ st = "OK" /\ (t \in Q1 <=> m.task \in Q1)
                                    /\ m.task \in Q1 \cup SubTasks)
<1> DEFINE b == Resume(a, t, st, m)
           may == t \in Q1 \cup Subs => st = "OK" /\ (t \in Q1 <=> m.task \in Q1) /\ m.task \in Q1 \cup SubTasks
<1>1. Ready(a, t) /\ t \in Tasks /\ a.data["logic"] /\ Good(a, None) BY LayersTask
<1>2. /\ Goes(a, b, t) \/ (t = "connect" /\ Opens(a, b)) \/ (t = "keepalive" /\ Rearms(a, b))
      /\ Outcome(a, b, t, may)
  BY <1>1, ResumeIs
<1> HIDE DEF b, may
<1>3. Fit(a) BY DEF Sound
<1>4. Leads(a, b, t)
  <2>1. CASE Goes(a, b, t) BY <2>1, <1>1, <1>3, GoesLeads
  <2>2. CASE t = "connect" /\ Opens(a, b) BY <2>2, <1>1, OpensLeads
  <2>3. CASE t = "keepalive" /\ Rearms(a, b) BY <2>3, <1>1, RearmsLeads
  <2> QED BY <2>1, <2>2, <2>3, <1>2
<1> QED BY <1>2, <1>4 DEF b, may

-----------------------------------------------------------------------------
(* A new task is queued.                                                    *)
LEMMA EditLastId ==
  ASSUME NEW a \in Memory, NEW v \in 0 .. (IdMod - 1), NEW b, b = [a EXCEPT !.last_msg_id = v]
  PROVE  Edits(a, b, {"last_msg_id"}) /\ b.last_msg_id = v
BY DEF Edits, Fields, Memory

Enqueued(a, t) ==
  LET i == (a.last_msg_id + 1) % IdMod
  IN  [Check(a, \A k \in 1..Len(a.q12) : a.task[a.q12[k]].id # i, "same_id")
         EXCEPT !.task[t].id = i, !.last_msg_id = i, !.q12 = Append(@, t)]

(* A task joins the queue of its quality of service.                        *)
LEMMA EnqueuedIs ==
  ASSUME NEW a \in Memory, NEW t \in Q12
  PROVE  Queues(a, Enqueued(a, t), t)
<1> DEFINE i == (a.last_msg_id + 1) % IdMod
           e == Check(a, \A k \in 1..Len(a.q12) : a.task[a.q12[k]].id # i, "same_id")
           v == [e.task EXCEPT ![t].id = i]
           q == Append(e.q12, t)
           f == [e EXCEPT !.task = v]
           g == [f EXCEPT !.last_msg_id = i]
           b == Enqueued(a, t)
<1>1. i \in 0 .. (IdMod - 1)
  <2>1. IdMod \in Nat \ {0} BY TaskAssumption
  <2>2. a.last_msg_id \in Nat BY FieldsOf, <2>1
  <2> QED BY <2>1, <2>2
<1>2. e \in Memory /\ Edits(a, e, {"abort"})
      /\ (e.abort = "none" => e = a /\ \A k \in 1..Len(a.q12) : a.task[a.q12[k]].id # i)
  BY CheckIs, AssertNames
<1>3. e.task \in [Tasks -> TaskTypes] /\ e.q12 \in Seq(Q12) /\ t \in Tasks
  BY <1>2, FieldsOf, TaskNames
<1>4. b = [g EXCEPT !.q12 = q]
  <2>1. b = [e EXCEPT !.task[t].id = i, !.last_msg_id = i, !.q12 = Append(@, t)] BY DEF Enqueued
  <2> HIDE DEF b, e, i
  <2>2. [e EXCEPT !.task[t].id = i, !.last_msg_id = i, !.q12 = Append(@, t)] = [g EXCEPT !.q12 = q]
    BY <1>2 DEF Memory
  <2> QED BY <2>1, <2>2
<1> HIDE DEF b, e, i
<1>5. v \in [Tasks -> TaskTypes] /\ v[t] = [e.task[t] EXCEPT !.id = i] /\ \A u \in Tasks \ {t} : v[u] = e.task[u]
  <2>1. e.task[t] \in TaskTypes BY <1>3
  <2>2. [e.task[t] EXCEPT !.id = i] \in TaskTypes BY <2>1, <1>1 DEF TaskTypes
  <2> QED BY <2>2, <1>3
<1>6. q \in Seq(Q12) /\ Range(q) = Range(e.q12) \cup {t} BY <1>3, RangeAppend
<1> HIDE DEF v, q
<1>7. Edits(e, f, {"task"}) /\ f.task = v BY <1>2, <1>5, EditTask
<1> HIDE DEF f
<1>8. f \in Memory BY <1>7 DEF Edits
<1>9. Edits(f, g, {"last_msg_id"}) /\ g.last_msg_id = i BY ONLY <1>1, <1>8, EditLastId DEF g
<1> HIDE DEF g
<1>10. g \in Memory BY <1>9 DEF Edits
<1>11. Edits(g, b, {"q12"}) /\ b.q12 = q BY <1>4, <1>6, <1>10, EditQ12
<1>12. /\ Edits(a, b, {"task", "last_msg_id", "q12", "q0", "abort"})
       /\ b.task = v /\ b.last_msg_id = i /\ b.q0 = e.q0 /\ b.abort = e.abort
       /\ b.current = e.current /\ b.saved = e.saved
  BY <1>2, <1>7, <1>9, <1>11 DEF Edits, Fields
<1> SUFFICES ASSUME b.abort = "none"
             PROVE  /\ a.abort = "none"
                    /\ \A u \in Tasks : /\ b.task[u].cs = a.task[u].cs /\ b.task[u].timeout = a.task[u].timeout
                                        /\ b.task[u].session = a.task[u].session
                                        /\ u # t => b.task[u].id = a.task[u].id
                    /\ Queued(b) = Queued(a) \cup {t}
                    /\ Range(a.q12) \subseteq Range(b.q12)
                    /\ Distinct(a.q0) /\ t \notin Range(a.q0) => Distinct(b.q0)
                    /\ b.q0 = a.q0 /\ Range(b.q12) = Range(a.q12) \cup {t}
                    /\ b.last_msg_id = (a.last_msg_id + 1) % IdMod
                    /\ b.task[t].id = b.last_msg_id
                    /\ \A u \in Range(a.q12) : a.task[u].id # b.last_msg_id
  BY <1>12 DEF Queues, b
<1>13. e = a /\ a.abort = "none" /\ \A k \in 1..Len(a.q12) : a.task[a.q12[k]].id # i BY <1>2, <1>12
<1>14. a.task[t] \in TaskTypes /\ a.task \in [Tasks -> TaskTypes] BY <1>3, <1>13
<1>15. /\ v[t].cs = a.task[t].cs /\ v[t].timeout = a.task[t].timeout
       /\ v[t].session = a.task[t].session /\ v[t].id = i
  BY <1>5, <1>13, <1>14 DEF TaskTypes
<1>16. \A u \in Tasks : /\ b.task[u].cs = a.task[u].cs /\ b.task[u].timeout = a.task[u].timeout
                        /\ b.task[u].session = a.task[u].session
                        /\ u # t => b.task[u].id = a.task[u].id
  BY <1>5, <1>12, <1>13, <1>15
<1>17. t # None BY <1>3, TaskNames
<1>18. Queued(b) = Queued(a) \cup {t} BY <1>6, <1>11, <1>12, <1>13, <1>17 DEF Queued
<1>19. \A u \in Range(a.q12) : a.task[u].id # i
  <2>1. Range(a.q12) = {a.q12[k] : k \in 1 .. Len(a.q12)} BY <1>3, <1>13, RangeIs
  <2> QED BY <2>1, <1>13
<1> QED BY <1>6, <1>11, <1>12, <1>13, <1>15, <1>16, <1>18, <1>19 DEF i

(* QoS 0 tasks, in front of the others or behind them.                      *)
LEMMA FrontIs ==
  ASSUME NEW a \in Memory, NEW t \in Tasks \ Q12, a.abort = "none",
         NEW b, NEW q \in {<<t>> \o a.q0, Append(a.q0, t)}, b = [a EXCEPT !.q0 = q]
  PROVE  Queues(a, b, t) /\ b.abort = "none" /\ b.q0 # <<>>
<1>1. a.q0 \in Seq(Tasks \ Q12) BY FieldsOf
<1>2. /\ q \in Seq(Tasks \ Q12) /\ Range(q) = Range(a.q0) \cup {t}
      /\ Distinct(a.q0) /\ t \notin Range(a.q0) => Distinct(q)
  <2>1. CASE q = <<t>> \o a.q0 BY <2>1, <1>1, RangeCons
  <2>2. CASE q = Append(a.q0, t) BY <2>2, <1>1, RangeAppend
  <2> QED BY <2>1, <2>2
<1>3. q # <<>> BY <1>1
<1>4. Edits(a, b, {"q0"}) /\ b.q0 = q BY <1>2, EditQ0
<1>5. /\ Edits(a, b, {"task", "last_msg_id", "q12", "q0", "abort"})
      /\ b.task = a.task /\ b.last_msg_id = a.last_msg_id /\ b.q12 = a.q12 /\ b.abort = a.abort
      /\ b.current = a.current /\ b.saved = a.saved
  BY <1>4 DEF Edits, Fields
<1>6. t # None BY TaskNames
<1>7. Queued(b) = Queued(a) \cup {t} BY <1>2, <1>4, <1>5, <1>6 DEF Queued
<1> QED BY <1>2, <1>3, <1>4, <1>5, <1>7 DEF Queues

-----------------------------------------------------------------------------
(* What the layer does, when it has data: the fate of x may change.         *)
Less(a) == a.last_msg_id + 1 < IdMod
Runs(a, b, x) ==
  /\ b \in Memory
  /\ b.abort = "none" =>
       /\ Sound(b) /\ b.data = a.data /\ b.session = a.session
       /\ b.connect_handler = a.connect_handler /\ (Less(a) => Keeps(a, b))
       /\ \A t \in UserTasks \ {x} : Fate(b, t) = Fate(a, t)
Change(a, b, t, may) ==
  b.abort = "none" /\ t \in UserTasks =>
    \/ Fate(b, t) = Fate(a, t)
    \/ /\ Fate(a, t) \in {"accepted", "stored"}
       /\ \/ Fate(a, t) = "accepted" /\ Fate(b, t) = "stored" /\ t \in Q1 \cup Subs
          \/ Fate(b, t) = "failed"
          \/ Fate(b, t) = "ok" /\ may

(* What became of a task is a change of its fate.                           *)
LEMMA OutcomeChange ==
  ASSUME NEW a, NEW b, NEW t, NEW may, NEW can, Outcome(a, b, t, may), may => can
  PROVE  Change(a, b, t, can)
BY DEF Outcome, Change

(* Leading a task is one way to run it, queueing it another.                *)
LEMMA LeadsRuns == ASSUME NEW a, NEW b, NEW x, Leads(a, b, x) PROVE Runs(a, b, x)
BY DEF Leads, Runs

(* A new task may be queued.                                                *)
Admits(a, t) ==
  /\ t = "connect" => /\ a.conn = "OPENING" /\ ~a.keepalive_event /\ "keepalive" \notin Queued(a)
                      /\ "control" \notin Queued(a) /\ ~Pending(a, "control") /\ ~Has(a.calls, Opened)
  /\ t = "keepalive" => ~a.keepalive_event /\ "connect" \notin Queued(a)
  /\ t = "control" => "connect" \notin Queued(a) /\ ~Has(a.calls, Opened)
  /\ t = "shutdown" => a.conn # "OPENING" /\ (a.conn = "OPENED" => a.shutdown_started)
  /\ Starting(a) => t \in UserTasks

Joins(a, b) ==
  /\ b \in Memory /\ Sound(b) /\ b.data = a.data /\ b.session = a.session /\ b.calls = a.calls
  /\ b.current = a.current /\ b.conn = a.conn /\ (Starting(b) <=> Starting(a))
  /\ b.connect_handler = a.connect_handler
  /\ \A u \in UserTasks : Fate(b, u) = Fate(a, u)
  /\ Less(a) => Keeps(a, b)

LEMMA QueuesRuns ==
  ASSUME NEW a \in Memory, NEW b, NEW t \in Tasks, Queues(a, b, t), Sound(a), Waits(a, t), a.data["logic"],
         Admits(a, t), b.abort = "none"
  PROVE  Joins(a, b)
<1>1. /\ b.calls = a.calls /\ b.data = a.data /\ b.session = a.session /\ b.conn = a.conn
      /\ b.connect_handler = a.connect_handler /\ b.shutdown_started = a.shutdown_started
      /\ b.current = a.current /\ b.keepalive_event = a.keepalive_event /\ b.io = a.io
      /\ b.queue = a.queue /\ b.recv = a.recv /\ b.saved = a.saved /\ b.saved_id = a.saved_id
  BY DEF Queues, Edits, Fields
<1>2. /\ b \in Memory /\ Book(b) /\ \A u \in UserTasks : Fate(b, u) = Fate(a, u)
  BY QueuesBook DEF Sound, Good, Book
<1>3. /\ \A u \in Tasks : /\ b.task[u].timeout = a.task[u].timeout /\ b.task[u].cs = a.task[u].cs
                          /\ u # t => b.task[u].id = a.task[u].id
      /\ Queued(b) = Queued(a) \cup {t}
  BY DEF Queues
<1>4. \A u : Pending(b, u) <=> Pending(a, u) BY <1>1 DEF Pending
<1>5. Starting(b) <=> Starting(a) BY <1>1 DEF Starting
<1>6. UserTasks \cap Internal = {} /\ Internal = {"connect", "keepalive", "shutdown", "control"} BY TaskNames
<1>7. StartInv(b) BY <1>1, <1>3, <1>5, <1>6 DEF Sound, Fit, StartInv, Rest, Admits
<1>8. DataInv(b) BY <1>1 DEF Sound, Fit, DataInv, Rest
<1>9. EndInv(b) BY <1>1 DEF Sound, Fit, EndInv
<1>10. CodecInv(b) BY <1>1 DEF Sound, Fit, CodecInv
<1>11. ~Pending(a, t) BY DEF Waits
<1>12. ConnectOnce(b)
  <2> SUFFICES ASSUME "connect" \in Queued(b)
               PROVE  /\ b.conn = "OPENING" /\ ~b.keepalive_event /\ "keepalive" \notin Queued(b)
                      /\ "control" \notin Queued(b) /\ ~Pending(b, "control") /\ ~Has(b.calls, Opened)
    BY DEF ConnectOnce
  <2>1. CASE t = "connect" BY <2>1, <1>1, <1>3, <1>4 DEF Admits
  <2>2. CASE t # "connect"
    <3>1. "connect" \in Queued(a) BY <2>2, <1>3
    <3> QED BY <3>1, <2>2, <1>1, <1>3, <1>4 DEF Sound, Fit, InternalInv, ConnectOnce, Admits
  <2> QED BY <2>1, <2>2
<1>13. PingOnce(b) BY <1>1, <1>3 DEF Sound, Fit, InternalInv, PingOnce, Admits
<1>14. RestOnce(b)
  <2>1. RestOnce(a) BY DEF Sound, Fit, InternalInv
  <2>2. Has(b.calls, Opened) => "control" \notin Queued(b) /\ ~Pending(b, "control")
    BY <2>1, <1>1, <1>3, <1>4 DEF RestOnce, Admits
  <2>3. One(b.calls, Opened) /\ ~Pending(b, "keepalive") /\ ~Pending(b, "connect")
    BY <2>1, <1>1, <1>4 DEF RestOnce
  <2>4. b.conn = "OPENING" => "shutdown" \notin Queued(b) /\ ~Pending(b, "shutdown")
    BY <2>1, <1>1, <1>3, <1>4 DEF RestOnce, Admits
  <2>5. b.conn = "OPENED" /\ ("shutdown" \in Queued(b) \/ Pending(b, "shutdown")) => b.shutdown_started
    BY <2>1, <1>1, <1>3, <1>4 DEF RestOnce, Admits
  <2> QED BY <2>2, <2>3, <2>4, <2>5 DEF RestOnce
<1>15. ASSUME Less(a) PROVE Keeps(a, b)
  <2> SUFFICES ASSUME Ids(a), Mail(a), AllName(a, a.queue)
               PROVE  /\ Ids(b) /\ Mail(b) /\ AllName(b, b.queue)
                      /\ \A m : Names(a, m) => Names(b, m)
    BY DEF Keeps
  <2>1. t \notin Range(a.q12) /\ t \notin Range(a.saved)
    <3>1. t # None BY TaskNames
    <3> QED BY <3>1 DEF Waits, Queued
  <2>2. a.q12 \in Seq(Q12) /\ a.saved \in Seq(Q12) /\ Q12 \subseteq Tasks /\ UserTasks \subseteq Tasks
    BY FieldsOf, TaskNames
  <2>3. Range(a.q12) \subseteq Tasks /\ Range(a.saved) \subseteq Tasks BY <2>2, RangeIs
  <2>4. /\ \A u \in Range(a.q12) : b.task[u].id = a.task[u].id
        /\ \A u \in Range(a.saved) : b.task[u].id = a.task[u].id
    BY <2>1, <2>3, <1>3
  <2>5. a.last_msg_id \in Nat /\ IdMod \in Nat \ {0}
    <3>1. IdMod \in Nat \ {0} BY TaskAssumption
    <3> QED BY <3>1, FieldsOf
  <2>6. (a.last_msg_id + 1) % IdMod = a.last_msg_id + 1 BY <2>5, <1>15 DEF Less
  <2>7. CASE t \in Q12
    <3>1. /\ Range(b.q12) = Range(a.q12) \cup {t} /\ b.last_msg_id = a.last_msg_id + 1
          /\ b.task[t].id = b.last_msg_id
      BY <2>6, <2>7 DEF Queues
    <3>2. \A n \in 1 .. a.last_msg_id : n \in 1 .. b.last_msg_id /\ n # b.last_msg_id BY <3>1, <2>5
    <3>3. b.last_msg_id \in 1 .. b.last_msg_id BY <3>1, <2>5
    <3>4. Ids(b)
      <4>1. \A u \in Range(b.q12) : b.task[u].id \in 1 .. b.last_msg_id BY <3>1, <3>2, <3>3, <2>4 DEF Ids
      <4>2. \A u \in Range(b.saved) : b.task[u].id \in 1 .. b.saved_id BY <2>4, <1>1 DEF Ids
      <4>3. \A u, w \in Range(b.q12) : b.task[u].id = b.task[w].id => u = w
        BY <3>1, <3>2, <2>1, <2>4 DEF Ids
      <4>4. \A u, w \in Range(b.saved) : b.task[u].id = b.task[w].id => u = w BY <2>4, <1>1 DEF Ids
      <4> QED BY <4>1, <4>2, <4>3, <4>4 DEF Ids
    <3>5. ASSUME NEW m, Names(a, m) PROVE Names(b, m)
      <4>1. m.task \in UserTasks => b.task[m.task].cs # "none" BY <3>5, <2>2, <1>3 DEF Names
      <4>2. ASSUME b.data["logic"], m.task \in Q12
            PROVE  m.id \in 1 .. b.last_msg_id /\ \A u \in Range(b.q12) : b.task[u].id = m.id => u = m.task
        <5>1. m.id \in 1 .. a.last_msg_id /\ \A u \in Range(a.q12) : a.task[u].id = m.id => u = m.task
          BY <4>2, <3>5, <1>1 DEF Names
        <5> QED BY <5>1, <3>1, <3>2, <2>4
      <4> QED BY <4>1, <4>2 DEF Names
    <3>6. Mail(b) /\ AllName(b, b.queue) BY <3>5, <1>1 DEF Mail, AllName
    <3> QED BY <3>4, <3>5, <3>6
  <2>8. CASE t \notin Q12
    <3>1. b.q12 = a.q12 /\ b.task = a.task /\ b.last_msg_id = a.last_msg_id BY <2>8 DEF Queues
    <3>2. Ids(b) BY <3>1, <1>1 DEF Ids
    <3>3. \A m : Names(a, m) => Names(b, m) BY <3>1, <1>1 DEF Names
    <3>4. Mail(b) /\ AllName(b, b.queue) BY <3>3, <1>1 DEF Mail, AllName
    <3> QED BY <3>2, <3>3, <3>4
  <2> QED BY <2>7, <2>8
<1> QED BY <1>1, <1>2, <1>5, <1>7, <1>8, <1>9, <1>10, <1>12, <1>13, <1>14, <1>15
   DEF Sound, Fit, InternalInv, Joins

(* While the connection is opening, the tasks wait.                         *)
LEMMA RunNextWaits ==
  ASSUME NEW a \in Memory, a.abort = "none", Sound(a), Starting(a), a.data["logic"]
  PROVE  LET b == RunNextQ0(a)
         IN  /\ b \in Memory
             /\ b.abort = "none" =>
                  /\ Sound(b) /\ b.data = a.data /\ b.session = a.session
                  /\ b.connect_handler = a.connect_handler /\ Keeps(a, b)
                  /\ \A t \in UserTasks : Fate(b, t) = Fate(a, t)
<1> DEFINE b == RunNextQ0(a)
           e == [a EXCEPT !.q0 = Append(Tail(@), Head(a.q0))]
<1>1. /\ a.current = None /\ Internal \cap Queued(a) = {} /\ ~a.keepalive_event
      /\ \A t \in Tasks : ~a.task[t].timeout
  BY DEF Sound, Fit, StartInv
<1>2. a.conn = "OPENING"
  <2>1. a.io = "connecting" \/ Has(a.calls, Inits) BY DEF Starting
  <2>2. ~Has(a.calls, LogicInits) BY DEF Sound, Fit, StartInv
  <2>3. Has(a.calls, Inits) => Has(a.calls, Inits \ LogicInits) BY <2>2 DEF Has
  <2> QED BY <2>1, <2>3 DEF Sound, Fit, StartInv
<1>3. a.q0 # <<>> => Head(a.q0) # "connect"
  <2>1. ASSUME a.q0 # <<>> PROVE Head(a.q0) \in Range(a.q0) /\ Head(a.q0) # None
    <3>1. Head(a.q0) \in Tasks \ Q12 /\ Head(a.q0) \in Range(a.q0) BY <2>1, FieldsOf, RangeTail
    <3> QED BY <3>1, TaskNames
  <2>2. "connect" \in Internal BY TaskNames
  <2> QED BY <2>1, <2>2, <1>1 DEF Queued
<1>4. b = IF a.q0 = <<>> THEN a ELSE e BY <1>1, <1>2, <1>3 DEF RunNextQ0
<1> HIDE DEF b
<1> SUFFICES /\ b \in Memory
             /\ b.abort = "none" =>
                  /\ Sound(b) /\ b.data = a.data /\ b.session = a.session
                  /\ b.connect_handler = a.connect_handler /\ Keeps(a, b)
                  /\ \A t \in UserTasks : Fate(b, t) = Fate(a, t)
  BY DEF b
<1>5. CASE a.q0 = <<>>
  <2>1. b = a BY <1>4, <1>5
  <2>2. Keeps(a, a) BY DEF Keeps
  <2> QED BY <2>1, <2>2
<1>6. CASE a.q0 # <<>>
  <2>1. b = e BY <1>4, <1>6
  <2>2. Good(a, None) BY DEF Sound, Book, Good
  <2>3. Moves(a, b, GoFields, None) /\ Good(b, None) /\ Edits(a, b, {"q0"}) /\ Queued(b) = Queued(a)
    BY <2>1, <2>2, <1>1, <1>6, HeadWaits
  <2>4. b \in Memory BY <2>3 DEF Edits
  <2> SUFFICES ASSUME b.abort = "none"
               PROVE  /\ Sound(b) /\ b.data = a.data /\ b.session = a.session
                      /\ b.connect_handler = a.connect_handler /\ Keeps(a, b)
                      /\ \A t \in UserTasks : Fate(b, t) = Fate(a, t)
    BY <2>4
  <2>5. /\ b.calls = a.calls /\ b.data = a.data /\ b.session = a.session /\ b.conn = a.conn
        /\ b.connect_handler = a.connect_handler /\ b.shutdown_started = a.shutdown_started
        /\ b.current = a.current /\ b.keepalive_event = a.keepalive_event /\ b.io = a.io
        /\ b.queue = a.queue /\ b.recv = a.recv /\ b.task = a.task
    BY <2>3 DEF Edits, Fields
  <2>6. \A u : Pending(b, u) <=> Pending(a, u) BY <2>5 DEF Pending
  <2>7. StartInv(b) BY <2>3, <2>5 DEF Sound, Fit, StartInv, Starting, Rest
  <2>8. DataInv(b) BY <2>5 DEF Sound, Fit, DataInv, Rest
  <2>9. EndInv(b) /\ CodecInv(b) BY <2>5 DEF Sound, Fit, EndInv, CodecInv
  <2>10. InternalInv(b) BY <2>3, <2>5, <2>6 DEF Sound, Fit, InternalInv, ConnectOnce, PingOnce, RestOnce
  <2>11. Book(b) BY <2>3 DEF Good, Book
  <2>12. Keeps(a, b) BY <2>3, MovesKeeps
  <2>13. \A t \in UserTasks : Fate(b, t) = Fate(a, t)
    <3>1. None \notin UserTasks BY TaskNames
    <3> QED BY <3>1, <2>3 DEF Moves
  <2> QED BY <2>5, <2>7, <2>8, <2>9, <2>10, <2>11, <2>12, <2>13 DEF Sound, Fit
<1> QED BY <1>5, <1>6

(* run_task.                                                                *)
LEMMA RunTaskRuns ==
  ASSUME NEW a \in Memory, a.abort = "none", Sound(a), a.data["logic"], NEW t \in Tasks, Waits(a, t),
         Admits(a, t)
  PROVE  Runs(a, RunTask(a, t), t) /\ Change(a, RunTask(a, t), t, FALSE)
<1> DEFINE b == RunTask(a, t)
<1>1. ASSUME b \in Memory, b.abort # "none" PROVE Runs(a, b, t) /\ Change(a, b, t, FALSE)
  BY <1>1 DEF Runs, Change
<1>2. CASE t \in Q12
  <2> DEFINE e == Enqueued(a, t)
  <2>1. b = IF e.conn = "OPENED" THEN Resume(e, t, "OK", NoMsg) ELSE e BY <1>2 DEF RunTask, Enqueued
  <2> HIDE DEF b, e
  <2>2. Queues(a, e, t) BY <1>2, EnqueuedIs DEF e
  <2>3. e \in Memory BY <2>2 DEF Queues, Edits
  <2>4. CASE e.abort = "none"
    <3>1. /\ Sound(e) /\ e.data = a.data /\ e.session = a.session /\ e.conn = a.conn
          /\ (Starting(e) <=> Starting(a)) /\ e.connect_handler = a.connect_handler
          /\ \A u \in UserTasks : Fate(e, u) = Fate(a, u)
          /\ Less(a) => Keeps(a, e)
      <4>1. Joins(a, e) BY <2>2, <2>4, QueuesRuns
      <4> QED BY ONLY <4>1 DEF Joins
    <3>2. CASE e.conn # "OPENED"
      <4>1. b = e BY <2>1, <3>2
      <4> QED BY <4>1, <3>1, <2>3 DEF Runs, Change, b
    <3>3. CASE e.conn = "OPENED"
      <4>1. ~Starting(e)
        <5>1. LogicInits \subseteq Inits BY DEF Inits
        <5>2. ~Has(a.calls, LogicInits) BY DEF Sound, Fit, StartInv
        <5>3. Has(a.calls, Inits) => Has(a.calls, Inits \ LogicInits) BY <5>2 DEF Has
        <5> QED BY <5>3, <3>1, <3>3 DEF Sound, Fit, StartInv, Starting
      <4>2. At(e, t) BY <1>2, <2>2, <2>4 DEF At, Queues
      <4>3. "OK" \in Statuses BY DEF Statuses
      <4>4. b = Resume(e, t, "OK", NoMsg) BY <2>1, <3>3
      <4> DEFINE may == t \in Q1 \cup Subs => /\ "OK" = "OK" /\ (t \in Q1 <=> NoMsg.task \in Q1)
                                              /\ NoMsg.task \in Q1 \cup SubTasks
      <4>5. Leads(e, b, t) /\ Outcome(e, b, t, may)
        BY <4>1, <4>2, <4>3, <4>4, <2>3, <2>4, <3>1, ResumeLeads
      <4>6. t \in UserTasks => ~may
        <5>1. NoMsg.task = None /\ None \notin Q1 \cup SubTasks
          BY NoMsgIs, TaskNames DEF Q12
        <5>2. t \in UserTasks => t \in Q1 \cup Subs BY <1>2, TaskNames
        <5> QED BY <5>1, <5>2
      <4> HIDE DEF may
      <4>7. Change(a, b, t, FALSE) BY <4>5, <4>6, <3>1 DEF Outcome, Change
      <4>8. Runs(a, b, t)
        <5> SUFFICES ASSUME b.abort = "none"
                     PROVE  /\ Sound(b) /\ b.data = a.data /\ b.session = a.session
                            /\ b.connect_handler = a.connect_handler /\ (Less(a) => Keeps(a, b))
                            /\ \A u \in UserTasks \ {t} : Fate(b, u) = Fate(a, u)
          BY <4>5 DEF Runs, Leads
        <5>1. Less(a) => Keeps(a, b) BY <4>5, <3>1, KeepsTrans DEF Leads
        <5> QED BY <5>1, <4>5, <3>1 DEF Leads
      <4> QED BY <4>7, <4>8 DEF b
    <3> QED BY <3>2, <3>3
  <2>5. CASE e.abort # "none"
    <3>1. b \in Memory /\ b.abort # "none"
      <4>1. CASE e.conn # "OPENED" BY <4>1, <2>1, <2>3, <2>5
      <4>2. CASE e.conn = "OPENED"
        <5>1. Ready(e, t) /\ Good(e, None) BY <2>5 DEF Ready, Good
        <5>2. "OK" \in Statuses BY DEF Statuses
        <5>3. \/ Goes(e, b, t)
              \/ t = "connect" /\ Opens(e, b)
              \/ t = "keepalive" /\ Rearms(e, b)
          BY <2>1, <2>3, <4>2, <5>1, <5>2, ResumeIs
        <5>4. t \notin {"connect", "keepalive"} BY <1>2, TaskNames
        <5> QED BY <5>3, <5>4, <2>5 DEF Goes, Moves
      <4> QED BY <4>1, <4>2
    <3> QED BY <3>1, <1>1 DEF b
  <2> QED BY <2>4, <2>5 DEF b
<1>3. CASE t \notin Q12
  <2> DEFINE q == IF t \in {"connect", "shutdown"} THEN <<t>> \o a.q0 ELSE Append(a.q0, t)
             e == [a EXCEPT !.q0 = q]
  <2>1. b = IF e.current = None THEN RunNextQ0(e) ELSE e BY <1>3 DEF RunTask
  <2>2. q \in {<<t>> \o a.q0, Append(a.q0, t)} OBVIOUS
  <2>3. e = [a EXCEPT !.q0 = q] OBVIOUS
  <2> HIDE DEF b, e, q
  <2>4. Queues(a, e, t) /\ e.abort = "none" BY <1>3, <2>2, <2>3, FrontIs
  <2>5. e \in Memory BY <2>4 DEF Queues, Edits
  <2>6. /\ Sound(e) /\ e.data = a.data /\ e.session = a.session /\ e.conn = a.conn
        /\ (Starting(e) <=> Starting(a)) /\ e.connect_handler = a.connect_handler
        /\ \A u \in UserTasks : Fate(e, u) = Fate(a, u)
        /\ Less(a) => Keeps(a, e)
    <3>1. Joins(a, e) BY <2>4, QueuesRuns
    <3> QED BY ONLY <3>1 DEF Joins
  <2>7. CASE e.current # None
    <3>1. b = e BY <2>1, <2>7
    <3> QED BY <3>1, <2>5, <2>6 DEF Runs, Change, b
  <2>8. CASE e.current = None
    <3>1. b = RunNextQ0(e) BY <2>1, <2>8
    <3>2. b \in Memory /\
          (b.abort = "none" =>
             /\ Sound(b) /\ b.data = e.data /\ b.session = e.session
             /\ b.connect_handler = e.connect_handler /\ Keeps(e, b)
             /\ \A u \in UserTasks : Fate(b, u) = Fate(e, u))
      <4>1. CASE Starting(e) BY <4>1, <3>1, <2>4, <2>5, <2>6, RunNextWaits
      <4>2. CASE ~Starting(e)
        <5>1. Good(e, None) BY <2>6 DEF Sound, Book, Good
        <5>2. Goes(e, b, None) BY <3>1, <5>1, <2>5, <2>8, RunNext
        <5>3. Leads(e, b, None) BY <5>2, <2>5, <2>6, <4>2, GoesLeads DEF Sound
        <5>4. None \notin UserTasks BY TaskNames
        <5> QED BY <5>3, <5>4 DEF Leads
      <4> QED BY <4>1, <4>2
    <3>3. Runs(a, b, t)
      <4> SUFFICES ASSUME b.abort = "none"
                   PROVE  /\ Sound(b) /\ b.data = a.data /\ b.session = a.session
                          /\ b.connect_handler = a.connect_handler /\ (Less(a) => Keeps(a, b))
                          /\ \A u \in UserTasks \ {t} : Fate(b, u) = Fate(a, u)
        BY <3>2 DEF Runs
      <4>1. Less(a) => Keeps(a, b) BY <3>2, <2>6, KeepsTrans
      <4> QED BY <4>1, <3>2, <2>6
    <3>4. Change(a, b, t, FALSE) BY <3>2, <2>6 DEF Change
    <3> QED BY <3>3, <3>4 DEF b
  <2> QED BY <2>7, <2>8
<1> QED BY <1>2, <1>3
-----------------------------------------------------------------------------
(* What a call is, by the function it calls.                                *)
LEMMA KindOf ==
  ASSUME NEW k \in Calls
  PROVE  /\ k \in LogicInits <=> k.layer = "logic" /\ k.fn = "init"
         /\ k \in Inits <=> \/ k.layer \in {"logic", "codec", "io"} /\ k.fn = "init"
                            \/ k.layer = "io" /\ k.fn = "connect"
                            \/ k.layer \in {"codec", "logic"} /\ k.fn = "connect" /\ k.st = "OK"
         /\ k \in Fresh <=> k.layer \in {"top", "logic"} /\ k.fn = "push" /\ k.st = "OK"
         /\ k \in Users <=> k \in Fresh /\ k.arg.task \in UserTasks
         /\ k \in Opened <=> k.layer = "top" /\ k.fn = "connect" /\ k.st = "OK"
         /\ k \in Tokens <=> k.fn = "push" /\ (k.layer = "io" \/ (k.layer = "codec" /\ k.st # "OK"))
         /\ \A l : k \in Gone(l) <=> k.layer = l /\ k.fn = "close_externally"
         /\ \A t : k \in PushOf(t) <=> k \in Fresh /\ k.arg.task = t
         /\ \A t : k \in CallbackOf(t) <=> k.layer = "user" /\ k.fn = "callback" /\ k.arg.task = t
         /\ k \in Kind("codec", "init") <=> k.layer = "codec" /\ k.fn = "init"
         /\ k \in Kind("io", "init") <=> k.layer = "io" /\ k.fn = "init"
         /\ k \in Kind("io", "connect") <=> k.layer = "io" /\ k.fn = "connect"
         /\ k \in With("codec", "connect", "OK") \cup With("logic", "connect", "OK")
              <=> k.layer \in {"codec", "logic"} /\ k.fn = "connect" /\ k.st = "OK"
         /\ k \in Inits \ LogicInits <=> k \in Inits /\ k \notin LogicInits
         /\ k \in Inits \cup Users <=> k \in Inits \/ k \in Users
BY DEF LogicInits, Inits, Fresh, Users, Opened, Tokens, Gone, PushOf, CallbackOf, Kind, With

(* The queue p holds what q holds, and k, kind by kind.                     *)
Connects == With("codec", "connect", "OK") \cup With("logic", "connect", "OK")
Plus(p, q, k, S) ==
  /\ Has(p, S) <=> k \in S \/ Has(q, S)
  /\ One(p, S) <=> One(q, S) /\ ~(k \in S /\ Has(q, S))
Sums(p, q, k) ==
  /\ Plus(p, q, k, Inits) /\ Plus(p, q, k, LogicInits) /\ Plus(p, q, k, Inits \ LogicInits)
  /\ Plus(p, q, k, Kind("codec", "init")) /\ Plus(p, q, k, Kind("io", "init"))
  /\ Plus(p, q, k, Kind("io", "connect")) /\ Plus(p, q, k, Connects)
  /\ Plus(p, q, k, Opened) /\ Plus(p, q, k, Tokens)
  /\ Plus(p, q, k, Gone("codec")) /\ Plus(p, q, k, Gone("logic")) /\ Plus(p, q, k, Gone("top"))
  /\ Only(p, Inits \cup Users) <=> k \in Inits \cup Users /\ Only(q, Inits \cup Users)
  /\ Only(p, Users) <=> k \in Users /\ Only(q, Users)
  /\ Only(p, Fresh) <=> k \in Fresh /\ Only(q, Fresh)
  /\ \A t : Plus(p, q, k, PushOf(t)) /\ Plus(p, q, k, CallbackOf(t))
            /\ Plus(p, q, k, {i \in CallbackOf(t) : i.st = "OK"})

(* A queue with a call more has what both have.                             *)
LEMMA AddsSums == ASSUME NEW p, NEW q, NEW k, Adds(p, q, k) PROVE Sums(p, q, k)
<1>1. \A S : Plus(p, q, k, S) BY DEF Adds, Plus
<1>2. \A S : Only(p, S) <=> k \in S /\ Only(q, S) BY DEF Adds
<1> QED BY ONLY <1>1, <1>2 DEF Sums

(* No call waits on an empty queue.                                         *)
LEMMA EmptyHas ==
  ASSUME NEW a, a.calls = <<>>
  PROVE  (\A S : ~Has(a.calls, S) /\ One(a.calls, S) /\ Only(a.calls, S)) /\ \A t : ~Pending(a, t)
BY QueueEmpty DEF Pending

(* The call at the head of the queue, and the memory without it.            *)
Pop(a) == [a EXCEPT !.calls = Tail(@)]
Popped1(a, b, k) ==
  /\ b \in Memory /\ Edits(a, b, {"calls"}) /\ b.calls = Tail(a.calls) /\ k \in Calls
  /\ Adds(a.calls, b.calls, k) /\ Sums(a.calls, b.calls, k)

(* Taking the call at the head of the queue,                                *)
LEMMA PopIs ==
  ASSUME NEW a \in Memory, a.calls # <<>>
  PROVE  Popped1(a, Pop(a), Head(a.calls))
<1>1. a.calls \in Seq(Calls) BY FieldsOf
<1>2. /\ Head(a.calls) \in Calls /\ Tail(a.calls) \in Seq(Calls)
      /\ Adds(a.calls, Tail(a.calls), Head(a.calls))
  BY <1>1, QueueTail
<1>3. Edits(a, Pop(a), {"calls"}) /\ Pop(a).calls = Tail(a.calls)
  BY ONLY a \in Memory, <1>2, EditCalls, Pop(a) = [a EXCEPT !.calls = Tail(a.calls)] DEF Pop
<1> QED BY <1>2, <1>3, AddsSums DEF Popped1, Edits

(* Everything that is true of the memory stays so, but for what depends on  *)
(* the call that is executed.                                               *)
LEMMA PopBook ==
  ASSUME NEW a \in Memory, NEW b, NEW k, Popped1(a, b, k), Book(a)
  PROVE  /\ Book(b) /\ Queued(b) = Queued(a) /\ (\A t : At(b, t) <=> At(a, t))
         /\ \A t : Pending(a, t) <=> k \in PushOf(t) \/ Pending(b, t)
         /\ \A t : ~(k \in PushOf(t) /\ Pending(b, t)) \/ t \notin Tasks
         /\ (\A t \in UserTasks : k \notin CallbackOf(t)) => \A t \in UserTasks : Fate(b, t) = Fate(a, t)
<1>1. /\ b.task = a.task /\ b.current = a.current /\ b.q0 = a.q0 /\ b.q12 = a.q12 /\ b.saved = a.saved
      /\ b.outcome = a.outcome
  BY DEF Popped1, Edits, Fields
<1>2. \A t : /\ Plus(a.calls, b.calls, k, PushOf(t)) /\ Plus(a.calls, b.calls, k, CallbackOf(t))
             /\ Plus(a.calls, b.calls, k, {i \in CallbackOf(t) : i.st = "OK"})
  BY DEF Popped1, Sums
<1>3. Queued(b) = Queued(a) /\ \A t : At(b, t) <=> At(a, t) BY <1>1 DEF Queued, At
<1>4. \A t : Pending(a, t) <=> k \in PushOf(t) \/ Pending(b, t) BY <1>2 DEF Plus, Pending
<1>5. \A t \in Tasks : ~(k \in PushOf(t) /\ Pending(b, t))
  BY <1>2 DEF Plus, Pending, Book, BookBut, Once
<1>6. \A t : Heard(b, t) => Heard(a, t) BY <1>1, <1>2 DEF Heard, Plus
<1>7. Book(b)
  <2>1. Timers(b) BY <1>1, <1>3 DEF Book, BookBut, Timers
  <2>2. Lives(b) BY <1>1, <1>3, <1>4 DEF Book, BookBut, Lives
  <2>3. Once(b) BY <1>1, <1>2, <1>3, <1>4 DEF Book, BookBut, Once, Plus
  <2>4. Told(b, None) BY <1>1, <1>2, <1>6 DEF Book, BookBut, Told, Plus
  <2>5. Sessions1(b) BY <1>1, <1>3, <1>4 DEF Book, BookBut, Sessions1
  <2> QED BY <2>1, <2>2, <2>3, <2>4, <2>5 DEF Book, BookBut
<1>8. ASSUME \A t \in UserTasks : k \notin CallbackOf(t)
      PROVE  \A t \in UserTasks : Fate(b, t) = Fate(a, t)
  <2> SUFFICES ASSUME NEW t \in UserTasks PROVE Fate(b, t) = Fate(a, t) OBVIOUS
  <2>1. Has(b.calls, CallbackOf(t)) <=> Has(a.calls, CallbackOf(t)) BY <1>2, <1>8 DEF Plus
  <2>2. Has(b.calls, {i \in CallbackOf(t) : i.st = "OK"}) <=> Has(a.calls, {i \in CallbackOf(t) : i.st = "OK"})
    <3>1. k \notin {i \in CallbackOf(t) : i.st = "OK"} BY <1>8
    <3> QED BY <3>1, <1>2 DEF Plus
  <2> QED BY <2>1, <2>2, <1>1 DEF Fate, Heard, WasOk
<1> QED BY <1>3, <1>4, <1>5, <1>7, <1>8

(* leaves the structure of the connection, but for that call,               *)
LEMMA PopFit ==
  ASSUME NEW a \in Memory, NEW b, NEW k, Popped1(a, b, k), Fit(a)
  PROVE  /\ StartInv(b) /\ EndInv(b) /\ CodecInv(b) /\ InternalInv(b)
         /\ k \notin LogicInits => DataInv(b)
         /\ Starting(b) => Starting(a)
         /\ k \in Inits => ~Starting(b) /\ a.io # "connecting"
         /\ k \notin Inits /\ k \notin Users => ~Starting(a)
<1>1. \A f \in Fields \ {"calls"} : b[f] = a[f] BY DEF Popped1, Edits
<1>2. /\ b.data = a.data /\ b.session = a.session /\ b.conn = a.conn
      /\ b.connect_handler = a.connect_handler /\ b.shutdown_started = a.shutdown_started
      /\ b.current = a.current /\ b.keepalive_event = a.keepalive_event /\ b.io = a.io
      /\ b.queue = a.queue /\ b.recv = a.recv /\ b.task = a.task /\ b.q0 = a.q0 /\ b.q12 = a.q12
      /\ b.saved = a.saved
  BY <1>1 DEF Fields
<1>3. Sums(a.calls, b.calls, k) /\ k \in Calls BY DEF Popped1
<1>4. Queued(b) = Queued(a) BY <1>2 DEF Queued
<1>5. \A t : Pending(b, t) => Pending(a, t) BY <1>3 DEF Sums, Plus, Pending
<1>6. Starting(b) => Starting(a) BY <1>2, <1>3 DEF Sums, Plus, Starting
<1>7. StartInv(b) BY <1>2, <1>3, <1>4, <1>6 DEF Sums, Plus, Fit, StartInv, Rest, Connects
<1>8. EndInv(b) BY <1>2, <1>3 DEF Sums, Plus, Fit, EndInv
<1>9. CodecInv(b) BY <1>2, <1>3 DEF Sums, Plus, Fit, CodecInv
<1>10. InternalInv(b)
  BY <1>2, <1>3, <1>4, <1>5 DEF Sums, Plus, Fit, InternalInv, ConnectOnce, PingOnce, RestOnce
<1>11. k \notin LogicInits => DataInv(b) BY <1>2, <1>3 DEF Sums, Plus, Fit, DataInv, Rest
<1>12. k \in Inits => ~Starting(b) /\ a.io # "connecting"
  BY <1>2, <1>3 DEF Sums, Plus, Fit, StartInv, Starting
<1>13. k \notin Inits /\ k \notin Users => ~Starting(a)
  BY <1>3, KindOf DEF Sums, Fit, StartInv
<1> QED BY <1>6, <1>7, <1>8, <1>9, <1>10, <1>11, <1>12, <1>13

(* and the messages their tasks.                                            *)
LEMMA PopKeeps ==
  ASSUME NEW a \in Memory, NEW b, NEW k, Popped1(a, b, k)
  PROVE  Keeps(a, b)
<1>1. /\ b.task = a.task /\ b.q12 = a.q12 /\ b.saved = a.saved /\ b.saved_id = a.saved_id
      /\ b.last_msg_id = a.last_msg_id /\ b.data = a.data /\ b.queue = a.queue
  BY DEF Popped1, Edits, Fields
<1>2. \A m : Names(b, m) <=> Names(a, m) BY <1>1 DEF Names
<1>3. Ids(b) <=> Ids(a) BY <1>1 DEF Ids
<1>4. \A q : AllName(b, q) <=> AllName(a, q) BY <1>2 DEF AllName
<1>5. ASSUME NEW i \in 1 .. Len(b.calls) PROVE \E j \in 1 .. Len(a.calls) : b.calls[i] = a.calls[j]
  <2> DEFINE S == {b.calls[i]}
  <2>1. Has(b.calls, S) BY DEF Has
  <2>2. Has(a.calls, S) BY <2>1 DEF Popped1, Adds
  <2> QED BY <2>2 DEF Has
<1>6. ASSUME Mail(a) PROVE Mail(b)
  <2> SUFFICES ASSUME NEW i \in 1 .. Len(b.calls)
               PROVE  LET x == b.calls[i]
                      IN  /\ Outward(x) \/ (x.layer = "logic" /\ x.fn = "pull") => Names(b, x.arg)
                          /\ x.layer = "codec" /\ x.fn = "pull" => AllName(b, x.arg)
    BY DEF Mail
  <2>1. PICK j \in 1 .. Len(a.calls) : b.calls[i] = a.calls[j] BY <1>5
  <2> QED BY <2>1, <1>2, <1>4, <1>6 DEF Mail
<1> QED BY <1>1, <1>2, <1>3, <1>4, <1>6 DEF Keeps
-----------------------------------------------------------------------------
(* A step that changes the fate of no task.                                 *)
Stays(a, b) ==
  /\ b \in Memory
  /\ b.abort = "none" =>
       /\ a.abort = "none" /\ Sound(b) /\ Keeps(a, b) /\ \A t \in UserTasks : Fate(b, t) = Fate(a, t)

(* Stays is transitive, and holds when an assertion fails.                  *)
LEMMA StaysTrans ==
  ASSUME NEW a, NEW b, NEW d, Stays(a, b), Stays(b, d)
  PROVE  Stays(a, d)
<1> SUFFICES ASSUME d.abort = "none"
             PROVE  /\ a.abort = "none" /\ Keeps(a, d) /\ \A t \in UserTasks : Fate(d, t) = Fate(a, t)
  BY DEF Stays
<1>1. b.abort = "none" BY DEF Stays
<1>2. Keeps(a, d) BY <1>1, KeepsTrans DEF Stays
<1> QED BY <1>1, <1>2 DEF Stays

LEMMA StaysAborted == ASSUME NEW a, NEW b \in Memory, b.abort # "none" PROVE Stays(a, b)
BY DEF Stays

(* Ways of keeping the messages' tasks: nothing changes,                    *)
LEMMA KeepsSame == ASSUME NEW a PROVE Keeps(a, a)
BY DEF Keeps

(* A call that carries no message on its way out or back.                   *)
Silent(k) == ~Outward(k) /\ ~(k.layer \in {"logic", "codec"} /\ k.fn = "pull")
(* The messages and their tasks are the same.                               *)
MailSame(a, b) ==
  /\ \A t \in Tasks : b.task[t].id = a.task[t].id /\ (b.task[t].cs = "none" <=> a.task[t].cs = "none")
  /\ b.q12 = a.q12 /\ b.saved = a.saved /\ b.saved_id = a.saved_id /\ b.last_msg_id = a.last_msg_id
  /\ b.data["logic"] = a.data["logic"]

(* no field that names depend on,                                           *)
LEMMA MailNames ==
  ASSUME NEW a \in Memory, NEW b, MailSame(a, b)
  PROVE  /\ \A m : Names(b, m) <=> Names(a, m)
         /\ \A q : AllName(b, q) <=> AllName(a, q)
         /\ Ids(b) <=> Ids(a)
<1>1. Range(a.q12) \subseteq Tasks /\ Range(a.saved) \subseteq Tasks /\ UserTasks \subseteq Tasks
  BY FieldsOf, RangeIs, TaskNames
<1>2. ASSUME NEW m PROVE Names(b, m) <=> Names(a, m)
  <2>1. m.task \in UserTasks => (b.task[m.task].cs # "none" <=> a.task[m.task].cs # "none")
    BY <1>1 DEF MailSame
  <2>2. \A t \in Range(b.q12) : (b.task[t].id = m.id => t = m.task) <=> (a.task[t].id = m.id => t = m.task)
    BY <1>1 DEF MailSame
  <2>3. Range(b.q12) = Range(a.q12) /\ b.last_msg_id = a.last_msg_id /\ b.data["logic"] = a.data["logic"]
    BY DEF MailSame
  <2> QED BY ONLY <2>1, <2>2, <2>3 DEF Names
<1>3. \A q : AllName(b, q) <=> AllName(a, q) BY <1>2 DEF AllName
<1>4. Ids(b) <=> Ids(a) BY <1>1 DEF Ids, MailSame
<1> QED BY <1>2, <1>3, <1>4

(* the queue of calls grows by some without messages,                       *)
LEMMA MailGrows ==
  ASSUME NEW a \in Memory, NEW b, MailSame(a, b), NEW K, Grows(a.calls, b.calls, K),
         \A k \in K : Silent(k)
  PROVE  Mail(a) => Mail(b)
<1>1. /\ \A m : Names(b, m) <=> Names(a, m)
      /\ \A q : AllName(b, q) <=> AllName(a, q)
  BY MailNames
<1> SUFFICES ASSUME Mail(a), NEW i \in 1 .. Len(b.calls)
             PROVE  LET x == b.calls[i]
                    IN  /\ Outward(x) \/ (x.layer = "logic" /\ x.fn = "pull") => Names(b, x.arg)
                        /\ x.layer = "codec" /\ x.fn = "pull" => AllName(b, x.arg)
  BY DEF Mail
<1>2. CASE i <= Len(a.calls)
  <2>1. i \in 1 .. Len(a.calls) /\ b.calls[i] = a.calls[i]
    <3>1. Len(a.calls) \in Nat BY FieldsOf
    <3> QED BY <3>1, <1>2 DEF Grows
  <2> QED BY <2>1, <1>1 DEF Mail
<1>3. CASE i > Len(a.calls)
  <2>1. b.calls[i] \in K BY <1>3 DEF Grows
  <2> QED BY <2>1 DEF Silent
<1>4. i <= Len(a.calls) \/ i > Len(a.calls)
  <2>1. Len(a.calls) \in Nat /\ Len(b.calls) \in Nat BY FieldsOf DEF Grows
  <2> QED BY <2>1
<1> QED BY <1>2, <1>3, <1>4

(* in other fields too,                                                     *)
LEMMA KeepsGrows ==
  ASSUME NEW a \in Memory, NEW b, MailSame(a, b), b.queue = a.queue, NEW K,
         Grows(a.calls, b.calls, K), \A k \in K : Silent(k)
  PROVE  Keeps(a, b)
BY MailNames, MailGrows DEF Keeps

(* or not at all,                                                           *)
LEMMA KeepsStill ==
  ASSUME NEW a \in Memory, NEW b, MailSame(a, b), b.queue = a.queue, b.calls = a.calls
  PROVE  Keeps(a, b)
<1>1. Grows(a.calls, b.calls, {}) BY FieldsOf, GrowsSame
<1> QED BY <1>1, KeepsGrows

(* No element is in the empty sequence.                                     *)
LEMMA RangeEmpty == Range(<<>>) = {}
BY DEF Range

(* it grows by one,                                                         *)
LEMMA KeepsAppend ==
  ASSUME NEW a \in Memory, NEW b, MailSame(a, b), b.queue = a.queue, NEW k \in Calls, Silent(k),
         b.calls = Append(a.calls, k)
  PROVE  Keeps(a, b)
<1>1. Grows(a.calls, b.calls, {k}) BY FieldsOf, GrowsAppend
<1> QED BY <1>1, KeepsGrows

(* or a task is made.                                                       *)
LEMMA KeepsMake ==
  ASSUME NEW a \in Memory, NEW b, NEW t \in Tasks, NEW s, Makes(a, b, t, s), t \notin Queued(a)
  PROVE  Keeps(a, b)
<1>1. /\ b.calls = a.calls /\ b.q12 = a.q12 /\ b.saved = a.saved /\ b.saved_id = a.saved_id
      /\ b.last_msg_id = a.last_msg_id /\ b.data = a.data /\ b.queue = a.queue
  BY DEF Makes, Edits, Fields
<1>2. t \notin Range(a.q12) /\ t \notin Range(a.saved)
  <2>1. t # None BY TaskNames
  <2> QED BY <2>1 DEF Queued
<1>3. Range(a.q12) \subseteq Tasks /\ Range(a.saved) \subseteq Tasks /\ UserTasks \subseteq Tasks
  BY FieldsOf, RangeIs, TaskNames
<1>4. /\ \A u \in Range(a.q12) : b.task[u] = a.task[u]
      /\ \A u \in Range(a.saved) : b.task[u] = a.task[u]
      /\ \A u \in Tasks : b.task[u].cs = "none" => a.task[u].cs = "none"
  BY <1>2, <1>3 DEF Makes
<1>5. \A m : Names(a, m) => Names(b, m)
  <2> SUFFICES ASSUME NEW m, Names(a, m) PROVE Names(b, m) OBVIOUS
  <2>1. m.task \in UserTasks => b.task[m.task].cs # "none" BY <1>3, <1>4 DEF Names
  <2>2. \A u \in Range(b.q12) : b.task[u].id = a.task[u].id BY <1>1, <1>4
  <2> QED BY <2>1, <2>2, <1>1 DEF Names
<1>6. Ids(a) => Ids(b) BY <1>1, <1>4 DEF Ids
<1>7. Mail(a) => Mail(b) BY <1>1, <1>5 DEF Mail, AllName
<1>8. AllName(a, a.queue) => AllName(b, b.queue) BY <1>1, <1>5 DEF AllName
<1> QED BY <1>5, <1>6, <1>7, <1>8 DEF Keeps

(* What is true of the memory does not depend on these fields.              *)
SideFields == {"layer", "received", "told", "handlers", "saved_handlers"}
(* A call that starts, opens, confirms and is about nothing.                *)
Mild(a, k) ==
  /\ k \in Calls /\ Neutral(k) /\ k \notin Inits /\ k \notin Opened /\ k \notin Tokens
  /\ k.layer = "codec" /\ k.fn = "close_externally" => ~a.data["io"]
  /\ k.layer = "logic" /\ k.fn = "close_externally" => ~a.data["codec"]
  /\ k.layer = "top" /\ k.fn = "close_externally" => ~a.data["logic"]

(* A call that no rule is about changes nothing in the rules,               *)
LEMMA MildFit ==
  ASSUME NEW a \in Memory, NEW b, NEW k, Mild(a, k), Fit(a), ~Starting(a),
         Edits(a, b, SideFields \cup {"calls"}), b.calls = Append(a.calls, k)
  PROVE  Fit(b) /\ ~Starting(b)
<1>1. /\ b.data = a.data /\ b.session = a.session /\ b.conn = a.conn
      /\ b.connect_handler = a.connect_handler /\ b.shutdown_started = a.shutdown_started
      /\ b.current = a.current /\ b.keepalive_event = a.keepalive_event /\ b.io = a.io
      /\ b.queue = a.queue /\ b.recv = a.recv /\ b.task = a.task /\ b.q0 = a.q0 /\ b.q12 = a.q12
      /\ b.saved = a.saved
  BY DEF Edits, Fields, SideFields
<1>2. Sums(b.calls, a.calls, k) /\ k \in Calls
  <2>1. k \in Calls BY DEF Mild
  <2>2. Adds(b.calls, a.calls, k) BY <2>1, FieldsOf, QueueAppend
  <2> QED BY <2>1, <2>2, AddsSums
<1>3. Queued(b) = Queued(a) BY <1>1 DEF Queued
<1>4. \A t \in Tasks : Pending(b, t) <=> Pending(a, t) BY <1>2 DEF Sums, Plus, Pending, Mild, Neutral
<1>5. {"connect", "keepalive", "shutdown", "control"} \subseteq Tasks BY TaskNames
<1>6. /\ k \notin Inits /\ k \notin LogicInits /\ k \notin Inits \ LogicInits /\ k \notin Kind("codec", "init")
      /\ k \notin Kind("io", "init") /\ k \notin Kind("io", "connect") /\ k \notin Connects
      /\ k \notin Opened /\ k \notin Tokens
  BY DEF Mild, Inits, Connects
<1>7. ~Starting(b) BY <1>1, <1>2, <1>6 DEF Sums, Plus, Starting
<1>8. StartInv(b) BY <1>1, <1>2, <1>6, <1>7 DEF Sums, Plus, Fit, StartInv, Rest, Connects, Starting
<1>9. EndInv(b)
  <2>1. /\ k \in Gone("codec") <=> k.layer = "codec" /\ k.fn = "close_externally"
        /\ k \in Gone("logic") <=> k.layer = "logic" /\ k.fn = "close_externally"
        /\ k \in Gone("top") <=> k.layer = "top" /\ k.fn = "close_externally"
    BY <1>2, KindOf
  <2> QED BY <2>1, <1>1, <1>2 DEF Sums, Plus, Fit, EndInv, Mild
<1>10. CodecInv(b) BY <1>1, <1>2, <1>6 DEF Sums, Plus, Fit, CodecInv
<1>11. InternalInv(b)
  BY <1>1, <1>2, <1>3, <1>4, <1>5, <1>6 DEF Sums, Plus, Fit, InternalInv, ConnectOnce, PingOnce, RestOnce
<1>12. DataInv(b) BY <1>1, <1>2, <1>6 DEF Sums, Plus, Fit, DataInv, Rest
<1> QED BY <1>7, <1>8, <1>9, <1>10, <1>11, <1>12 DEF Fit

(* so that they stay true,                                                  *)
LEMMA MildStays ==
  ASSUME NEW a \in Memory, a.abort = "none", NEW b, NEW k, Mild(a, k), Sound(a), ~Starting(a),
         Edits(a, b, SideFields \cup {"calls"}), b.calls = Append(a.calls, k), Silent(k)
  PROVE  Stays(a, b) /\ b.abort = "none" /\ ~Starting(b)
<1>1. /\ b.task = a.task /\ b.current = a.current /\ b.q0 = a.q0 /\ b.q12 = a.q12 /\ b.saved = a.saved
      /\ b.outcome = a.outcome /\ b.data = a.data /\ b.queue = a.queue /\ b.saved_id = a.saved_id
      /\ b.last_msg_id = a.last_msg_id /\ b.abort = a.abort /\ b \in Memory
  BY DEF Edits, Fields, SideFields
<1>2. k \in Calls /\ Neutral(k) BY DEF Mild
<1>3. Fit(b) /\ ~Starting(b) BY MildFit DEF Sound
<1>4. Adds(b.calls, a.calls, k) BY <1>2, FieldsOf, QueueAppend
<1>5. Alike(a, b) BY <1>1, <1>2, <1>4, AlikeAdds
<1>6. Book(b) /\ \A t \in UserTasks : Fate(b, t) = Fate(a, t) BY <1>5, AlikeBook DEF Sound, Book
<1>7. Keeps(a, b) BY <1>1, <1>2, KeepsAppend DEF MailSame
<1> QED BY <1>1, <1>3, <1>6, <1>7 DEF Stays, Sound

(* as they do when fields no rule is about change,                          *)
LEMMA SideStays ==
  ASSUME NEW a \in Memory, a.abort = "none", NEW b, Sound(a), Edits(a, b, SideFields)
  PROVE  Stays(a, b) /\ b.abort = "none" /\ (Starting(b) <=> Starting(a))
<1>1. /\ b.data = a.data /\ b.session = a.session /\ b.conn = a.conn
      /\ b.connect_handler = a.connect_handler /\ b.shutdown_started = a.shutdown_started
      /\ b.current = a.current /\ b.keepalive_event = a.keepalive_event /\ b.io = a.io
      /\ b.queue = a.queue /\ b.recv = a.recv /\ b.task = a.task /\ b.q0 = a.q0 /\ b.q12 = a.q12
      /\ b.saved = a.saved /\ b.calls = a.calls /\ b.outcome = a.outcome /\ b.saved_id = a.saved_id
      /\ b.last_msg_id = a.last_msg_id /\ b.abort = a.abort /\ b \in Memory
  BY DEF Edits, Fields, SideFields
<1>2. Alike(a, b) BY <1>1 DEF Alike, Pending
<1>3. Book(b) /\ Queued(b) = Queued(a) /\ \A t \in UserTasks : Fate(b, t) = Fate(a, t)
  BY <1>2, AlikeBook DEF Sound, Book
<1>4. \A t : Pending(b, t) <=> Pending(a, t) BY <1>1 DEF Pending
<1>5. Starting(b) <=> Starting(a) BY <1>1 DEF Starting
<1>6. StartInv(b) /\ DataInv(b) BY <1>1, <1>3, <1>5 DEF Sound, Fit, StartInv, Rest, DataInv
<1>7. EndInv(b) /\ CodecInv(b) BY <1>1 DEF Sound, Fit, EndInv, CodecInv
<1>8. InternalInv(b)
  BY <1>1, <1>3, <1>4 DEF Sound, Fit, InternalInv, ConnectOnce, PingOnce, RestOnce
<1>9. Keeps(a, b)
  <2>1. MailSame(a, b) BY <1>1 DEF MailSame
  <2> QED BY <2>1, <1>1, KeepsStill
<1> QED BY <1>1, <1>3, <1>5, <1>6, <1>7, <1>8, <1>9 DEF Stays, Sound, Fit

(* and when a call is taken from the queue.                                 *)
LEMMA PopStays ==
  ASSUME NEW a \in Memory, a.abort = "none", NEW b, NEW k, Popped1(a, b, k), Sound(a),
         k \notin LogicInits, k.layer # "user" \/ k.fn # "callback"
  PROVE  Stays(a, b) /\ b.abort = "none" /\ (k \notin Inits /\ k \notin Users => ~Starting(b))
<1>1. b.abort = "none" /\ b \in Memory BY DEF Popped1, Edits, Fields
<1>2. Fit(b) /\ (k \notin Inits /\ k \notin Users => ~Starting(b)) BY PopFit DEF Sound, Fit
<1>3. \A t \in UserTasks : k \notin CallbackOf(t) BY KindOf DEF Popped1
<1>4. Book(b) /\ \A t \in UserTasks : Fate(b, t) = Fate(a, t) BY <1>3, PopBook DEF Sound
<1>5. Keeps(a, b) BY PopKeeps
<1> QED BY <1>1, <1>2, <1>4, <1>5 DEF Stays, Sound
-----------------------------------------------------------------------------
(* Calls without a message.                                                 *)
LEMMA QuietCall ==
  ASSUME NEW to \in Layers \cup {"user"}, NEW st \in Statuses,
         NEW fn \in {"close", "close_externally", "init", "connect", "post_connect", "connection"}
  PROVE  LET k == [layer |-> to, fn |-> fn, arg |-> NoMsg, st |-> st]
         IN  k \in Calls /\ Silent(k) /\ Neutral(k) /\ k \notin Tokens
<1> DEFINE k == [layer |-> to, fn |-> fn, arg |-> NoMsg, st |-> st]
<1>1. k.layer = to /\ k.fn = fn /\ k.arg = NoMsg /\ k.st = st OBVIOUS
<1>2. fn \in FunctionNames /\ fn # "push" /\ fn # "pull" /\ fn # "message" /\ fn # "callback"
  BY DEF FunctionNames, LayerFunctions
<1>3. k \in CallTypes BY <1>2, NoMsgIs DEF CallTypes
<1>4. k \in Calls BY <1>1, <1>2, <1>3, NoMsgIs DEF Calls, Outward
<1>5. Silent(k) BY <1>1, <1>2 DEF Silent, Outward
<1>6. Neutral(k)
  <2>1. k.layer \in {"io", "codec", "logic", "top", "user"} BY DEF Layers
  <2> QED BY <2>1, <1>1, <1>2, NeutralIs
<1>7. k \notin Tokens BY <1>1, <1>2, <1>4, KindOf
<1> QED BY <1>4, <1>5, <1>6, <1>7

(* From a to b, the layer from makes the call k.                            *)
Said(a, b, from, k) ==
  /\ b \in Memory /\ Edits(a, b, {"calls", "layer"}) /\ b.calls = Append(a.calls, k)
  /\ b.layer = [a.layer EXCEPT ![from] = NextLayerState(k.fn, a.layer[from], k.st)]

(* A layer defers the call of a function.                                   *)
LEMMA SaidIs ==
  ASSUME NEW a \in Memory, NEW from \in Layers, NEW to \in Layers, NEW fn, NEW arg, NEW st,
         NEW k \in Calls, k = [layer |-> to, fn |-> fn, arg |-> arg, st |-> st],
         NEW b, b = ContinueWith(a, from, fn, to, arg, st)
  PROVE  Said(a, b, from, k)
<1> DEFINE i == [layer |-> to, fn |-> fn, arg |-> arg, st |-> st]
           d == ContinueWith(a, from, fn, to, arg, st)
           v == [a.layer EXCEPT ![from] = NextLayerState(fn, a.layer[from], st)]
<1>1. i \in Calls OBVIOUS
<1>2. d \in Memory /\ Edits(a, d, {"calls", "layer"}) /\ d.calls = Append(a.calls, i) /\ d.layer = v
  BY <1>1, ContinueIs
<1>3. k.fn = fn /\ k.st = st OBVIOUS
<1>4. d = b /\ i = k OBVIOUS
<1> HIDE DEF i, d
<1> QED BY <1>2, <1>3, <1>4 DEF Said

(* xi_layer_continue_with, for a call without a message.                    *)
LEMMA SayStays ==
  ASSUME NEW a \in Memory, a.abort = "none", Sound(a), ~Starting(a), NEW from \in Layers, NEW to \in Layers,
         NEW st \in Statuses, NEW fn \in {"close", "close_externally", "connect", "post_connect"},
         fn = "connect" => to # "io" /\ st # "OK",
         fn = "close_externally" => /\ to = "codec" => ~a.data["io"]
                                    /\ to = "logic" => ~a.data["codec"]
                                    /\ to = "top" => ~a.data["logic"]
  PROVE  LET b == ContinueWith(a, from, fn, to, NoMsg, st)
         IN  Stays(a, b) /\ b.abort = "none" /\ ~Starting(b)
<1> DEFINE b == ContinueWith(a, from, fn, to, NoMsg, st)
           k == [layer |-> to, fn |-> fn, arg |-> NoMsg, st |-> st]
<1>1. k.layer = to /\ k.fn = fn /\ k.arg = NoMsg /\ k.st = st OBVIOUS
<1>2. k \in Calls /\ Silent(k) /\ Neutral(k) /\ k \notin Tokens BY QuietCall
<1>3. Said(a, b, from, k)
  <2>1. k \in Calls BY <1>2
  <2> QED BY ONLY <2>1, a \in Memory, from \in Layers, to \in Layers, SaidIs
<1>4. Edits(a, b, SideFields \cup {"calls"}) 
  <2> HIDE DEF b, k
  <2> QED BY <1>3 DEF Said, Edits, SideFields
<1> HIDE DEF b, k
<1>5. k \notin Inits /\ k \notin Opened BY <1>1, <1>2, KindOf
<1>6. Mild(a, k) BY <1>1, <1>2, <1>5 DEF Mild
<1>7. Stays(a, b) /\ b.abort = "none" /\ ~Starting(b) BY <1>2, <1>3, <1>4, <1>6, MildStays DEF Said
<1> QED BY <1>7 DEF b

(* A handler starts by taking its call from the queue.                      *)
LEMMA CalledIs ==
  ASSUME c \in Memory, Running, Sound(c), NEW l, NEW fn, Called(l, fn)
  PROVE  /\ phase = "drain" /\ Popped \in Memory /\ Popped1(c, Popped, Call) /\ Call.layer = l /\ Call.fn = fn
         /\ Call \in Calls /\ Call.st \in Statuses /\ c.abort = "none"
         /\ Popped.abort = "none" /\ Popped.layer = c.layer /\ Popped.data = c.data /\ Popped.conn = c.conn
<1>1. c.calls # <<>> /\ phase = "drain" /\ Call.layer = l /\ Call.fn = fn BY DEF Called
<1>2. Popped = Pop(c) /\ Call = Head(c.calls) BY DEF Popped, Pop, Call
<1>3. Popped1(c, Popped, Call) BY <1>1, <1>2, PopIs
<1>4. Call \in Calls /\ Popped \in Memory BY <1>3 DEF Popped1
<1>5. Call.st \in Statuses BY <1>4 DEF Calls, CallTypes
<1> QED BY <1>1, <1>3, <1>4, <1>5 DEF Popped1, Edits, Fields, Running

(* Taking the call stays within the rules.                                  *)
LEMMA CalledStays ==
  ASSUME c \in Memory, Running, Sound(c), NEW l, NEW fn, Called(l, fn), fn \notin {"init", "callback"},
         Call \notin Inits, Call \notin Users
  PROVE  Stays(c, Popped) /\ Sound(Popped) /\ ~Starting(Popped)
<1>1. /\ Popped1(c, Popped, Call) /\ Call.fn = fn /\ Call \in Calls
      /\ c.abort = "none" /\ Popped.abort = "none"
  BY CalledIs
<1>2. Call \notin LogicInits BY DEF Inits
<1>3. Stays(c, Popped) /\ ~Starting(Popped) BY <1>1, <1>2, PopStays
<1> QED BY <1>1, <1>3 DEF Stays

(* xi_user_connection, xi_layer_default_post_connect and the layers' close  *)
(* functions.                                                               *)
LEMMA ConnectionStays ==
  ASSUME c \in Memory, Running, Sound(c), UserConnection
  PROVE  Stays(c, c')
<1>1. Called("user", "connection") /\ c' = Popped BY DEF UserConnection, Becomes
<1>2. Call \in Calls /\ Call.layer = "user" BY <1>1, CalledIs
<1>3. Call \notin Inits /\ Call \notin Users BY <1>2, KindOf
<1> QED BY <1>1, <1>3, CalledStays

LEMMA PostConnectStays ==
  ASSUME c \in Memory, Running, Sound(c), NEW l \in {"top", "codec", "io"}, DefaultPostConnect(l)
  PROVE  Stays(c, c')
<1>1. Called(l, "post_connect") BY DEF DefaultPostConnect
<1>2. Call \in Calls /\ Call.layer = l /\ Call.fn = "post_connect" BY <1>1, CalledIs
<1>3. Call \notin Inits /\ Call \notin Users BY <1>2, KindOf
<1>4. /\ Stays(c, Popped) /\ Sound(Popped) /\ ~Starting(Popped) /\ Popped \in Memory /\ Call.st \in Statuses
      /\ Popped.abort = "none"
  BY <1>1, <1>3, CalledStays, CalledIs
<1>5. \/ c' = Popped
      \/ c' = OnPrev(Popped, l, "post_connect", NoMsg, Call.st)
  BY DEF DefaultPostConnect, Becomes
<1>6. CASE c' = Popped BY <1>4, <1>6
<1>7. CASE c' = OnPrev(Popped, l, "post_connect", NoMsg, Call.st)
  <2>1. CASE l = "io"
    <3>1. c' = Popped BY <1>7, <2>1 DEF OnPrev, Prev, ContinueWith
    <3> QED BY <3>1, <1>4
  <2>2. CASE l # "io"
    <3>1. Prev(l) \in Layers /\ l \in Layers BY <2>2 DEF Prev, Layers
    <3>2. c' = ContinueWith(Popped, l, "post_connect", Prev(l), NoMsg, Call.st) BY <1>7 DEF OnPrev
    <3>3. Stays(Popped, c') BY <1>4, <3>1, <3>2, SayStays
    <3> QED BY <3>3, <1>4, StaysTrans
  <2> QED BY <2>1, <2>2
<1> QED BY <1>5, <1>6, <1>7

(* xi_mqtt_logic_layer_close, called directly or from the queue.            *)
LEMMA LogicCloseStays ==
  ASSUME NEW a \in Memory, a.abort = "none", Sound(a), ~Starting(a), NEW st \in Statuses
  PROVE  Stays(a, LogicClose(a, st))
<1>1. CASE a.data["logic"]
  <2>1. LogicClose(a, st) = ContinueWith(a, "logic", "close", "codec", NoMsg, st)
    BY <1>1 DEF LogicClose, OnPrev, Prev
  <2> QED BY <2>1, SayStays DEF Layers
<1>2. CASE ~a.data["logic"]
  <2>1. LogicClose(a, st) = ContinueWith(a, "logic", "close_externally", "logic", NoMsg, st)
    BY <1>2 DEF LogicClose, OnThis
  <2>2. ~a.data["codec"] BY <1>2 DEF Sound, Fit, DataInv
  <2>3. "logic" \in Layers BY DEF Layers
  <2> QED BY <2>1, <2>2, <2>3, SayStays
<1> QED BY <1>1, <1>2

LEMMA LogicCloseCalledStays ==
  ASSUME c \in Memory, Running, Sound(c), LogicCloseCalled
  PROVE  Stays(c, c')
<1>1. Called("logic", "close") /\ c' = LogicClose(Popped, Call.st) BY DEF LogicCloseCalled, Becomes
<1>2. Call \in Calls /\ Call.layer = "logic" /\ Call.fn = "close" BY <1>1, CalledIs
<1>3. Call \notin Inits /\ Call \notin Users BY <1>2, KindOf
<1>4. /\ Stays(c, Popped) /\ Sound(Popped) /\ ~Starting(Popped) /\ Popped \in Memory /\ Call.st \in Statuses
      /\ Popped.abort = "none"
  BY <1>1, <1>3, CalledStays, CalledIs
<1> QED BY <1>1, <1>4, LogicCloseStays, StaysTrans

(* The same of the layers below.                                            *)
LEMMA CodecCloseStays ==
  ASSUME c \in Memory, Running, Sound(c), CodecClose
  PROVE  Stays(c, c')
<1>1. Called("codec", "close") BY DEF CodecClose
<1>2. Call \in Calls /\ Call.layer = "codec" /\ Call.fn = "close" BY <1>1, CalledIs
<1>3. Call \notin Inits /\ Call \notin Users BY <1>2, KindOf
<1>4. /\ Stays(c, Popped) /\ Sound(Popped) /\ ~Starting(Popped) /\ Popped \in Memory /\ Call.st \in Statuses
      /\ Popped.abort = "none" /\ Popped.data = c.data
  BY <1>1, <1>3, CalledStays, CalledIs
<1>5. CASE c.data["codec"]
  <2>1. c' = ContinueWith(Popped, "codec", "close", "io", NoMsg, Call.st)
    BY <1>5 DEF CodecClose, Becomes, OnPrev, Prev
  <2>2. Stays(Popped, c') BY <1>4, <2>1, SayStays DEF Layers
  <2> QED BY <2>2, <1>4, StaysTrans
<1>6. CASE ~c.data["codec"]
  <2>1. c' = ContinueWith(Popped, "codec", "close_externally", "codec", NoMsg, Call.st)
    BY <1>6 DEF CodecClose, Becomes, OnThis
  <2>2. ~Popped.data["io"] BY <1>4, <1>6 DEF Sound, Fit, DataInv
  <2>3. Stays(Popped, c') BY <1>4, <2>1, <2>2, SayStays DEF Layers
  <2> QED BY <2>3, <1>4, StaysTrans
<1> QED BY <1>5, <1>6

LEMMA IoCloseStays ==
  ASSUME c \in Memory, Running, Sound(c), IoClose
  PROVE  Stays(c, c')
<1>1. Called("io", "close") BY DEF IoClose
<1>2. Call \in Calls /\ Call.layer = "io" /\ Call.fn = "close" BY <1>1, CalledIs
<1>3. Call \notin Inits /\ Call \notin Users BY <1>2, KindOf
<1>4. /\ Stays(c, Popped) /\ Sound(Popped) /\ ~Starting(Popped) /\ Popped \in Memory /\ Call.st \in Statuses
      /\ Popped.abort = "none"
  BY <1>1, <1>3, CalledStays, CalledIs
<1>5. c' = ContinueWith(Popped, "io", "close_externally", "io", NoMsg, Call.st)
  BY DEF IoClose, Becomes, OnThis
<1>6. Stays(Popped, c') BY <1>4, <1>5, SayStays DEF Layers
<1> QED BY <1>6, <1>4, StaysTrans
-----------------------------------------------------------------------------
(* More fields of the memory, one at a time.                                *)
LEMMA EditData ==
  ASSUME NEW a \in Memory, NEW v \in [Layers -> BOOLEAN], NEW b, b = [a EXCEPT !.data = v]
  PROVE  Edits(a, b, {"data"}) /\ b.data = v
BY DEF Edits, Fields, Memory

LEMMA EditIo ==
  ASSUME NEW a \in Memory, NEW v \in {"idle", "connecting", "blocked"}, NEW b, b = [a EXCEPT !.io = v]
  PROVE  Edits(a, b, {"io"}) /\ b.io = v
BY DEF Edits, Fields, Memory

LEMMA EditQueue ==
  ASSUME NEW a \in Memory, NEW v \in Seq(OutMessages), NEW b, b = [a EXCEPT !.queue = v]
  PROVE  Edits(a, b, {"queue"}) /\ b.queue = v
BY DEF Edits, Fields, Memory

LEMMA EditReceived ==
  ASSUME NEW a \in Memory, NEW v \in Seq(Incoming), NEW b, b = [a EXCEPT !.received = v]
  PROVE  Edits(a, b, {"received"}) /\ b.received = v
BY DEF Edits, Fields, Memory

LEMMA EditHandler ==
  ASSUME NEW a \in Memory, NEW v \in BOOLEAN, NEW b, b = [a EXCEPT !.connect_handler = v]
  PROVE  Edits(a, b, {"connect_handler"}) /\ b.connect_handler = v
BY DEF Edits, Fields, Memory

LEMMA EditShutdown ==
  ASSUME NEW a \in Memory, NEW v \in BOOLEAN, NEW b, b = [a EXCEPT !.shutdown_started = v]
  PROVE  Edits(a, b, {"shutdown_started"}) /\ b.shutdown_started = v
BY DEF Edits, Fields, Memory

LEMMA EditRecv ==
  ASSUME NEW a \in Memory, NEW v \in Seq(AckMessages), NEW b, b = [a EXCEPT !.recv = v]
  PROVE  Edits(a, b, {"recv"}) /\ b.recv = v
BY DEF Edits, Fields, Memory

(* From a to b, a layer got its data, or released it.                       *)
SetData(a, b, l, v) ==
  /\ b \in Memory /\ Edits(a, b, {"data"}) /\ b.data[l] = v
  /\ \A i \in Layers \ {l} : b.data[i] = a.data[i]

(* Setting what a layer has.                                                *)
LEMMA DataOf ==
  ASSUME NEW a \in Memory, NEW l \in Layers, NEW v \in BOOLEAN, NEW b, b = [a EXCEPT !.data[l] = v]
  PROVE  SetData(a, b, l, v)
<1> DEFINE d == [a.data EXCEPT ![l] = v]
<1>1. a.data \in [Layers -> BOOLEAN] BY FieldsOf
<1>2. d \in [Layers -> BOOLEAN] /\ d[l] = v /\ \A i \in Layers \ {l} : d[i] = a.data[i] BY <1>1
<1>3. b = [a EXCEPT !.data = d]
  <2>1. [a EXCEPT !.data[l] = v] = [a EXCEPT !.data = [a.data EXCEPT ![l] = v]] BY Zenon DEF Memory
  <2> QED BY <2>1
<1> HIDE DEF d
<1>4. Edits(a, b, {"data"}) /\ b.data = d BY ONLY <1>2, <1>3, a \in Memory, EditData
<1> QED BY ONLY <1>2, <1>4 DEF SetData, Edits

(* From a to b, the call k was added, and the tasks are the same.           *)
Appends(a, b, k) ==
  /\ b \in Memory /\ k \in Calls /\ Neutral(k) /\ b.calls = Append(a.calls, k)
  /\ b.task = a.task /\ b.current = a.current /\ b.q0 = a.q0 /\ b.q12 = a.q12 /\ b.saved = a.saved
  /\ b.outcome = a.outcome /\ b.saved_id = a.saved_id /\ b.last_msg_id = a.last_msg_id

(* A call more on the queue.                                                *)
LEMMA AppendSums ==
  ASSUME NEW a \in Memory, NEW b, NEW k \in Calls, b.calls = Append(a.calls, k)
  PROVE  Adds(b.calls, a.calls, k) /\ Sums(b.calls, a.calls, k)
<1>1. Adds(b.calls, a.calls, k) BY FieldsOf, QueueAppend
<1> QED BY <1>1, AddsSums

(* The books when a call about no task is appended.                         *)
LEMMA AppendsBook ==
  ASSUME NEW a \in Memory, NEW b, NEW k, Appends(a, b, k), Book(a)
  PROVE  /\ Book(b) /\ Queued(b) = Queued(a) /\ Sums(b.calls, a.calls, k)
         /\ \A t \in Tasks : Pending(b, t) <=> Pending(a, t)
         /\ \A t \in UserTasks : Fate(b, t) = Fate(a, t)
         /\ Silent(k) /\ b.queue = a.queue /\ b.data["logic"] = a.data["logic"] => Keeps(a, b)
<1>1. Adds(b.calls, a.calls, k) /\ Sums(b.calls, a.calls, k) BY AppendSums DEF Appends
<1>2. Alike(a, b) BY <1>1, AlikeAdds DEF Appends
<1>3. Book(b) /\ Queued(b) = Queued(a) /\ \A t \in UserTasks : Fate(b, t) = Fate(a, t)
  BY <1>2, AlikeBook DEF Book
<1>4. Silent(k) /\ b.queue = a.queue /\ b.data["logic"] = a.data["logic"] => Keeps(a, b)
  BY KeepsAppend DEF Appends, MailSame
<1> QED BY <1>1, <1>2, <1>3, <1>4 DEF Alike

(* At the beginning of a connection, between two of its calls.              *)
Begun(a) ==
  /\ Only(a.calls, Inits \cup Users) /\ ~Has(a.calls, Inits) /\ a.io # "connecting"
  /\ a.current = None /\ ~a.keepalive_event /\ (\A t \in Tasks : ~a.task[t].timeout)
  /\ Internal \cap Queued(a) = {} /\ a.data["logic"] /\ a.conn = "OPENING"

(* While a connection starts, no other call is queued.                      *)
LEMMA OnlyStart ==
  ASSUME NEW q \in Seq(Calls), Only(q, Inits \cup Users)
  PROVE  /\ ~Has(q, Tokens) /\ ~Has(q, Opened) /\ One(q, Tokens) /\ One(q, Opened)
         /\ \A l : ~Has(q, Gone(l))
         /\ \A t \in Internal : ~Has(q, PushOf(t))
<1>1. ASSUME NEW i \in 1 .. Len(q)
      PROVE  q[i] \notin Tokens /\ q[i] \notin Opened /\ (\A l : q[i] \notin Gone(l))
             /\ \A t \in Internal : q[i] \notin PushOf(t)
  <2>1. q[i] \in Calls /\ q[i] \in Inits \cup Users BY DEF Only
  <2>2. UserTasks \cap Internal = {} BY TaskNames
  <2> QED BY <2>1, <2>2, KindOf
<1> QED BY <1>1 DEF Has, One

(* Taking one of its calls leaves none.                                     *)
LEMMA PopBegins ==
  ASSUME NEW a \in Memory, NEW b, NEW k, Popped1(a, b, k), Sound(a), k \in Inits, k \notin LogicInits
  PROVE  Begun(b) /\ b.data = a.data
<1>1. b.data = a.data /\ Queued(b) = Queued(a) /\ b.current = a.current /\ b.keepalive_event = a.keepalive_event
      /\ b.task = a.task /\ b.conn = a.conn /\ b.io = a.io
  BY DEF Popped1, Edits, Fields, Queued
<1>2. /\ Plus(a.calls, b.calls, k, Inits) /\ Plus(a.calls, b.calls, k, Inits \ LogicInits)
      /\ Only(a.calls, Inits \cup Users) => Only(b.calls, Inits \cup Users)
  BY DEF Popped1, Sums
<1>3. Has(a.calls, Inits) /\ Has(a.calls, Inits \ LogicInits) /\ ~Has(b.calls, Inits)
  BY <1>2 DEF Plus, Sound, Fit, StartInv
<1> QED BY <1>1, <1>2, <1>3 DEF Sound, Fit, StartInv, Starting, Begun

(* The next call of the chain, from a layer with its data.                  *)
LEMMA ChainFit ==
  ASSUME NEW a \in Memory, NEW b, NEW k, Appends(a, b, k), Book(a), Begun(a), RestOnce(a),
         k \in Inits, k \notin LogicInits, DataInv(b), b.data["logic"], b.conn = "OPENING",
         b.io # "connecting", b.data["codec"] /\ b.io = "blocked" => b.queue # <<>>, ~b.keepalive_event,
         k.layer = "codec" /\ k.fn = "init" => ~b.data["codec"],
         k.layer = "io" /\ k.fn = "init" => b.data["codec"] /\ ~b.data["io"],
         k.layer = "io" /\ k.fn = "connect" => b.data["codec"],
         k.layer \in {"codec", "logic"} /\ k.fn = "connect" => b.data["io"]
  PROVE  Sound(b)
<1>1. Book(b) /\ Queued(b) = Queued(a) /\ Sums(b.calls, a.calls, k) BY AppendsBook
<1>2. b.task = a.task /\ b.current = a.current /\ k \in Calls BY DEF Appends
<1>3. Has(b.calls, Inits) /\ One(b.calls, Inits) /\ ~Has(b.calls, LogicInits)
  <2>1. ~Has(a.calls, Inits) BY DEF Begun
  <2>2. ~Has(a.calls, LogicInits) /\ One(a.calls, Inits)
    BY <2>1 DEF Has, One, Inits
  <2> QED BY <2>1, <2>2, <1>1 DEF Sums, Plus
<1>4. Only(b.calls, Inits \cup Users) BY <1>1 DEF Sums, Begun
<1>5. /\ ~Has(a.calls, Kind("codec", "init")) /\ ~Has(a.calls, Kind("io", "init"))
      /\ ~Has(a.calls, Kind("io", "connect")) /\ ~Has(a.calls, Connects)
  BY DEF Has, Inits, Begun, Connects
<1>6. StartInv(b)
  <2>1. /\ Has(b.calls, Kind("codec", "init")) => k \in Kind("codec", "init")
        /\ Has(b.calls, Kind("io", "init")) => k \in Kind("io", "init")
        /\ Has(b.calls, Kind("io", "connect")) => k \in Kind("io", "connect")
        /\ Has(b.calls, Connects) => k \in Connects
    BY <1>1, <1>5 DEF Sums, Plus
  <2>2. /\ Has(b.calls, Kind("codec", "init")) => ~b.data["codec"]
        /\ Has(b.calls, Kind("io", "init")) => b.data["codec"] /\ ~b.data["io"]
        /\ Has(b.calls, Kind("io", "connect")) => b.data["codec"]
        /\ Has(b.calls, Connects) => b.data["io"]
    BY <2>1, <1>2, KindOf DEF Connects
  <2> QED BY <2>2, <1>1, <1>2, <1>3, <1>4 DEF StartInv, Begun, Connects
<1>7. b.calls \in Seq(Calls) BY FieldsOf DEF Appends
<1>8. EndInv(b) /\ CodecInv(b) BY <1>4, <1>7, OnlyStart DEF EndInv, CodecInv
<1>9. Internal = {"connect", "keepalive", "shutdown", "control"} BY TaskNames
<1>10. InternalInv(b)
  <2>1. \A t \in Internal : t \notin Queued(b) /\ ~Pending(b, t)
    BY <1>1, <1>4, <1>7, OnlyStart DEF Begun, Pending
  <2>2. ~Has(b.calls, Opened) /\ One(b.calls, Opened) BY <1>4, <1>7, OnlyStart
  <2> QED BY <2>1, <2>2, <1>9 DEF InternalInv, ConnectOnce, PingOnce, RestOnce
<1> QED BY <1>1, <1>6, <1>8, <1>10 DEF Sound, Fit

(* A handler of the chain: it takes its call, changes its layer's data, and *)
(* makes the next call.                                                     *)
LEMMA ChainStays ==
  ASSUME NEW a \in Memory, a.abort = "none", Book(a), Begun(a), RestOnce(a), NEW d \in Memory,
         Edits(a, d, {"data", "io"}), d.data["logic"], NEW b, NEW k \in Calls, NEW from,
         Said(d, b, from, k), Neutral(k), Silent(k), k \in Inits, k \notin LogicInits, DataInv(d),
         d.io # "connecting", d.data["codec"] /\ d.io = "blocked" => d.queue # <<>>,
         k.layer = "codec" /\ k.fn = "init" => ~d.data["codec"],
         k.layer = "io" /\ k.fn = "init" => d.data["codec"] /\ ~d.data["io"],
         k.layer = "io" /\ k.fn = "connect" => d.data["codec"],
         k.layer \in {"codec", "logic"} /\ k.fn = "connect" => d.data["io"]
  PROVE  Stays(a, b)
<1>1. \A f \in Fields \ {"data", "io", "calls", "layer"} : b[f] = a[f] BY DEF Said, Edits
<1>2. /\ b \in Memory /\ b.abort = a.abort
      /\ b.calls = Append(a.calls, k)
      /\ b.task = a.task /\ b.current = a.current /\ b.q0 = a.q0 /\ b.q12 = a.q12 /\ b.saved = a.saved
      /\ b.outcome = a.outcome /\ b.saved_id = a.saved_id /\ b.last_msg_id = a.last_msg_id
      /\ b.queue = a.queue /\ b.conn = a.conn /\ b.keepalive_event = a.keepalive_event
  BY <1>1 DEF Fields, Said, Edits
<1>3. Appends(a, b, k) BY <1>2 DEF Appends
<1>4. b.data = d.data /\ b.io = d.io /\ b.queue = d.queue /\ b.current = d.current /\ b.q0 = d.q0 /\ b.q12 = d.q12
      /\ b.recv = d.recv /\ b.keepalive_event = d.keepalive_event /\ b.conn = d.conn
      /\ b.connect_handler = d.connect_handler
  BY DEF Said, Edits, Fields
<1>5. b.conn = "OPENING" /\ ~b.keepalive_event BY <1>2 DEF Begun
<1>6. DataInv(b) BY <1>4, <1>5 DEF DataInv, Rest
<1>7. Sound(b) BY <1>3, <1>4, <1>5, <1>6, ChainFit
<1>8. a.data["logic"] BY DEF Begun
<1>9. /\ \A t \in UserTasks : Fate(b, t) = Fate(a, t)
      /\ Silent(k) /\ b.queue = a.queue /\ b.data["logic"] = a.data["logic"] => Keeps(a, b)
  BY <1>3, AppendsBook
<1>10. Keeps(a, b) BY <1>2, <1>4, <1>8, <1>9
<1> QED BY <1>2, <1>7, <1>9, <1>10 DEF Stays
-----------------------------------------------------------------------------
(* The beginning of a connection, handler by handler.                       *)
LEMMA ChainCalled ==
  ASSUME c \in Memory, Running, Sound(c), NEW l, NEW fn, Called(l, fn), Call \in Inits, Call \notin LogicInits
  PROVE  /\ Begun(Popped) /\ Sound(Popped) /\ Stays(c, Popped) /\ Popped \in Memory /\ ~Starting(Popped)
         /\ Popped.data = c.data /\ Popped.abort = "none" /\ Book(Popped) /\ RestOnce(Popped)
         /\ DataInv(Popped) /\ Popped.io = c.io /\ Popped.queue = c.queue /\ Call.st \in Statuses
<1>1. /\ Popped1(c, Popped, Call) /\ Popped \in Memory /\ Call \in Calls /\ Call.st \in Statuses
      /\ c.abort = "none" /\ Popped.abort = "none"
  BY CalledIs
<1>2. Begun(Popped) /\ Popped.data = c.data BY <1>1, PopBegins
<1>3. Call.layer # "user" BY <1>1, KindOf
<1>4. Stays(c, Popped) BY <1>1, <1>3, PopStays
<1>5. Sound(Popped) BY <1>1, <1>4 DEF Stays
<1>6. ~Starting(Popped) BY <1>2 DEF Begun, Starting
<1>7. Popped.io = c.io /\ Popped.queue = c.queue BY <1>1 DEF Popped1, Edits, Fields
<1> QED BY <1>1, <1>2, <1>4, <1>5, <1>6, <1>7 DEF Sound, Fit, InternalInv

(* xi_mqtt_codec_layer_init, xi_io_net_layer_init and                       *)
(* xi_mqtt_codec_layer_connect.                                             *)
LEMMA CodecInitStays ==
  ASSUME c \in Memory, Running, Sound(c), CodecInit
  PROVE  Stays(c, c')
<1> DEFINE e == Check(Popped, ~c.data["codec"], "codec_init")
           d == [e EXCEPT !.data["codec"] = TRUE]
           k == [layer |-> "io", fn |-> "init", arg |-> NoMsg, st |-> "OK"]
<1>1. Called("codec", "init") /\ c' = OnPrev(d, "codec", "init", NoMsg, "OK") BY DEF CodecInit, Becomes
<1>2. Call \in Calls /\ Call.layer = "codec" /\ Call.fn = "init" BY <1>1, CalledIs
<1>3. Call \in Inits /\ Call \notin LogicInits /\ Call \in Kind("codec", "init") BY <1>2, KindOf
<1>4. /\ Begun(Popped) /\ Sound(Popped) /\ Stays(c, Popped) /\ Popped \in Memory
      /\ Popped.data = c.data /\ Popped.abort = "none" /\ Book(Popped) /\ RestOnce(Popped)
      /\ DataInv(Popped) /\ Popped.io = c.io
  BY <1>1, <1>3, ChainCalled
<1>5. ~c.data["codec"]
  <2>1. Popped1(c, Popped, Call) BY <1>1, CalledIs
  <2>2. Has(c.calls, Kind("codec", "init")) BY <2>1, <1>3 DEF Popped1, Sums, Plus
  <2> QED BY <2>2 DEF Sound, Fit, StartInv
<1>6. ~c.data["io"] /\ c.io = "idle" BY <1>5 DEF Sound, Fit, DataInv
<1>7. e = Popped BY <1>5 DEF Check
<1>8. d = [Popped EXCEPT !.data["codec"] = TRUE] BY <1>7
<1>9. c' = ContinueWith(d, "codec", "init", "io", NoMsg, "OK") BY <1>1 DEF OnPrev, Prev
<1>10. {"codec", "io", "logic"} \subseteq Layers /\ "OK" \in Statuses BY DEF Layers, Statuses
<1>11. k.layer = "io" /\ k.fn = "init" OBVIOUS
<1>12. k \in Calls /\ Silent(k) /\ Neutral(k) BY <1>10, QuietCall
<1> HIDE DEF e, d
<1>13. /\ Edits(Popped, d, {"data"}) /\ d.data["codec"]
       /\ \A i \in Layers \ {"codec"} : d.data[i] = Popped.data[i]
  <2>1. "codec" \in Layers /\ Popped \in Memory BY <1>4, <1>10
  <2>2. TRUE \in BOOLEAN OBVIOUS
  <2>3. SetData(Popped, d, "codec", TRUE) BY ONLY <2>1, <2>2, <1>8, DataOf
  <2> QED BY ONLY <2>3 DEF SetData
<1>14. d \in Memory /\ Edits(Popped, d, {"data", "io"}) BY <1>13 DEF Edits
<1>15. k = [layer |-> "io", fn |-> "init", arg |-> NoMsg, st |-> "OK"] OBVIOUS
<1> HIDE DEF k
<1>16. Said(d, c', "codec", k) BY ONLY <1>9, <1>10, <1>12, <1>14, <1>15, SaidIs
<1>17. k \in Inits /\ k \notin LogicInits BY <1>11, <1>12, KindOf
<1>18. d.data["logic"] /\ ~d.data["io"] /\ d.io = "idle"
  BY <1>4, <1>6, <1>10, <1>13 DEF Begun, Edits, Fields
<1>19. DataInv(d)
  <2>1. /\ d.conn = Popped.conn /\ d.connect_handler = Popped.connect_handler /\ d.queue = Popped.queue
        /\ d.current = Popped.current /\ d.q0 = Popped.q0 /\ d.q12 = Popped.q12 /\ d.recv = Popped.recv
        /\ d.keepalive_event = Popped.keepalive_event
    BY <1>13 DEF Edits, Fields
  <2> QED BY <2>1, <1>4, <1>10, <1>13, <1>18 DEF DataInv, Begun, Rest
<1>20. Stays(Popped, c')
  BY <1>4, <1>11, <1>12, <1>13, <1>14, <1>16, <1>17, <1>18, <1>19, ChainStays
<1> QED BY <1>4, <1>20, StaysTrans

LEMMA IoInitStays ==
  ASSUME c \in Memory, Running, Sound(c), IoInit
  PROVE  Stays(c, c')
<1>1. Called("io", "init") BY DEF IoInit
<1>2. Call \in Calls /\ Call.layer = "io" /\ Call.fn = "init" BY <1>1, CalledIs
<1>3. Call \in Inits /\ Call \notin LogicInits /\ Call \in Kind("io", "init") BY <1>2, KindOf
<1>4. /\ Begun(Popped) /\ Sound(Popped) /\ Stays(c, Popped) /\ Popped \in Memory
      /\ Popped.data = c.data /\ Popped.abort = "none" /\ Book(Popped) /\ RestOnce(Popped)
      /\ DataInv(Popped) /\ Popped.io = c.io
  BY <1>1, <1>3, ChainCalled
<1>5. c.data["codec"] /\ ~c.data["io"]
  <2>1. Popped1(c, Popped, Call) BY <1>1, CalledIs
  <2>2. Has(c.calls, Kind("io", "init")) BY <2>1, <1>3 DEF Popped1, Sums, Plus
  <2> QED BY <2>2 DEF Sound, Fit, StartInv
<1>6. c.io = "idle" BY <1>5 DEF Sound, Fit, DataInv
<1>7. {"codec", "io", "logic"} \subseteq Layers /\ {"OK", "ERR"} \subseteq Statuses BY DEF Layers, Statuses
<1> DEFINE f == [Popped EXCEPT !.data["io"] = TRUE]
<1>8. PICK d \in {f, Popped}, st \in {"OK", "ERR"} : c' = OnThis(d, "io", "connect", NoMsg, st)
  BY <1>5 DEF IoInit
<1> DEFINE k == [layer |-> "io", fn |-> "connect", arg |-> NoMsg, st |-> st]
<1>9. c' = ContinueWith(d, "io", "connect", "io", NoMsg, st) BY <1>8 DEF OnThis
<1>10. k.layer = "io" /\ k.fn = "connect" /\ st \in Statuses BY <1>7
<1>11. k \in Calls /\ Silent(k) /\ Neutral(k) BY <1>7, <1>10, QuietCall
<1>12. /\ d \in Memory /\ Edits(Popped, d, {"data", "io"})
       /\ \A i \in Layers \ {"io"} : d.data[i] = Popped.data[i]
       /\ d.io = Popped.io /\ d.conn = Popped.conn /\ d.connect_handler = Popped.connect_handler
       /\ d.queue = Popped.queue /\ d.current = Popped.current /\ d.q0 = Popped.q0
       /\ d.q12 = Popped.q12 /\ d.recv = Popped.recv /\ d.keepalive_event = Popped.keepalive_event
  <2>1. CASE d = Popped
    <3>1. Edits(Popped, d, {"data", "io"}) BY <2>1, <1>4 DEF Edits
    <3> QED BY <3>1, <2>1, <1>4
  <2>2. CASE d = f
    <3>1. Edits(Popped, d, {"data"}) /\ \A i \in Layers \ {"io"} : d.data[i] = Popped.data[i]
      <4>1. "io" \in Layers /\ Popped \in Memory BY <1>4, <1>7
      <4>2. TRUE \in BOOLEAN OBVIOUS
      <4>3. SetData(Popped, d, "io", TRUE) BY ONLY <4>1, <4>2, <2>2, DataOf
      <4> QED BY ONLY <4>3 DEF SetData
    <3> HIDE DEF f
    <3> QED BY <3>1 DEF Edits, Fields
  <2> QED BY <1>8, <2>1, <2>2
<1>13. k = [layer |-> "io", fn |-> "connect", arg |-> NoMsg, st |-> st] OBVIOUS
<1> HIDE DEF k, f
<1>14. Said(d, c', "io", k) BY ONLY <1>7, <1>9, <1>11, <1>12, <1>13, SaidIs
<1>15. k \in Inits /\ k \notin LogicInits BY <1>10, <1>11, KindOf
<1>16. d.data["logic"] /\ d.data["codec"] /\ d.io = "idle"
  BY <1>4, <1>5, <1>6, <1>7, <1>12 DEF Begun
<1>17. DataInv(d) BY <1>4, <1>12, <1>16 DEF DataInv, Begun, Rest
<1>18. Stays(Popped, c')
  BY <1>4, <1>10, <1>11, <1>12, <1>14, <1>15, <1>16, <1>17, ChainStays
<1> QED BY <1>4, <1>18, StaysTrans

LEMMA CodecConnectStays ==
  ASSUME c \in Memory, Running, Sound(c), CodecConnect
  PROVE  Stays(c, c')
<1>1. Called("codec", "connect") /\ c' = ContinueWith(Popped, "codec", "connect", "logic", NoMsg, Call.st)
  BY DEF CodecConnect, Becomes, OnSucc, Succ
<1>2. Call \in Calls /\ Call.layer = "codec" /\ Call.fn = "connect" /\ Call.st \in Statuses BY <1>1, CalledIs
<1>3. {"codec", "io", "logic"} \subseteq Layers BY DEF Layers
<1>4. CASE Call.st # "OK"
  <2>1. Call \notin Inits /\ Call \notin Users BY <1>2, <1>4, KindOf
  <2>2. Stays(c, Popped) /\ Sound(Popped) /\ ~Starting(Popped) /\ Popped \in Memory /\ Popped.abort = "none"
    BY <1>1, <2>1, CalledStays, CalledIs
  <2>3. Stays(Popped, c') BY <1>1, <1>2, <1>3, <1>4, <2>2, SayStays
  <2> QED BY <2>2, <2>3, StaysTrans
<1>5. CASE Call.st = "OK"
  <2> DEFINE k == [layer |-> "logic", fn |-> "connect", arg |-> NoMsg, st |-> "OK"]
  <2>1. Call \in Inits /\ Call \notin LogicInits /\ Call \in Connects BY <1>2, <1>5, KindOf DEF Connects
  <2>2. /\ Begun(Popped) /\ Sound(Popped) /\ Stays(c, Popped) /\ Popped \in Memory
        /\ Popped.data = c.data /\ Popped.abort = "none" /\ Book(Popped) /\ RestOnce(Popped)
        /\ DataInv(Popped) /\ Popped.io = c.io /\ Popped.queue = c.queue
    BY <1>1, <2>1, ChainCalled
  <2>3. c.data["io"]
    <3>1. Popped1(c, Popped, Call) BY <1>1, CalledIs
    <3>2. Has(c.calls, Connects) BY <3>1, <2>1 DEF Popped1, Sums, Plus
    <3> QED BY <3>2 DEF Sound, Fit, StartInv, Connects
  <2>4. k.layer = "logic" /\ k.fn = "connect" /\ k.st = "OK" OBVIOUS
  <2>5. k \in Calls /\ Silent(k) /\ Neutral(k) BY <1>2, <1>3, <1>5, QuietCall
  <2>6. k = [layer |-> "logic", fn |-> "connect", arg |-> NoMsg, st |-> "OK"] OBVIOUS
  <2> HIDE DEF k
  <2>7. Said(Popped, c', "codec", k) BY ONLY <1>1, <1>3, <1>5, <2>2, <2>5, <2>6, SaidIs
  <2>8. k \in Inits /\ k \notin LogicInits BY <2>4, <2>5, KindOf
  <2>9. Edits(Popped, Popped, {"data", "io"}) BY <2>2 DEF Edits
  <2>10. Popped.data["logic"] /\ Popped.io # "connecting" BY <2>2 DEF Begun
  <2>11. Popped.data["codec"] /\ Popped.io = "blocked" => Popped.queue # <<>>
    BY <2>2 DEF Sound, Fit, CodecInv
  <2>12. Stays(Popped, c')
    BY <2>2, <2>3, <2>4, <2>5, <2>7, <2>8, <2>9, <2>10, <2>11, ChainStays
  <2> QED BY <2>2, <2>12, StaysTrans
<1> QED BY <1>4, <1>5
-----------------------------------------------------------------------------
(* What the socket is waiting for.                                          *)
LEMMA IoStays ==
  ASSUME NEW a \in Memory, a.abort = "none", Sound(a), NEW b, Edits(a, b, {"io"}),
         b.io = "connecting" => Begun(a) /\ a.data["io"],
         b.io = "blocked" => /\ a.data["io"] /\ ~Has(a.calls, Tokens) /\ a.queue # <<>>
                             /\ ~Starting(a)
  PROVE  Stays(a, b) /\ b.abort = "none"
<1>1. /\ b.data = a.data /\ b.session = a.session /\ b.conn = a.conn
      /\ b.connect_handler = a.connect_handler /\ b.shutdown_started = a.shutdown_started
      /\ b.current = a.current /\ b.keepalive_event = a.keepalive_event
      /\ b.queue = a.queue /\ b.recv = a.recv /\ b.task = a.task /\ b.q0 = a.q0 /\ b.q12 = a.q12
      /\ b.saved = a.saved /\ b.calls = a.calls /\ b.outcome = a.outcome /\ b.saved_id = a.saved_id
      /\ b.last_msg_id = a.last_msg_id /\ b.abort = a.abort /\ b \in Memory
  BY DEF Edits, Fields
<1>2. Alike(a, b) BY <1>1 DEF Alike, Pending
<1>3. Book(b) /\ Queued(b) = Queued(a) /\ \A t \in UserTasks : Fate(b, t) = Fate(a, t)
  BY <1>2, AlikeBook DEF Sound, Book
<1>4. \A t : Pending(b, t) <=> Pending(a, t) BY <1>1 DEF Pending
<1>5. b.io \in {"idle", "connecting", "blocked"} BY <1>1, FieldsOf
<1>6. StartInv(b)
  <2>1. CASE b.io = "connecting"
    <3>1. ~Has(a.calls, Inits \ LogicInits) /\ ~Has(a.calls, LogicInits)
      BY <2>1 DEF Begun, Has, Inits
    <3>2. /\ ~Has(a.calls, Kind("codec", "init")) /\ ~Has(a.calls, Kind("io", "init"))
          /\ ~Has(a.calls, Kind("io", "connect")) /\ ~Has(a.calls, Connects)
      BY <2>1 DEF Has, Inits, Begun, Connects
    <3>3. One(a.calls, Inits) BY DEF Sound, Fit, StartInv
    <3> QED BY <1>1, <1>3, <2>1, <3>1, <3>2, <3>3 DEF StartInv, Begun, Connects
  <2>2. CASE b.io # "connecting"
    <3>1. Starting(b) => Starting(a) BY <1>1, <2>2 DEF Starting
    <3> QED BY <1>1, <1>3, <2>2, <3>1 DEF Sound, Fit, StartInv, Rest
  <2> QED BY <2>1, <2>2
<1>7. DataInv(b) BY <1>1, <1>5 DEF Sound, Fit, DataInv, Rest
<1>8. EndInv(b) BY <1>1 DEF Sound, Fit, EndInv
<1>9. CodecInv(b)
  <2> SUFFICES ASSUME b.data["codec"]
               PROVE  /\ One(b.calls, Tokens)
                      /\ Has(b.calls, Tokens) => b.io # "blocked"
                      /\ Has(b.calls, Tokens) \/ b.io = "blocked" => b.queue # <<>>
    BY DEF CodecInv
  <2> QED BY <1>1 DEF Sound, Fit, CodecInv
<1>10. InternalInv(b)
  BY <1>1, <1>3, <1>4 DEF Sound, Fit, InternalInv, ConnectOnce, PingOnce, RestOnce
<1>11. Keeps(a, b)
  <2>1. MailSame(a, b) BY <1>1 DEF MailSame
  <2> QED BY <2>1, <1>1, KeepsStill
<1> QED BY <1>1, <1>3, <1>6, <1>7, <1>8, <1>9, <1>10, <1>11 DEF Stays, Sound, Fit

(* xi_io_net_layer_connect, before and after the socket is connected.       *)
LEMMA IoConnectStays ==
  ASSUME c \in Memory, Running, Sound(c), IoConnect
  PROVE  Stays(c, c')
<1>1. Called("io", "connect") BY DEF IoConnect
<1>2. Call \in Calls /\ Call.layer = "io" /\ Call.fn = "connect" BY <1>1, CalledIs
<1>3. Call \in Inits /\ Call \notin LogicInits BY <1>2, KindOf
<1>4. /\ Begun(Popped) /\ Sound(Popped) /\ Stays(c, Popped) /\ Popped \in Memory /\ ~Starting(Popped)
      /\ Popped.data = c.data /\ Popped.abort = "none" /\ Call.st \in Statuses
  BY <1>1, <1>3, ChainCalled
<1>5. "codec" \in Layers /\ "io" \in Layers /\ "ERR" \in Statuses BY DEF Layers, Statuses
<1>6. \/ \E st \in Statuses : st # "OK" /\ c' = ContinueWith(Popped, "io", "connect", "codec", NoMsg, st)
      \/ c.data["io"] /\ c' = [Popped EXCEPT !.io = "connecting"]
  BY <1>4, <1>5 DEF IoConnect, OnSucc, Succ
<1>7. CASE \E st \in Statuses : st # "OK" /\ c' = ContinueWith(Popped, "io", "connect", "codec", NoMsg, st)
  <2>1. PICK st \in Statuses : st # "OK" /\ c' = ContinueWith(Popped, "io", "connect", "codec", NoMsg, st)
    BY <1>7
  <2>2. Stays(Popped, c') BY <1>4, <1>5, <2>1, SayStays
  <2> QED BY <2>2, <1>4, StaysTrans
<1>8. CASE c.data["io"] /\ c' = [Popped EXCEPT !.io = "connecting"]
  <2>1. "connecting" \in {"idle", "connecting", "blocked"} OBVIOUS
  <2>2. Edits(Popped, c', {"io"}) /\ c'.io = "connecting" BY ONLY <1>4, <1>8, <2>1, EditIo
  <2>3. Stays(Popped, c') BY <1>4, <1>8, <2>2, IoStays
  <2> QED BY <2>3, <1>4, StaysTrans
<1> QED BY <1>6, <1>7, <1>8

LEMMA SocketConnectedStays ==
  ASSUME c \in Memory, Running, Sound(c), SocketConnected
  PROVE  Stays(c, c')
<1> DEFINE a == [c EXCEPT !.io = "idle"]
<1>1. c.io = "connecting" /\ c.abort = "none" BY DEF SocketConnected, Running
<1>2. Edits(c, a, {"io"}) /\ a.io = "idle"
  <2>1. "idle" \in {"idle", "connecting", "blocked"} OBVIOUS
  <2> QED BY ONLY c \in Memory, <2>1, EditIo
<1>3. PICK st \in {"OK", "ERR"} : c' = OnSucc(a, "io", "connect", NoMsg, st) BY DEF SocketConnected
<1>4. c' = ContinueWith(a, "io", "connect", "codec", NoMsg, st) BY <1>3 DEF OnSucc, Succ
<1> HIDE DEF a
<1>5. Stays(c, a) /\ a.abort = "none" BY <1>1, <1>2, IoStays
<1>6. Sound(a) /\ a \in Memory BY <1>5 DEF Stays
<1>7. /\ a.calls = c.calls /\ a.current = c.current /\ a.keepalive_event = c.keepalive_event /\ a.task = c.task
      /\ Queued(a) = Queued(c) /\ a.data = c.data /\ a.conn = c.conn
  BY <1>2 DEF Edits, Fields, Queued
<1>8. Begun(a) /\ a.data["io"] BY <1>1, <1>2, <1>7 DEF Sound, Fit, StartInv, Starting, Begun
<1>9. ~Starting(a) BY <1>8 DEF Begun, Starting
<1>10. "codec" \in Layers /\ "io" \in Layers /\ st \in Statuses BY DEF Layers, Statuses
<1>11. CASE st # "OK"
  <2>1. Stays(a, c') BY <1>4, <1>5, <1>6, <1>9, <1>10, <1>11, SayStays
  <2> QED BY <2>1, <1>5, StaysTrans
<1>12. CASE st = "OK"
  <2> DEFINE k == [layer |-> "codec", fn |-> "connect", arg |-> NoMsg, st |-> st]
  <2>1. k.layer = "codec" /\ k.fn = "connect" /\ k.st = "OK" BY <1>12
  <2>2. k \in Calls /\ Silent(k) /\ Neutral(k) BY <1>10, QuietCall
  <2>3. k = [layer |-> "codec", fn |-> "connect", arg |-> NoMsg, st |-> st] OBVIOUS
  <2> HIDE DEF k
  <2>4. Said(a, c', "io", k) BY ONLY <1>4, <1>6, <1>10, <2>2, <2>3, SaidIs
  <2>5. k \in Inits /\ k \notin LogicInits BY <2>1, <2>2, KindOf
  <2>6. Edits(a, a, {"data", "io"}) BY <1>6 DEF Edits
  <2>7. Book(a) /\ RestOnce(a) /\ DataInv(a) BY <1>6 DEF Sound, Fit, InternalInv
  <2>8. a.data["logic"] BY <1>8 DEF Begun
  <2>9. Stays(a, c') BY <1>2, <1>5, <1>6, <1>8, <2>1, <2>2, <2>4, <2>5, <2>6, <2>7, <2>8, ChainStays
  <2> QED BY <2>9, <1>5, StaysTrans
<1> QED BY <1>11, <1>12

(* The delay before a connection attempt is over.                           *)
LEMMA HandlerStays ==
  ASSUME c \in Memory, Running, Sound(c), PollInv(phase, c), ConnectHandlerFires
  PROVE  Stays(c, c') /\ ~c'.connect_handler
<1> DEFINE e == [c EXCEPT !.connect_handler = FALSE]
           v == e.data["top"] \/ ControlTopic
           d == [e EXCEPT !.data["top"] = v]
           k == [layer |-> "logic", fn |-> "init", arg |-> NoMsg, st |-> "OK"]
<1>1. c.connect_handler /\ phase = "timers" /\ c' = TopInitHandler(e) /\ c.abort = "none"
  BY DEF ConnectHandlerFires, Running
<1>2. {"top", "logic", "codec", "io"} \subseteq Layers /\ "OK" \in Statuses BY DEF Layers, Statuses
<1>3. Edits(c, e, {"connect_handler"}) /\ e.connect_handler = FALSE
  <2>1. FALSE \in BOOLEAN OBVIOUS
  <2> QED BY ONLY c \in Memory, <2>1, EditHandler
<1>4. c' = ContinueWith(d, "top", "init", "logic", NoMsg, "OK")
  BY <1>1 DEF TopInitHandler, OnPrev, Prev
<1>5. e \in Memory BY <1>3 DEF Edits
<1>6. v \in BOOLEAN
  <2>1. ControlTopic \in BOOLEAN BY ClientAssumption
  <2>2. e.data["top"] \in BOOLEAN
    <3> HIDE DEF e
    <3> QED BY <1>2, <1>5, FieldsOf
  <2> QED BY <2>1, <2>2
<1>7. d = [e EXCEPT !.data["top"] = v] OBVIOUS
<1>8. k.layer = "logic" /\ k.fn = "init" OBVIOUS
<1>9. k \in Calls /\ Silent(k) /\ Neutral(k) BY <1>2, QuietCall
<1>10. k = [layer |-> "logic", fn |-> "init", arg |-> NoMsg, st |-> "OK"] OBVIOUS
<1> HIDE DEF e, d, v, k
<1>11. SetData(e, d, "top", v)
  <2>1. "top" \in Layers BY <1>2
  <2> QED BY ONLY <2>1, <1>5, <1>6, <1>7, DataOf
<1>12. Said(d, c', "top", k)
  <2>1. d \in Memory /\ "top" \in Layers /\ "logic" \in Layers BY <1>2, <1>11 DEF SetData
  <2> QED BY ONLY <2>1, <1>4, <1>9, <1>10, SaidIs
<1> DEFINE b == c'
<1>13. \A f \in Fields \ {"connect_handler", "data", "calls", "layer"} : b[f] = c[f]
  BY <1>3, <1>11, <1>12 DEF Said, SetData, Edits
<1>14. /\ b.task = c.task /\ b.current = c.current /\ b.q0 = c.q0 /\ b.q12 = c.q12 /\ b.saved = c.saved
       /\ b.outcome = c.outcome /\ b.saved_id = c.saved_id /\ b.last_msg_id = c.last_msg_id
       /\ b.abort = c.abort /\ b.conn = c.conn /\ b.keepalive_event = c.keepalive_event /\ b.io = c.io
       /\ b.queue = c.queue /\ b.recv = c.recv /\ b.shutdown_started = c.shutdown_started
  BY <1>13 DEF Fields
<1>15. b \in Memory /\ ~b.connect_handler /\ b.calls = Append(c.calls, k)
  BY <1>3, <1>11, <1>12 DEF Said, SetData, Edits, Fields
<1>16. b.data["logic"] = c.data["logic"] /\ b.data["codec"] = c.data["codec"] /\ b.data["io"] = c.data["io"]
  BY <1>2, <1>3, <1>11, <1>12 DEF Said, SetData, Edits, Fields
<1> HIDE DEF b
<1>17. Appends(c, b, k) BY <1>9, <1>14, <1>15 DEF Appends
<1>18. /\ Book(b) /\ Queued(b) = Queued(c) /\ Sums(b.calls, c.calls, k)
       /\ \A t \in UserTasks : Fate(b, t) = Fate(c, t)
       /\ Keeps(c, b)
  BY <1>9, <1>14, <1>16, <1>17, AppendsBook DEF Sound
<1>19. Only(c.calls, Users) BY <1>1 DEF PollInv
<1>20. Rest(c) /\ ~c.data["logic"] /\ ~c.data["codec"] /\ ~c.data["io"] /\ c.io = "idle"
       /\ c.current = None /\ c.q0 = <<>> /\ c.q12 = <<>> /\ ~c.keepalive_event
  BY <1>1 DEF Sound, Fit, DataInv
<1>21. c.calls \in Seq(Calls) /\ b.calls \in Seq(Calls) BY <1>15, FieldsOf
<1>22. ~Has(c.calls, Inits)
  <2> SUFFICES ASSUME NEW i \in 1 .. Len(c.calls) PROVE c.calls[i] \notin Inits BY DEF Has
  <2>1. c.calls[i] \in Calls /\ c.calls[i] \in Users BY <1>19, <1>21 DEF Only
  <2> QED BY <2>1, KindOf
<1>23. k \in Inits /\ k \in LogicInits BY <1>8, <1>9, KindOf
<1>24. Only(c.calls, Inits \cup Users) BY <1>19 DEF Only
<1>25. Only(b.calls, Inits \cup Users) BY <1>18, <1>23, <1>24 DEF Sums
<1>26. Has(b.calls, Inits) /\ One(b.calls, Inits) /\ Has(b.calls, LogicInits)
  <2>1. One(c.calls, Inits) BY <1>22 DEF Has, One
  <2> QED BY <2>1, <1>18, <1>22, <1>23 DEF Sums, Plus
<1>27. ~Has(b.calls, Inits \ LogicInits)
  <2>1. ~Has(c.calls, Inits \ LogicInits) BY <1>22 DEF Has
  <2> QED BY <2>1, <1>18, <1>23 DEF Sums, Plus
<1>28. Internal = {"connect", "keepalive", "shutdown", "control"} /\ None \notin Tasks /\ Internal \subseteq Tasks
       /\ Q12 \cap Internal = {"control"}
  BY TaskNames
<1>29. \A t \in Tasks : ~b.task[t].timeout
  <2>1. Range(c.q12) = {} BY <1>20, RangeEmpty
  <2>2. \A t \in Tasks : ~At(c, t) BY <2>1, <1>20, <1>28 DEF At
  <2> QED BY <2>2, <1>14 DEF Sound, Book, BookBut, Timers
<1>30. Internal \cap Queued(b) = {}
  <2>1. Range(c.q12) = {} /\ Range(c.q0) = {} BY <1>20, RangeEmpty
  <2>2. Queued(c) = Range(c.saved) \ {None} BY <2>1, <1>20 DEF Queued
  <2>3. Range(c.saved) \subseteq Q12 BY FieldsOf, RangeIs
  <2>4. "control" \notin Range(c.saved) BY DEF Sound, Book, BookBut, Sessions1
  <2> QED BY <2>2, <2>3, <2>4, <1>18, <1>28
<1>31. StartInv(b)
  <2>1. /\ ~Has(b.calls, Kind("codec", "init")) /\ ~Has(b.calls, Kind("io", "init"))
        /\ ~Has(b.calls, Kind("io", "connect")) /\ ~Has(b.calls, Connects)
    <3>1. /\ ~Has(c.calls, Kind("codec", "init")) /\ ~Has(c.calls, Kind("io", "init"))
          /\ ~Has(c.calls, Kind("io", "connect")) /\ ~Has(c.calls, Connects)
      BY <1>22 DEF Has, Inits, Connects
    <3>2. /\ k \notin Kind("codec", "init") /\ k \notin Kind("io", "init") /\ k \notin Kind("io", "connect")
          /\ k \notin Connects
      BY <1>8, <1>9, KindOf DEF Connects
    <3> QED BY <3>1, <3>2, <1>18 DEF Sums, Plus
  <2> QED BY <2>1, <1>14, <1>15, <1>16, <1>20, <1>25, <1>26, <1>27, <1>29, <1>30
       DEF StartInv, Rest, Connects
<1>32. DataInv(b) BY <1>14, <1>15, <1>16, <1>20, <1>26 DEF Sound, Fit, DataInv, Rest
<1>33. EndInv(b) /\ CodecInv(b) BY <1>16, <1>20, <1>21, <1>25, OnlyStart DEF EndInv, CodecInv
<1>34. InternalInv(b)
  <2>1. \A t \in Internal : t \notin Queued(b) /\ ~Pending(b, t)
    BY <1>21, <1>25, <1>30, OnlyStart DEF Pending
  <2>2. ~Has(b.calls, Opened) /\ One(b.calls, Opened) BY <1>21, <1>25, OnlyStart
  <2> QED BY <2>1, <2>2, <1>28 DEF InternalInv, ConnectOnce, PingOnce, RestOnce
<1> QED BY <1>1, <1>14, <1>15, <1>18, <1>31, <1>32, <1>33, <1>34 DEF Stays, Sound, Fit, b
-----------------------------------------------------------------------------
(* The application's callbacks.                                             *)
LEMMA UserMessageStays ==
  ASSUME c \in Memory, Running, Sound(c), UserMessage
  PROVE  Stays(c, c')
<1> DEFINE v == Append(Popped.received, Call.arg.task)
           d == [Popped EXCEPT !.received = v]
           h == Range(c.handlers \o c.saved_handlers) \cap Subs # {}
<1>1. Called("user", "message") /\ c' = Check(d, h, "freed_subscription")
  BY DEF UserMessage, Becomes
<1>2. Call \in Calls /\ Call.layer = "user" /\ Call.fn = "message" BY <1>1, CalledIs
<1>3. Call \notin Inits /\ Call \notin Users BY <1>2, KindOf
<1>4. /\ Stays(c, Popped) /\ Sound(Popped) /\ Popped \in Memory /\ Popped.abort = "none"
  BY <1>1, <1>3, CalledStays, CalledIs
<1>5. Call.arg.task \in Incoming BY <1>2 DEF Calls
<1>6. v \in Seq(Incoming)
  <2>1. Popped.received \in Seq(Incoming) BY <1>4, FieldsOf
  <2> QED BY <2>1, <1>5
<1>7. d = [Popped EXCEPT !.received = v] OBVIOUS
<1> HIDE DEF v, d, h
<1>8. Edits(Popped, d, {"received"}) BY ONLY <1>4, <1>6, <1>7, EditReceived
<1>9. "freed_subscription" \in Asserts BY AssertNames
<1>10. d \in Memory BY <1>8 DEF Edits
<1>11. c' \in Memory /\ (c'.abort = "none" => c' = d) BY <1>1, <1>9, <1>10, CheckIs
<1>12. Edits(Popped, d, SideFields) BY <1>8 DEF Edits, SideFields
<1>13. Stays(Popped, d) BY <1>4, <1>12, SideStays
<1>14. CASE c'.abort = "none"
  <2>1. c' = d BY <1>11, <1>14
  <2> QED BY <2>1, <1>4, <1>13, StaysTrans
<1>15. CASE c'.abort # "none" BY <1>11, <1>15, StaysAborted
<1> QED BY <1>14, <1>15

(* The verdict a callback was given.                                        *)
LEMMA EditOutcome ==
  ASSUME NEW a \in Memory, NEW v \in [Tasks -> Seq({"OK", "ERR"})], NEW w \in BOOLEAN, NEW b,
         b = [a EXCEPT !.outcome = v, !.told = w]
  PROVE  Edits(a, b, {"outcome", "told"}) /\ b.outcome = v
BY DEF Edits, Fields, Memory

(* The callback of a publication or a subscription.                         *)
LEMMA UserCallbackStays ==
  ASSUME c \in Memory, Running, Sound(c), UserCallback
  PROVE  Stays(c, c')
<1> DEFINE t == Call.arg.task
           s == IF Call.st = "OK" THEN "OK" ELSE "ERR"
           v == [Popped.outcome EXCEPT ![t] = Append(Popped.outcome[t], s)]
           w == Popped.told \/ (t \in Subs /\ Call.st = "OK")
           b == c'
<1>1. Called("user", "callback") /\ c' = [Popped EXCEPT !.outcome = v, !.told = w]
  <2>1. c' = [Popped EXCEPT !.outcome[t] = Append(@, s), !.told = w] BY DEF UserCallback, Becomes
  <2>2. [Popped EXCEPT !.outcome[t] = Append(@, s), !.told = w] = [Popped EXCEPT !.outcome = v, !.told = w]
    BY Zenon
  <2> QED BY <2>1, <2>2 DEF UserCallback
<1>2. /\ Call \in Calls /\ Call.layer = "user" /\ Call.fn = "callback" /\ Popped1(c, Popped, Call)
      /\ Popped \in Memory /\ Popped.abort = "none" /\ c.abort = "none"
  BY <1>1, CalledIs
<1>3. Call \notin Inits /\ Call \notin Users /\ Call \notin LogicInits BY <1>2, KindOf
<1>4. Fit(Popped) /\ Keeps(c, Popped) BY <1>2, <1>3, PopFit, PopKeeps DEF Sound, Fit
<1>5. v \in [Tasks -> Seq({"OK", "ERR"})] /\ w \in BOOLEAN
  <2>1. Popped.outcome \in [Tasks -> Seq({"OK", "ERR"})] /\ Popped.told \in BOOLEAN BY <1>2, FieldsOf
  <2>2. s \in {"OK", "ERR"} OBVIOUS
  <2>3. \A u \in Tasks : Append(Popped.outcome[u], s) \in Seq({"OK", "ERR"}) BY <2>1, <2>2
  <2> HIDE DEF s
  <2> QED BY <2>1, <2>3
<1> HIDE DEF v, w
<1>6. Edits(Popped, b, {"outcome", "told"}) /\ b.outcome = v
  BY ONLY <1>1, <1>2, <1>5, EditOutcome DEF b
<1> HIDE DEF b
<1>7. \A f \in Fields \ {"outcome", "told"} : b[f] = Popped[f] BY <1>6 DEF Edits
<1>8. /\ b.data = Popped.data /\ b.session = Popped.session /\ b.conn = Popped.conn
      /\ b.connect_handler = Popped.connect_handler /\ b.shutdown_started = Popped.shutdown_started
      /\ b.current = Popped.current /\ b.keepalive_event = Popped.keepalive_event /\ b.io = Popped.io
      /\ b.queue = Popped.queue /\ b.recv = Popped.recv /\ b.task = Popped.task /\ b.q0 = Popped.q0
      /\ b.q12 = Popped.q12 /\ b.saved = Popped.saved /\ b.calls = Popped.calls
      /\ b.saved_id = Popped.saved_id /\ b.last_msg_id = Popped.last_msg_id /\ b.abort = Popped.abort
  BY <1>7 DEF Fields
<1>9. b \in Memory BY <1>6 DEF Edits
<1>10. Queued(b) = Queued(Popped) /\ (\A u : Pending(b, u) <=> Pending(Popped, u))
       /\ (Starting(b) <=> Starting(Popped))
  BY <1>8 DEF Queued, Pending, Starting
<1>11. Fit(b)
  <2>1. StartInv(b) BY <1>4, <1>8, <1>10 DEF Fit, StartInv, Rest
  <2>2. DataInv(b) /\ EndInv(b) /\ CodecInv(b) BY <1>4, <1>8 DEF Fit, DataInv, EndInv, CodecInv, Rest
  <2>3. InternalInv(b) BY <1>4, <1>8, <1>10 DEF Fit, InternalInv, ConnectOnce, PingOnce, RestOnce
  <2> QED BY <2>1, <2>2, <2>3 DEF Fit
<1>12. Keeps(c, b)
  <2>1. Keeps(Popped, b)
    <3>1. MailSame(Popped, b) BY <1>8 DEF MailSame
    <3> QED BY <3>1, <1>2, <1>8, KeepsStill
  <2> QED BY <2>1, <1>4, KeepsTrans
<1>13. Book(Popped) BY <1>2, PopBook DEF Sound
<1>14. Popped.outcome = c.outcome /\ Popped.task = c.task BY <1>2 DEF Popped1, Edits, Fields
<1>15. ASSUME NEW u \in UserTasks
       PROVE  /\ Heard(b, u) => b.task[u].cs = "freed"
              /\ One(b.calls, CallbackOf(u)) /\ Len(b.outcome[u]) <= 1
              /\ Has(b.calls, CallbackOf(u)) => b.outcome[u] = <<>>
              /\ Fate(b, u) = Fate(c, u)
  <2>1. u \in Tasks BY TaskNames
  <2>2. /\ Plus(c.calls, Popped.calls, Call, CallbackOf(u))
        /\ Plus(c.calls, Popped.calls, Call, {i \in CallbackOf(u) : i.st = "OK"})
    BY <1>2 DEF Popped1, Sums
  <2>3. /\ Heard(c, u) => c.task[u].cs = "freed"
        /\ One(c.calls, CallbackOf(u)) /\ Len(c.outcome[u]) <= 1
        /\ Has(c.calls, CallbackOf(u)) => c.outcome[u] = <<>>
    <3>1. None \notin UserTasks BY TaskNames
    <3> QED BY <3>1 DEF Sound, Book, BookBut, Told
  <2>4. CASE u # t
    <3>1. b.outcome[u] = c.outcome[u]
      <4>1. v[u] = Popped.outcome[u]
        <5>1. Popped.outcome \in [Tasks -> Seq({"OK", "ERR"})] BY <1>2, FieldsOf
        <5> HIDE DEF t
        <5> QED BY <5>1, <2>1, <2>4 DEF v
      <4> QED BY <4>1, <1>6, <1>14
    <3>2. Call \notin CallbackOf(u) /\ Call \notin {i \in CallbackOf(u) : i.st = "OK"}
      BY <1>2, <2>4, KindOf
    <3> QED BY <3>1, <3>2, <2>2, <2>3, <1>8, <1>14 DEF Plus, Heard, Fate, WasOk
  <2>5. CASE u = t
    <3>1. Call \in CallbackOf(u) BY <1>2, <2>5, KindOf
    <3>2. Has(c.calls, CallbackOf(u)) /\ c.outcome[u] = <<>> /\ ~Has(Popped.calls, CallbackOf(u))
          /\ One(Popped.calls, CallbackOf(u))
      BY <3>1, <2>2, <2>3 DEF Plus
    <3>3. b.outcome[u] = <<s>>
      <4>1. v[u] = Append(Popped.outcome[u], s)
        <5>1. Popped.outcome \in [Tasks -> Seq({"OK", "ERR"})] BY <1>2, FieldsOf
        <5> HIDE DEF t, s
        <5> QED BY <5>1, <2>1, <2>5 DEF v
      <4>2. Append(<<>>, s) = <<s>> OBVIOUS
      <4> QED BY <4>1, <4>2, <3>2, <1>6, <1>14
    <3>4. b.outcome[u] # <<>> /\ Len(b.outcome[u]) = 1 /\ b.outcome[u][1] = s
      <4> HIDE DEF s
      <4> QED BY <3>3
    <3>5. Heard(c, u) /\ Heard(b, u) BY <3>2, <3>4 DEF Heard
    <3>6. WasOk(b, u) <=> s = "OK" BY <3>4 DEF WasOk
    <3>7. WasOk(c, u) <=> s = "OK"
      <4>1. Call \in {i \in CallbackOf(u) : i.st = "OK"} <=> Call.st = "OK" BY <3>1
      <4>2. ~Has(Popped.calls, {i \in CallbackOf(u) : i.st = "OK"}) BY <3>2 DEF Has
      <4>3. WasOk(c, u) <=> Has(c.calls, {i \in CallbackOf(u) : i.st = "OK"}) BY <3>2 DEF WasOk
      <4> QED BY <4>1, <4>2, <4>3, <2>2 DEF Plus
    <3>8. Fate(b, u) = Fate(c, u) BY <3>5, <3>6, <3>7 DEF Fate
    <3> QED BY <3>2, <3>4, <3>5, <3>8, <2>3, <1>8, <1>14
  <2> QED BY <2>4, <2>5
<1>16. Book(b)
  <2>1. Timers(b) /\ Lives(b) /\ Once(b) /\ Sessions1(b)
    BY <1>8, <1>10, <1>13 DEF Book, BookBut, Timers, At, Lives, Once, Sessions1
  <2>2. Told(b, None) BY <1>15 DEF Told
  <2> QED BY <2>1, <2>2 DEF Book, BookBut
<1>17. Stays(c, b) BY <1>2, <1>8, <1>9, <1>11, <1>12, <1>15, <1>16 DEF Stays, Sound
<1> QED BY <1>17 DEF b

(* The topmost layer.                                                       *)
LEMMA TopPushStays ==
  ASSUME c \in Memory, Running, Sound(c), TopPush
  PROVE  Stays(c, c')
<1> DEFINE k == [layer |-> "logic", fn |-> "push", arg |-> Call.arg, st |-> Call.st]
           b == c'
<1>1. Called("top", "push") /\ c' = ContinueWith(Popped, "top", "push", "logic", Call.arg, Call.st)
  BY DEF TopPush, Becomes, OnPrev, Prev
<1>2. /\ Call \in Calls /\ Call.layer = "top" /\ Call.fn = "push" /\ Popped1(c, Popped, Call)
      /\ Popped \in Memory /\ Popped.abort = "none" /\ c.abort = "none"
  BY <1>1, CalledIs
<1>3. k.layer = "logic" /\ k.fn = "push" /\ k.arg = Call.arg /\ k.st = Call.st OBVIOUS
<1>4. {"top", "logic"} \subseteq Layers BY DEF Layers
<1>5. k \in Calls
  <2>1. k \in CallTypes BY <1>2, <1>4 DEF Calls, CallTypes
  <2> QED BY <2>1, <1>2, <1>3 DEF Calls, Outward
<1>6. k = [layer |-> "logic", fn |-> "push", arg |-> Call.arg, st |-> Call.st] OBVIOUS
<1> HIDE DEF k
<1>7. Said(Popped, c', "top", k)
  <2>1. "top" \in Layers /\ "logic" \in Layers BY <1>4
  <2> QED BY ONLY <2>1, <1>1, <1>2, <1>5, <1>6, SaidIs
<1> HIDE DEF b
<1>8. /\ k \notin Inits /\ k \notin LogicInits /\ k \notin Inits \ LogicInits /\ k \notin Kind("codec", "init")
      /\ k \notin Kind("io", "init") /\ k \notin Kind("io", "connect") /\ k \notin Connects
      /\ k \notin Opened /\ k \notin Tokens /\ \A l : k \notin Gone(l)
  BY <1>3, <1>5, KindOf DEF Connects
<1>9. /\ Call \notin Inits /\ Call \notin LogicInits /\ Call \notin Inits \ LogicInits
      /\ Call \notin Kind("codec", "init")
      /\ Call \notin Kind("io", "init") /\ Call \notin Kind("io", "connect") /\ Call \notin Connects
      /\ Call \notin Opened /\ Call \notin Tokens /\ \A l : Call \notin Gone(l)
  BY <1>2, KindOf DEF Connects
<1>10. k \in Users <=> Call \in Users BY <1>2, <1>3, <1>5, KindOf
<1>11. \A t : /\ k \in PushOf(t) <=> Call \in PushOf(t)
              /\ k \notin CallbackOf(t) /\ Call \notin CallbackOf(t)
              /\ k \notin {i \in CallbackOf(t) : i.st = "OK"} /\ Call \notin {i \in CallbackOf(t) : i.st = "OK"}
  BY <1>2, <1>3, <1>5, KindOf
<1>12. \A f \in Fields \ {"calls", "layer"} : b[f] = c[f] BY <1>2, <1>7 DEF Said, Popped1, Edits, b
<1>13. /\ b.data = c.data /\ b.session = c.session /\ b.conn = c.conn
      /\ b.connect_handler = c.connect_handler /\ b.shutdown_started = c.shutdown_started
      /\ b.current = c.current /\ b.keepalive_event = c.keepalive_event /\ b.io = c.io
      /\ b.queue = c.queue /\ b.recv = c.recv /\ b.task = c.task /\ b.q0 = c.q0
      /\ b.q12 = c.q12 /\ b.saved = c.saved /\ b.outcome = c.outcome
      /\ b.saved_id = c.saved_id /\ b.last_msg_id = c.last_msg_id /\ b.abort = c.abort
  BY <1>12 DEF Fields
<1>14. b \in Memory /\ b.calls = Append(Popped.calls, k) BY <1>7 DEF Said, b
<1>15. Sums(c.calls, Popped.calls, Call) /\ Sums(b.calls, Popped.calls, k)
  BY <1>2, <1>5, <1>14, AppendSums DEF Popped1
<1>16. /\ \A S \in {Inits, LogicInits, Inits \ LogicInits, Kind("codec", "init"), Kind("io", "init"),
                    Kind("io", "connect"), Connects, Opened, Tokens, Gone("codec"), Gone("logic"), Gone("top")} :
             (Has(b.calls, S) <=> Has(c.calls, S)) /\ (One(b.calls, S) <=> One(c.calls, S))
       /\ Only(b.calls, Inits \cup Users) <=> Only(c.calls, Inits \cup Users)
  BY <1>8, <1>9, <1>10, <1>15 DEF Sums, Plus
<1>17. Alike(c, b)
  <2>1. \A t : /\ Has(b.calls, PushOf(t)) <=> Has(c.calls, PushOf(t))
               /\ One(b.calls, PushOf(t)) <=> One(c.calls, PushOf(t))
               /\ Has(b.calls, CallbackOf(t)) <=> Has(c.calls, CallbackOf(t))
               /\ One(b.calls, CallbackOf(t)) <=> One(c.calls, CallbackOf(t))
               /\ Has(b.calls, {i \in CallbackOf(t) : i.st = "OK"})
                   <=> Has(c.calls, {i \in CallbackOf(t) : i.st = "OK"})
    BY <1>11, <1>15 DEF Sums, Plus
  <2> QED BY <2>1, <1>13 DEF Alike, Pending
<1>18. Book(b) /\ Queued(b) = Queued(c) /\ \A t \in UserTasks : Fate(b, t) = Fate(c, t)
  BY <1>17, AlikeBook DEF Sound, Book
<1>19. \A t \in Tasks : Pending(b, t) <=> Pending(c, t) BY <1>17 DEF Alike
<1>20. Starting(b) <=> Starting(c) BY <1>13, <1>16 DEF Starting
<1>21. StartInv(b) BY <1>13, <1>16, <1>18, <1>20 DEF Sound, Fit, StartInv, Rest, Connects
<1>22. DataInv(b) BY <1>13, <1>16 DEF Sound, Fit, DataInv, Rest
<1>23. EndInv(b) /\ CodecInv(b) BY <1>13, <1>16 DEF Sound, Fit, EndInv, CodecInv
<1>24. InternalInv(b)
  <2>1. {"connect", "keepalive", "shutdown", "control"} \subseteq Tasks BY TaskNames
  <2> QED BY <2>1, <1>13, <1>16, <1>18, <1>19
       DEF Sound, Fit, InternalInv, ConnectOnce, PingOnce, RestOnce
<1>25. Keeps(c, b)
  <2>1. MailSame(Popped, b)
    <3>1. \A f \in Fields \ {"calls", "layer"} : b[f] = Popped[f] BY <1>7 DEF Said, Edits, b
    <3> QED BY <3>1 DEF MailSame, Fields
  <2>2. Silent(k) BY <1>3 DEF Silent, Outward
  <2>3. b.queue = Popped.queue BY <1>7 DEF Said, Edits, Fields, b
  <2>4. Keeps(Popped, b) BY <2>1, <2>2, <2>3, <1>2, <1>5, <1>14, KeepsAppend
  <2> QED BY <2>4, <1>2, PopKeeps, KeepsTrans
<1>26. Stays(c, b)
  BY <1>2, <1>13, <1>14, <1>18, <1>21, <1>22, <1>23, <1>24, <1>25 DEF Stays, Sound, Fit
<1> QED BY <1>26 DEF b
-----------------------------------------------------------------------------
(* A new task is made.                                                      *)
Made(a, b, t) ==
  /\ b \in Memory /\ Edits(a, b, {"task"}) /\ Sound(b) /\ Waits(b, t) /\ Keeps(a, b)
  /\ \A u \in UserTasks \ {t} : Fate(b, u) = Fate(a, u)
  /\ t \in UserTasks => Fate(a, t) = "idle" /\ Fate(b, t) = "accepted"

(* A new task within the rules.                                             *)
LEMMA MakeSound ==
  ASSUME NEW a \in Memory, NEW t \in Tasks, NEW s \in {"UNSET", "DO_NOT_STORE"}, Sound(a),
         t \notin Queued(a), ~Pending(a, t), t \in UserTasks => a.task[t].cs = "none" /\ s = "UNSET",
         t = "control" => s = "DO_NOT_STORE"
  PROVE  Made(a, MakeTask(a, t, s), t)
<1> DEFINE b == MakeTask(a, t, s)
<1>1. Makes(a, b, t, s) BY MakeIs
<1>2. /\ Book(b) /\ Waits(b, t) /\ Queued(b) = Queued(a)
      /\ \A u \in UserTasks \ {t} : Fate(b, u) = Fate(a, u)
      /\ t \in UserTasks => Fate(a, t) = "idle" /\ Fate(b, t) = "accepted"
  BY MakeBook DEF Sound
<1> HIDE DEF b
<1>3. Keeps(a, b) BY <1>1, KeepsMake
<1>4. b \in Memory /\ Edits(a, b, {"task"}) BY <1>1 DEF Makes
<1>5. \A f \in Fields \ {"task"} : b[f] = a[f] BY <1>4 DEF Edits
<1>6. /\ b.data = a.data /\ b.session = a.session /\ b.conn = a.conn /\ b.calls = a.calls
      /\ b.connect_handler = a.connect_handler /\ b.shutdown_started = a.shutdown_started
      /\ b.current = a.current /\ b.keepalive_event = a.keepalive_event /\ b.io = a.io
      /\ b.queue = a.queue /\ b.recv = a.recv /\ b.q0 = a.q0 /\ b.q12 = a.q12 /\ b.saved = a.saved
  BY <1>5 DEF Fields
<1>7. Starting(b) <=> Starting(a) BY <1>6 DEF Starting
<1>8. (\A u \in Tasks : ~a.task[u].timeout) => \A u \in Tasks : ~b.task[u].timeout BY <1>1 DEF Makes
<1>9. StartInv(b) BY <1>2, <1>6, <1>7, <1>8 DEF Sound, Fit, StartInv, Rest
<1>10. DataInv(b) BY <1>6 DEF Sound, Fit, DataInv, Rest
<1>11. EndInv(b) /\ CodecInv(b) BY <1>6 DEF Sound, Fit, EndInv, CodecInv
<1>12. InternalInv(b)
  <2>1. \A u : Pending(b, u) <=> Pending(a, u) BY <1>6 DEF Pending
  <2> QED BY <2>1, <1>2, <1>6 DEF Sound, Fit, InternalInv, ConnectOnce, PingOnce, RestOnce
<1>13. Sound(b) BY <1>2, <1>9, <1>10, <1>11, <1>12 DEF Sound, Fit
<1>14. Made(a, b, t) BY <1>2, <1>3, <1>4, <1>13 DEF Made
<1> QED BY <1>14 DEF b

(* A new task is handed to the layer.                                       *)
PushCall(to, t) == [layer |-> to, fn |-> "push", arg |-> [NoMsg EXCEPT !.task = t], st |-> "OK"]

(* The call that pushes it down the layers,                                 *)
LEMMA PushIs ==
  ASSUME NEW to \in {"top", "logic"}, NEW t \in Tasks
  PROVE  LET k == PushCall(to, t)
         IN  /\ k \in Calls /\ Silent(k) /\ k \in Fresh /\ (k \in Users <=> t \in UserTasks)
             /\ k.fn = "push" /\ k.st = "OK" /\ k.layer = to
             /\ \A u : (k \in PushOf(u) <=> u = t) /\ k \notin CallbackOf(u)
                       /\ k \notin {i \in CallbackOf(u) : i.st = "OK"}
             /\ k \notin Inits /\ k \notin LogicInits /\ k \notin Inits \ LogicInits
             /\ k \notin Kind("codec", "init") /\ k \notin Kind("io", "init")
             /\ k \notin Kind("io", "connect") /\ k \notin Connects
             /\ k \notin Opened /\ k \notin Tokens /\ \A l : k \notin Gone(l)
<1> DEFINE k == PushCall(to, t)
<1>1. k.layer = to /\ k.fn = "push" /\ k.arg = [NoMsg EXCEPT !.task = t] /\ k.st = "OK"
  BY DEF PushCall
<1>2. k.arg \in OutMessages /\ k.arg \in Messages /\ k.arg.task = t
  BY <1>1, NoMsgIs DEF OutMessages
<1>3. k \in CallTypes
  <2>1. "OK" \in Statuses /\ "push" \in FunctionNames /\ to \in Layers
    BY DEF Statuses, FunctionNames, LayerFunctions, Layers
  <2> QED BY <2>1, <1>1, <1>2 DEF CallTypes, PushCall
<1> HIDE DEF k
<1>4. k \in Calls BY <1>1, <1>2, <1>3 DEF Calls, Outward
<1>5. Silent(k) BY <1>1 DEF Silent, Outward
<1>6. /\ k \in Fresh /\ (k \in Users <=> t \in UserTasks)
      /\ \A u : (k \in PushOf(u) <=> u = t) /\ k \notin CallbackOf(u)
      /\ k \notin Inits /\ k \notin LogicInits /\ k \notin Inits \ LogicInits
      /\ k \notin Kind("codec", "init") /\ k \notin Kind("io", "init")
      /\ k \notin Kind("io", "connect") /\ k \notin Connects
      /\ k \notin Opened /\ k \notin Tokens /\ \A l : k \notin Gone(l)
  BY <1>1, <1>2, <1>4, KindOf DEF Connects
<1>7. \A u : k \notin {i \in CallbackOf(u) : i.st = "OK"} BY <1>6
<1> QED BY <1>1, <1>4, <1>5, <1>6, <1>7 DEF k

Pushed(a, b, t) ==
  /\ Stays(a, b) /\ b.abort = "none" /\ b.data = a.data /\ b.conn = a.conn /\ b.task = a.task
  /\ (Starting(b) <=> Starting(a))
  /\ \A p : PollInv(p, a) /\ (t \in UserTasks \/ (~Rest(a) /\ ~a.connect_handler)) => PollInv(p, b)

(* and what deferring it does.                                              *)
LEMMA PushStays ==
  ASSUME NEW a \in Memory, a.abort = "none", Sound(a), NEW t \in Tasks, t \notin {"connect", "keepalive"},
         Waits(a, t), Admits(a, t), NEW to \in {"top", "logic"}, NEW b,
         b = ContinueWith(a, "top", "push", to, [NoMsg EXCEPT !.task = t], "OK")
  PROVE  Pushed(a, b, t)
<1> DEFINE k == PushCall(to, t)
<1>1. /\ k \in Calls /\ Silent(k) /\ k \in Fresh /\ (k \in Users <=> t \in UserTasks)
      /\ k.fn = "push" /\ k.st = "OK" /\ k.layer = to
      /\ \A u : (k \in PushOf(u) <=> u = t) /\ k \notin CallbackOf(u)
                /\ k \notin {i \in CallbackOf(u) : i.st = "OK"}
      /\ k \notin Inits /\ k \notin LogicInits /\ k \notin Inits \ LogicInits
      /\ k \notin Kind("codec", "init") /\ k \notin Kind("io", "init")
      /\ k \notin Kind("io", "connect") /\ k \notin Connects
      /\ k \notin Opened /\ k \notin Tokens /\ \A l : k \notin Gone(l)
  BY PushIs
<1>2. Said(a, b, "top", k)
  <2>1. "top" \in Layers /\ to \in Layers BY DEF Layers
  <2>2. k = [layer |-> to, fn |-> "push", arg |-> [NoMsg EXCEPT !.task = t], st |-> "OK"] BY DEF PushCall
  <2>3. k \in Calls BY <1>1
  <2> HIDE DEF k
  <2>4. b = ContinueWith(a, "top", "push", to, [NoMsg EXCEPT !.task = t], "OK") OBVIOUS
  <2> QED BY ONLY <2>1, <2>2, <2>3, <2>4, a \in Memory, SaidIs
<1> HIDE DEF k
<1>3. b \in Memory /\ b.calls = Append(a.calls, k) /\ \A f \in Fields \ {"calls", "layer"} : b[f] = a[f]
  BY <1>2 DEF Said, Edits
<1>4. /\ b.data = a.data /\ b.session = a.session /\ b.conn = a.conn
      /\ b.connect_handler = a.connect_handler /\ b.shutdown_started = a.shutdown_started
      /\ b.current = a.current /\ b.keepalive_event = a.keepalive_event /\ b.io = a.io
      /\ b.queue = a.queue /\ b.recv = a.recv /\ b.task = a.task /\ b.q0 = a.q0
      /\ b.q12 = a.q12 /\ b.saved = a.saved /\ b.outcome = a.outcome
      /\ b.saved_id = a.saved_id /\ b.last_msg_id = a.last_msg_id /\ b.abort = a.abort
  BY <1>3 DEF Fields
<1>5. Sums(b.calls, a.calls, k) BY <1>1, <1>3, AppendSums
<1>6. Queued(b) = Queued(a) /\ (\A u : At(b, u) <=> At(a, u)) BY <1>4 DEF Queued, At
<1>7. /\ \A u : Pending(b, u) <=> u = t \/ Pending(a, u)
      /\ \A u : One(b.calls, PushOf(u)) <=> One(a.calls, PushOf(u)) /\ ~(u = t /\ Pending(a, u))
      /\ \A u : Has(b.calls, CallbackOf(u)) <=> Has(a.calls, CallbackOf(u))
      /\ \A u : One(b.calls, CallbackOf(u)) <=> One(a.calls, CallbackOf(u))
      /\ \A u : Has(b.calls, {i \in CallbackOf(u) : i.st = "OK"})
                  <=> Has(a.calls, {i \in CallbackOf(u) : i.st = "OK"})
  BY <1>1, <1>5 DEF Sums, Plus, Pending
<1>8. \A u : (Heard(b, u) <=> Heard(a, u)) /\ (WasOk(b, u) <=> WasOk(a, u))
  BY <1>4, <1>7 DEF Heard, WasOk
<1>9. \A u \in UserTasks : Fate(b, u) = Fate(a, u) BY <1>4, <1>8 DEF Fate
<1>10. Book(b)
  <2>1. Timers(b) BY <1>4, <1>6 DEF Sound, Book, BookBut, Timers
  <2>2. Lives(b) BY <1>4, <1>6, <1>7 DEF Sound, Book, BookBut, Lives, Waits
  <2>3. Once(b) BY <1>4, <1>6, <1>7 DEF Sound, Book, BookBut, Once, Waits
  <2>4. Told(b, None) BY <1>4, <1>7, <1>8 DEF Sound, Book, BookBut, Told
  <2>5. Sessions1(b) BY <1>4, <1>6, <1>7 DEF Sound, Book, BookBut, Sessions1, Waits
  <2> QED BY <2>1, <2>2, <2>3, <2>4, <2>5 DEF Book, BookBut
<1>11. /\ \A S \in {Inits, LogicInits, Inits \ LogicInits, Kind("codec", "init"), Kind("io", "init"),
                    Kind("io", "connect"), Connects, Opened, Tokens, Gone("codec"), Gone("logic"), Gone("top")} :
             (Has(b.calls, S) <=> Has(a.calls, S)) /\ (One(b.calls, S) <=> One(a.calls, S))
       /\ Only(b.calls, Inits \cup Users) <=> t \in UserTasks /\ Only(a.calls, Inits \cup Users)
       /\ Only(b.calls, Users) <=> t \in UserTasks /\ Only(a.calls, Users)
       /\ Only(b.calls, Fresh) <=> Only(a.calls, Fresh)
  BY <1>1, <1>5 DEF Sums, Plus
<1>12. Starting(b) <=> Starting(a) BY <1>4, <1>11 DEF Starting
<1>13. StartInv(b) BY <1>4, <1>6, <1>11, <1>12 DEF Sound, Fit, StartInv, Rest, Connects, Admits
<1>14. DataInv(b) BY <1>4, <1>11 DEF Sound, Fit, DataInv, Rest
<1>15. EndInv(b) /\ CodecInv(b) BY <1>4, <1>11 DEF Sound, Fit, EndInv, CodecInv
<1>16. InternalInv(b)
  BY <1>4, <1>6, <1>7, <1>11 DEF Sound, Fit, InternalInv, ConnectOnce, PingOnce, RestOnce, Admits
<1>17. Keeps(a, b)
  <2>1. MailSame(a, b) BY <1>4 DEF MailSame
  <2> QED BY <2>1, <1>1, <1>3, <1>4, KeepsAppend
<1>18. Stays(a, b)
  BY <1>3, <1>4, <1>9, <1>10, <1>13, <1>14, <1>15, <1>16, <1>17 DEF Stays, Sound, Fit
<1>19. \A p : PollInv(p, a) /\ (t \in UserTasks \/ (~Rest(a) /\ ~a.connect_handler)) => PollInv(p, b)
  BY <1>4, <1>11 DEF PollInv, Rest
<1> QED BY <1>4, <1>12, <1>18, <1>19 DEF Pushed
-----------------------------------------------------------------------------
(* The user's connection callback is put on the queue.                      *)
Reported(a, d) ==
  /\ d \in Memory /\ Edits(a, d, {"calls", "layer"})
  /\ a.abort = "none" /\ Sound(a) /\ ~Starting(a) =>
       /\ Stays(a, d) /\ ~Starting(d) /\ (Has(d.calls, Opened) <=> Has(a.calls, Opened))
       /\ \A t : Pending(d, t) <=> Pending(a, t)

(* A call without a message, and what it is not.                            *)
LEMMA QuietReports ==
  ASSUME NEW a \in Memory, NEW b, NEW from \in Layers, NEW k, Said(a, b, from, k),
         NEW fn \in {"connection", "post_connect", "close"}, k.fn = fn,
         k \in Calls, Silent(k), Neutral(k), k \notin Tokens
  PROVE  Reported(a, b)
<1>1. k \in Calls /\ Silent(k) /\ Neutral(k) /\ k \notin Tokens OBVIOUS
<1>2. k.fn = fn OBVIOUS
<1>3. k \notin Inits /\ k \notin Opened BY <1>1, <1>2, KindOf
<1>4. Mild(a, k) BY <1>1, <1>2, <1>3 DEF Mild
<1>5. b \in Memory /\ Edits(a, b, {"calls", "layer"}) /\ b.calls = Append(a.calls, k) BY DEF Said
<1>6. Edits(a, b, SideFields \cup {"calls"}) BY <1>5 DEF Edits, SideFields
<1>7. Sums(b.calls, a.calls, k) BY <1>1, <1>5, AppendSums
<1>8. Has(b.calls, Opened) <=> Has(a.calls, Opened) BY <1>3, <1>7 DEF Sums, Plus
<1>9. \A t : k \notin PushOf(t) BY <1>1, <1>2, KindOf
<1>10. \A t : Pending(b, t) <=> Pending(a, t) BY <1>7, <1>9 DEF Sums, Plus, Pending
<1>11. a.abort = "none" /\ Sound(a) /\ ~Starting(a) => Stays(a, b) /\ ~Starting(b)
  BY <1>1, <1>4, <1>5, <1>6, MildStays
<1> QED BY <1>5, <1>8, <1>10, <1>11 DEF Reported

(* A report goes to the application or to the layers,                       *)
LEMMA SayReports ==
  ASSUME NEW a \in Memory, NEW b, NEW from \in Layers, NEW k, Said(a, b, from, k), NEW st \in Statuses,
         NEW fn \in {"connection", "post_connect", "close"}, NEW to \in Layers \cup {"user"},
         k = [layer |-> to, fn |-> fn, arg |-> NoMsg, st |-> st]
  PROVE  Reported(a, b)
<1>1. k \in Calls /\ Silent(k) /\ Neutral(k) /\ k \notin Tokens BY QuietCall
<1>2. k.fn = fn OBVIOUS
<1> QED BY ONLY <1>1, <1>2, a \in Memory, from \in Layers, Said(a, b, from, k),
               fn \in {"connection", "post_connect", "close"}, QuietReports

(* more than one,                                                           *)
LEMMA ReportedTrans ==
  ASSUME NEW a \in Memory, NEW b, NEW d, Reported(a, b), Reported(b, d)
  PROVE  Reported(a, d)
<1>1. Edits(a, d, {"calls", "layer"} \cup {"calls", "layer"}) BY EditsTrans DEF Reported
<1>2. Edits(a, d, {"calls", "layer"}) /\ d \in Memory BY <1>1 DEF Edits
<1>3. b.abort = a.abort BY DEF Reported, Edits, Fields
<1>4. ASSUME a.abort = "none", Sound(a), ~Starting(a)
      PROVE  /\ Stays(a, d) /\ ~Starting(d) /\ (Has(d.calls, Opened) <=> Has(a.calls, Opened))
             /\ \A t : Pending(d, t) <=> Pending(a, t)
  <2>1. Stays(a, b) /\ ~Starting(b) /\ b.abort = "none" BY <1>3, <1>4 DEF Reported
  <2>2. Sound(b) BY <2>1 DEF Stays
  <2>3. Stays(b, d) BY <2>1, <2>2 DEF Reported
  <2>4. Stays(a, d) BY <2>1, <2>3, StaysTrans
  <2> QED BY <1>4, <2>1, <2>2, <2>4 DEF Reported
<1> QED BY <1>2, <1>4 DEF Reported

(* as xi_control_topic_connection_state_changed sends them.                 *)
LEMMA ConnectionReported ==
  ASSUME NEW a \in Memory, NEW st \in Statuses
  PROVE  Reported(a, ConnectionStateChanged(a, st))
<1> DEFINE k == [layer |-> "user", fn |-> "connection", arg |-> NoMsg, st |-> st]
           b == [a EXCEPT !.calls = Append(@, k)]
           j == [layer |-> "top", fn |-> "post_connect", arg |-> NoMsg, st |-> st]
           d == ContinueWith(b, "top", "post_connect", "top", NoMsg, st)
<1>1. k \in Calls /\ j \in Calls
  <2>1. "top" \in Layers BY DEF Layers
  <2> QED BY <2>1, QuietCall
<1>2. k = [layer |-> "user", fn |-> "connection", arg |-> NoMsg, st |-> st] /\ k.fn = "connection" OBVIOUS
<1>3. j = [layer |-> "top", fn |-> "post_connect", arg |-> NoMsg, st |-> st] OBVIOUS
<1>4. b = [a EXCEPT !.calls = Append(a.calls, k)] OBVIOUS
<1>5. ConnectionStateChanged(a, st) = IF st = "OK" /\ a.conn = "OPENED" THEN d ELSE b
  BY DEF ConnectionStateChanged, OnThis
<1>6. d = ContinueWith(b, "top", "post_connect", "top", NoMsg, st) OBVIOUS
<1> HIDE DEF k, j, b, d
<1>7. Edits(a, b, {"calls"}) /\ b.calls = Append(a.calls, k)
  <2>1. Append(a.calls, k) \in Seq(Calls) BY <1>1, FieldsOf
  <2> QED BY ONLY <2>1, <1>4, a \in Memory, EditCalls
<1>8. Said(a, b, "top", k)
  <2>1. b \in Memory /\ Edits(a, b, {"calls", "layer"}) /\ b.layer = a.layer BY <1>7 DEF Edits, Fields
  <2>2. NextLayerState(k.fn, a.layer["top"], k.st) = a.layer["top"] BY <1>2 DEF NextLayerState
  <2>3. a.layer \in [Layers -> LayerStates] BY FieldsOf
  <2>4. b.layer = [a.layer EXCEPT !["top"] = a.layer["top"]] BY <2>1, <2>3
  <2> QED BY <2>1, <2>2, <2>4, <1>7 DEF Said
<1>9. "top" \in Layers BY DEF Layers
<1>10. Reported(a, b)
  <2>1. "user" \in Layers \cup {"user"} /\ "connection" \in {"connection", "post_connect", "close"} OBVIOUS
  <2> QED BY ONLY <2>1, <1>2, <1>8, <1>9, SayReports, a \in Memory, st \in Statuses
<1>11. b \in Memory BY <1>10 DEF Reported
<1>12. Said(b, d, "top", j) BY ONLY <1>1, <1>3, <1>6, <1>9, <1>11, SaidIs
<1>13. Reported(b, d)
  <2>1. "top" \in Layers \cup {"user"} /\ "post_connect" \in {"connection", "post_connect", "close"} BY <1>9
  <2> QED BY ONLY <2>1, <1>3, <1>9, <1>11, <1>12, SayReports, st \in Statuses
<1>14. Reported(a, d) BY <1>10, <1>13, ReportedTrans
<1> QED BY <1>5, <1>10, <1>14

(* xi_control_topic_layer_connect.                                          *)
LEMMA TopConnectStays ==
  ASSUME c \in Memory, Running, Sound(c), TopConnect
  PROVE  Stays(c, c')
<1> DEFINE a == Popped
           st == Call.st
           b == Check(a, ControlTopic => a.data["top"], "top_data")
           d == ConnectionStateChanged(b, st)
           e == MakeTask(d, "control", "DO_NOT_STORE")
           f == ContinueWith(e, "top", "push", "logic", [NoMsg EXCEPT !.task = "control"], "OK")
           g == ContinueWith(b, "top", "close", "logic", NoMsg, st)
           k == [layer |-> "logic", fn |-> "close", arg |-> NoMsg, st |-> st]
<1>1. /\ Called("top", "connect")
      /\ c' = IF st # "OK" THEN g ELSE IF ControlTopic THEN f ELSE d
  BY DEF TopConnect, Becomes, TopConnectHandler, OnPrev, Prev
<1>2. /\ a \in Memory /\ Popped1(c, a, Call) /\ Call.layer = "top" /\ Call.fn = "connect"
      /\ Call \in Calls /\ st \in Statuses /\ c.abort = "none" /\ a.abort = "none"
  BY <1>1, CalledIs
<1>3. Call \notin Inits /\ Call \notin Users /\ (Call \in Opened <=> st = "OK") BY <1>2, KindOf
<1>4. Stays(c, a) /\ Sound(a) /\ ~Starting(a) BY <1>1, <1>3, CalledStays
<1>5. /\ b \in Memory /\ Edits(a, b, {"abort"}) /\ (b.abort = "none" => b = a)
  <2>1. "top_data" \in Asserts BY AssertNames
  <2> QED BY <1>2, <2>1, CheckIs
<1>6. {"top", "logic"} \subseteq Layers BY DEF Layers
<1>7. k \in Calls /\ k = [layer |-> "logic", fn |-> "close", arg |-> NoMsg, st |-> st] /\ g = ContinueWith(b, "top", "close", "logic", NoMsg, st)
  BY <1>2, <1>6, QuietCall
<1>8. /\ d = ConnectionStateChanged(b, st) /\ e = MakeTask(d, "control", "DO_NOT_STORE")
      /\ f = ContinueWith(e, "top", "push", "logic", [NoMsg EXCEPT !.task = "control"], "OK")
  OBVIOUS
<1> HIDE DEF a, b, d, e, f, g, k, st
<1>9. Stays(a, b)
  <2>1. CASE b.abort = "none"
    <3>1. b = a BY <1>5, <2>1
    <3> QED BY <3>1, <1>2, <1>4, KeepsSame DEF Stays
  <2>2. CASE b.abort # "none" BY <2>2, <1>5, StaysAborted
  <2> QED BY <2>1, <2>2
<1>10. Stays(b, g)
  <2>1. Said(b, g, "top", k)
    <3>1. "top" \in Layers /\ "logic" \in Layers BY <1>6
    <3> QED BY ONLY <3>1, <1>5, <1>7, SaidIs
  <2>2. Reported(b, g)
    <3>1. "top" \in Layers /\ "logic" \in Layers \cup {"user"} /\ "close" \in {"connection", "post_connect", "close"}
      BY <1>6
    <3> QED BY ONLY <3>1, <1>2, <1>5, <1>7, <2>1, SayReports
  <2>3. g \in Memory /\ g.abort = b.abort BY <2>2 DEF Reported, Edits, Fields
  <2> QED BY <2>2, <2>3, <1>4, <1>5, StaysAborted DEF Reported
<1>11. Reported(b, d) BY <1>2, <1>5, <1>8, ConnectionReported
<1>12. d \in Memory /\ d.abort = b.abort /\ d.task = b.task BY <1>11 DEF Reported, Edits, Fields
<1>13. Stays(b, d) BY <1>4, <1>5, <1>11, <1>12, StaysAborted DEF Reported
<1>14. "control" \in Tasks /\ "control" \notin UserTasks /\ None \notin Tasks BY TaskNames
<1>15. Makes(d, e, "control", "DO_NOT_STORE")
  <2>1. "DO_NOT_STORE" \in {"UNSET", "DO_NOT_STORE"} OBVIOUS
  <2> QED BY ONLY <2>1, <1>8, <1>12, <1>14, MakeIs
<1>16. e \in Memory /\ e.abort = b.abort BY <1>12, <1>15 DEF Makes, Edits, Fields
<1>17. f \in Memory /\ f.abort = b.abort
  <2> DEFINE j == PushCall("logic", "control")
  <2>1. "top" \in Layers /\ "logic" \in Layers /\ "logic" \in {"top", "logic"} BY <1>6
  <2>2. j \in Calls BY <1>14, PushIs
  <2>3. j = [layer |-> "logic", fn |-> "push", arg |-> [NoMsg EXCEPT !.task = "control"], st |-> "OK"] BY DEF PushCall
  <2> HIDE DEF j
  <2>4. Said(e, f, "top", j) BY ONLY <2>1, <2>2, <2>3, <1>8, <1>16, SaidIs
  <2> QED BY <2>4, <1>16 DEF Said, Edits, Fields
<1>18. ASSUME st = "OK" PROVE Stays(d, f)
  <2>1. CASE f.abort # "none" BY <2>1, <1>17, StaysAborted
  <2>2. CASE f.abort = "none"
    <3>1. b.abort = "none" /\ b = a /\ d.abort = "none" /\ e.abort = "none" BY <2>2, <1>5, <1>12, <1>16, <1>17
    <3>2. /\ Stays(b, d) /\ ~Starting(d) /\ (Has(d.calls, Opened) <=> Has(b.calls, Opened))
          /\ \A t : Pending(d, t) <=> Pending(b, t)
      BY <3>1, <1>4, <1>11, <1>2 DEF Reported
    <3>3. Sound(d) BY <3>1, <3>2 DEF Stays
    <3>4. Call \in Opened BY <1>3, <1>18
    <3>5. Has(c.calls, Opened) /\ One(c.calls, Opened) /\ ~Has(a.calls, Opened)
      <4>1. Plus(c.calls, a.calls, Call, Opened) BY <1>2 DEF Popped1, Sums
      <4>2. One(c.calls, Opened) BY DEF Sound, Fit, InternalInv, RestOnce
      <4> QED BY <4>1, <4>2, <3>4 DEF Plus
    <3>6. "control" \notin Queued(c) /\ ~Pending(c, "control") /\ "connect" \notin Queued(c)
      BY <3>5 DEF Sound, Fit, InternalInv, RestOnce, ConnectOnce
    <3>7. Queued(a) = Queued(c) /\ (Pending(a, "control") => Pending(c, "control")) BY <1>2, PopBook DEF Sound
    <3>8. Queued(d) = Queued(b) BY <1>11 DEF Reported, Edits, Fields, Queued
    <3>9. /\ "control" \notin Queued(d) /\ ~Pending(d, "control") /\ "connect" \notin Queued(d)
          /\ ~Has(d.calls, Opened)
      BY <3>1, <3>2, <3>5, <3>6, <3>7, <3>8
    <3>10. Made(d, e, "control")
      <4>1. "DO_NOT_STORE" \in {"UNSET", "DO_NOT_STORE"} OBVIOUS
      <4> QED BY ONLY <4>1, <1>8, <1>12, <1>14, <3>3, <3>9, MakeSound
    <3>11. Sound(e) /\ Waits(e, "control") /\ Keeps(d, e) /\ \A u \in UserTasks : Fate(e, u) = Fate(d, u)
      BY <3>10, <1>14 DEF Made
    <3>12. /\ e.calls = d.calls /\ Queued(e) = Queued(d) /\ e.io = d.io
           /\ \A t : Pending(e, t) <=> Pending(d, t)
      <4>1. e.calls = d.calls /\ Queued(e) = Queued(d) /\ e.io = d.io BY <3>10 DEF Made, Edits, Fields, Queued
      <4> QED BY <4>1 DEF Pending
    <3>13. Admits(e, "control") BY <3>2, <3>9, <3>12 DEF Admits, Starting
    <3>14. Stays(d, e) BY <3>1, <3>11, <1>16 DEF Stays
    <3>15. Pushed(e, f, "control")
      <4>1. "control" \notin {"connect", "keepalive"} /\ "logic" \in {"top", "logic"} OBVIOUS
      <4> QED BY ONLY <4>1, <1>8, <1>14, <1>16, <3>1, <3>11, <3>13, PushStays
    <3> QED BY <3>14, <3>15, StaysTrans DEF Pushed
  <2> QED BY <2>1, <2>2
<1>19. Stays(c, b) BY <1>4, <1>9, StaysTrans
<1>20. Stays(c, g) /\ Stays(c, d) /\ (st = "OK" => Stays(c, f)) BY <1>10, <1>13, <1>18, <1>19, StaysTrans
<1> QED BY <1>1, <1>20
-----------------------------------------------------------------------------
(* A connection that ended, and one that is asked for, hold no task of the  *)
(* library.                                                                 *)
LEMMA NoneHeld ==
  ASSUME NEW a \in Memory, Sound(a), ~a.data["logic"]
  PROVE  /\ Internal \cap Queued(a) = {} /\ Queued(a) \subseteq Range(a.saved)
         /\ a.current = None /\ a.q0 = <<>> /\ a.q12 = <<>> /\ a.recv = <<>>
         /\ ~a.keepalive_event /\ ~a.data["codec"] /\ ~a.data["io"] /\ a.io = "idle" /\ a.queue = <<>>
         /\ \A t \in Tasks : ~a.task[t].timeout
<1>1. /\ a.current = None /\ a.q0 = <<>> /\ a.q12 = <<>> /\ a.recv = <<>> /\ ~a.keepalive_event
      /\ ~a.data["codec"] /\ ~a.data["io"] /\ a.io = "idle" /\ a.queue = <<>>
  BY DEF Sound, Fit, DataInv
<1>2. Queued(a) = Range(a.saved) \ {None} BY <1>1, RangeEmpty DEF Queued
<1>3. Range(a.saved) \subseteq Q12 /\ "control" \notin Range(a.saved)
  BY FieldsOf, RangeIs DEF Sound, Book, BookBut, Sessions1
<1>4. Q12 \cap Internal = {"control"} /\ None \notin Tasks BY TaskNames
<1>5. \A t \in Tasks : ~At(a, t) BY <1>1, <1>4, RangeEmpty DEF At
<1>6. \A t \in Tasks : ~a.task[t].timeout BY <1>5 DEF Sound, Book, BookBut, Timers
<1> QED BY <1>1, <1>2, <1>3, <1>4, <1>6

RestFields == {"conn", "session", "connect_handler", "shutdown_started", "told", "data"}

(* What may change while there is no connection.                            *)
LEMMA RestStays ==
  ASSUME NEW a \in Memory, a.abort = "none", Sound(a), ~Starting(a), ~a.data["logic"], NEW b \in Memory,
         Edits(a, b, RestFields), \A l \in Layers \ {"top"} : b.data[l] = a.data[l], Rest(b),
         b.conn = "UNINITIALIZED" \/ ~b.data["top"]
  PROVE  Stays(a, b) /\ b.abort = "none" /\ ~Starting(b)
<1>1. \A f \in Fields \ RestFields : b[f] = a[f] BY DEF Edits
<1>2. /\ b.calls = a.calls /\ b.current = a.current /\ b.keepalive_event = a.keepalive_event /\ b.io = a.io
      /\ b.queue = a.queue /\ b.recv = a.recv /\ b.task = a.task /\ b.q0 = a.q0
      /\ b.q12 = a.q12 /\ b.saved = a.saved /\ b.outcome = a.outcome
      /\ b.saved_id = a.saved_id /\ b.last_msg_id = a.last_msg_id /\ b.abort = a.abort
  BY <1>1 DEF Fields, RestFields
<1>3. {"logic", "codec", "io"} \subseteq Layers \ {"top"} BY DEF Layers
<1>4. b.data["logic"] = a.data["logic"] /\ b.data["codec"] = a.data["codec"] /\ b.data["io"] = a.data["io"]
  BY <1>3
<1>5. /\ Internal \cap Queued(a) = {}
      /\ a.current = None /\ a.q0 = <<>> /\ a.q12 = <<>> /\ a.recv = <<>>
      /\ ~a.keepalive_event /\ ~a.data["codec"] /\ ~a.data["io"] /\ a.io = "idle" /\ a.queue = <<>>
  BY NoneHeld
<1>6. Alike(a, b) BY <1>2 DEF Alike, Pending
<1>7. /\ Book(b) /\ Queued(b) = Queued(a) /\ \A t \in UserTasks : Fate(b, t) = Fate(a, t)
  BY <1>6, AlikeBook DEF Sound, Book
<1>8. ~Starting(b) BY <1>2 DEF Starting
<1>9. StartInv(b)
  <2>1. One(b.calls, Inits) BY <1>2 DEF Sound, Fit, StartInv
  <2>2. /\ ~Has(b.calls, Inits) /\ b.io # "connecting" BY <1>8 DEF Starting
  <2>3. /\ ~Has(b.calls, LogicInits) /\ ~Has(b.calls, Inits \ LogicInits) /\ ~Has(b.calls, Kind("codec", "init"))
        /\ ~Has(b.calls, Kind("io", "init")) /\ ~Has(b.calls, Kind("io", "connect"))
        /\ ~Has(b.calls, With("codec", "connect", "OK") \cup With("logic", "connect", "OK"))
    BY <2>2 DEF Has, Inits
  <2> QED BY <1>8, <2>1, <2>2, <2>3 DEF StartInv
<1>10. DataInv(b) BY <1>2, <1>4, <1>5 DEF DataInv, Rest
<1>11. EndInv(b) /\ CodecInv(b) BY <1>4, <1>5 DEF EndInv, CodecInv
<1>12. InternalInv(b)
  <2>1. Internal = {"connect", "keepalive", "shutdown", "control"} BY TaskNames
  <2>2. \A t : Pending(b, t) <=> Pending(a, t) BY <1>2 DEF Pending
  <2>3. b.conn # "OPENING" /\ b.conn # "OPENED" BY DEF Rest
  <2>4. ConnectOnce(b) /\ PingOnce(b) BY <2>1, <1>2, <1>5, <1>7 DEF ConnectOnce, PingOnce
  <2>5. RestOnce(b) BY <2>1, <2>2, <2>3, <1>2, <1>5, <1>7 DEF RestOnce, Sound, Fit, InternalInv
  <2> QED BY <2>4, <2>5 DEF InternalInv
<1>13. Keeps(a, b)
  <2>1. MailSame(a, b) BY <1>2, <1>4 DEF MailSame
  <2> QED BY <2>1, <1>2, KeepsStill
<1> QED BY <1>2, <1>7, <1>8, <1>9, <1>10, <1>11, <1>12, <1>13 DEF Stays, Sound, Fit

LEMMA EditHandlers ==
  ASSUME NEW a \in Memory, NEW h \in Seq(SubTasks), NEW b, b = [a EXCEPT !.saved_handlers = h]
  PROVE  Edits(a, b, {"saved_handlers"})
BY DEF Edits, Fields, Memory

(* xi_control_topic_layer_close_externally.                                 *)
LEMMA TopCloseStays ==
  ASSUME c \in Memory, Running, Sound(c), TopCloseExternally
  PROVE  Stays(c, c')
<1> DEFINE p == Popped
           h == IF ControlTopic THEN Kept(p.saved_handlers, SubTasks \ TakenForControl) ELSE p.saved_handlers
           a == [p EXCEPT !.saved_handlers = h]
           st == Call.st
           v == IF a.conn = "OPENING" THEN "OPEN_FAILED" ELSE "CLOSED"
           d == [a EXCEPT !.conn = v]
           b == [d EXCEPT !.data["top"] = FALSE]
<1>1. Called("top", "close_externally") /\ c' = ConnectionStateChanged(b, st)
  BY DEF TopCloseExternally, Becomes, TopCloseExternallyHandler
<1>14. /\ p \in Memory /\ Popped1(c, p, Call) /\ Call.layer = "top" /\ Call.fn = "close_externally"
       /\ Call \in Calls /\ st \in Statuses /\ c.abort = "none" /\ p.abort = "none" /\ p.data = c.data
  BY <1>1, CalledIs
<1>3. Call \notin Inits /\ Call \notin Users /\ Call \in Gone("top") BY <1>14, KindOf
<1>15. Stays(c, p) /\ Sound(p) /\ ~Starting(p) BY <1>1, <1>3, CalledStays
<1>16. h \in Seq(SubTasks) BY <1>14, FieldsOf, KeptRange
<1>17. a = [p EXCEPT !.saved_handlers = h] OBVIOUS
<1> HIDE DEF p, h, a
<1>18. Edits(p, a, SideFields) /\ a.data = p.data
  <2>1. Edits(p, a, {"saved_handlers"}) BY ONLY <1>14, <1>16, <1>17, EditHandlers
  <2> QED BY <2>1 DEF Edits, SideFields, Fields
<1>19. Stays(p, a) /\ a.abort = "none" /\ ~Starting(a) BY <1>14, <1>15, <1>18, SideStays
<1>2. a \in Memory /\ a.abort = "none" /\ a.data = c.data /\ c.abort = "none" /\ st \in Statuses
  BY <1>14, <1>18, <1>19 DEF Edits
<1>4. Stays(c, a) /\ Sound(a) /\ ~Starting(a) BY <1>15, <1>19, StaysTrans DEF Stays
<1>5. ~a.data["logic"]
  <2>1. Plus(c.calls, p.calls, Call, Gone("top")) BY <1>14 DEF Popped1, Sums
  <2> QED BY <2>1, <1>2, <1>14, <1>3 DEF Plus, Sound, Fit, EndInv
<1>6. v \in {"OPEN_FAILED", "CLOSED"} /\ v \in ConnectionStates BY DEF ConnectionStates
<1>7. d = [a EXCEPT !.conn = v] /\ b = [d EXCEPT !.data["top"] = FALSE] OBVIOUS
<1> HIDE DEF st, v, d, b
<1>8. Edits(a, d, {"conn"}) /\ d.conn = v BY ONLY <1>2, <1>6, <1>7, EditConn
<1>9. SetData(d, b, "top", FALSE)
  <2>1. "top" \in Layers /\ FALSE \in BOOLEAN BY DEF Layers
  <2>2. d \in Memory BY <1>8 DEF Edits
  <2> QED BY ONLY <2>1, <2>2, <1>7, DataOf
<1>10. /\ b \in Memory /\ Edits(a, b, RestFields) /\ b.conn = v /\ ~b.data["top"]
       /\ \A l \in Layers \ {"top"} : b.data[l] = a.data[l]
  BY <1>8, <1>9 DEF SetData, Edits, RestFields, Fields
<1>11. Stays(a, b) /\ b.abort = "none" /\ ~Starting(b)
  <2>1. Rest(b) BY <1>6, <1>10 DEF Rest
  <2> QED BY <2>1, <1>2, <1>4, <1>5, <1>10, RestStays
<1>12. Stays(b, c')
  <2>1. Reported(b, c') BY <1>1, <1>2, <1>10, ConnectionReported
  <2> QED BY <2>1, <1>11 DEF Reported, Stays
<1> QED BY <1>4, <1>11, <1>12, StaysTrans

(* No connection is on its way when the application asks for one.           *)
LEMMA RestingIs ==
  ASSUME c \in Memory, Running, Sound(c), PollInv(phase, c), "timers" \notin AppPhases, AppTurn, Rest(c)
  PROVE  ~Starting(c) /\ ~c.data["logic"]
<1>1. c.calls \in Seq(Calls) /\ c.abort = "none" BY FieldsOf DEF Running
<1>2. phase = "poll" \/ (c.calls # <<>> /\ Head(c.calls).layer = "user")
  BY ClientAssumption DEF AppTurn
<1>3. c.io # "connecting" BY DEF Sound, Fit, StartInv, Rest
<1>4. ~Has(c.calls, Inits)
  <2>1. CASE phase = "poll"
    <3>1. Only(c.calls, Users) BY <2>1 DEF PollInv
    <3> SUFFICES ASSUME NEW i \in 1 .. Len(c.calls) PROVE c.calls[i] \notin Inits BY DEF Has
    <3>2. c.calls[i] \in Calls /\ c.calls[i] \in Users BY <3>1, <1>1 DEF Only
    <3> QED BY <3>2, KindOf
  <2>2. CASE c.calls # <<>> /\ Head(c.calls).layer = "user"
    <3>1. Head(c.calls) \in Calls /\ 1 \in 1 .. Len(c.calls) /\ Head(c.calls) = c.calls[1] BY <2>2, <1>1
    <3>2. Head(c.calls) \notin Inits \cup Users BY <3>1, <2>2, KindOf
    <3>3. ~Only(c.calls, Inits \cup Users) BY <3>1, <3>2 DEF Only
    <3> QED BY <3>3 DEF Sound, Fit, StartInv, Starting
  <2> QED BY <1>2, <2>1, <2>2
<1> QED BY <1>3, <1>4 DEF Starting, Sound, Fit, DataInv

(* xi_connect: its timer is set, and nothing else is under way.             *)
LEMMA XiConnectStays ==
  ASSUME c \in Memory, Running, Sound(c), PollInv(phase, c), "timers" \notin AppPhases,
         NEW s \in Sessions, XiConnect(s)
  PROVE  Stays(c, c') /\ PollInv(phase', c') /\ c'.data = c.data
<1> DEFINE b == c'
           v == c.told /\ s = "CONTINUE"
<1>1. /\ AppTurn /\ Rest(c) /\ UNCHANGED <<phase, net>>
      /\ b = [c EXCEPT !.conn = "UNINITIALIZED", !.session = s, !.shutdown_started = FALSE,
                    !.connect_handler = TRUE, !.told = v]
  BY DEF XiConnect, Rest
<1>2. ~Starting(c) /\ ~c.data["logic"] BY <1>1, RestingIs
<1>3. s \in {"CLEAN", "CONTINUE"} /\ "UNINITIALIZED" \in ConnectionStates
  BY ClientAssumption DEF ConnectionStates
<1>4. v \in BOOLEAN OBVIOUS
<1> HIDE DEF v
<1>5. b \in Memory BY <1>1, <1>3, <1>4 DEF Memory
<1>6. \A f \in Fields \ RestFields : b[f] = c[f] BY <1>1 DEF Fields, RestFields, Memory
<1>7. b.conn = "UNINITIALIZED" /\ b.data = c.data /\ b.connect_handler /\ b.calls = c.calls BY <1>1 DEF Memory
<1> HIDE DEF b
<1>8. Edits(c, b, RestFields) /\ Rest(b) BY <1>5, <1>6, <1>7 DEF Edits, Rest
<1>9. Stays(c, b)
  <2>1. c.abort = "none" BY DEF Running
  <2> QED BY <2>1, <1>2, <1>5, <1>7, <1>8, RestStays
<1>10. phase = "poll" \/ phase = "drain" BY <1>1, ClientAssumption DEF AppTurn
<1>11. PollInv(phase', b) BY <1>1, <1>7, <1>10 DEF PollInv
<1> QED BY <1>7, <1>9, <1>11 DEF b

(* The fate of a task the application hands over.                           *)
LEMMA XiPublishSound ==
  ASSUME c \in Memory, Running, Sound(c), PollInv(phase, c), NEW t \in UserTasks, XiPublish(t)
  PROVE  /\ c' \in Memory /\ c'.abort = "none" /\ Sound(c') /\ Keeps(c, c') /\ PollInv(phase', c')
         /\ c'.data = c.data
         /\ \A u \in UserTasks \ {t} : Fate(c', u) = Fate(c, u)
         /\ Fate(c, t) = "idle" /\ Fate(c', t) = "accepted"
<1> DEFINE a == MakeTask(c, t, "UNSET")
           b == c'
<1>1. /\ c.task[t].cs = "none" /\ phase' = phase
      /\ b = ContinueWith(a, "top", "push", "top", [NoMsg EXCEPT !.task = t], "OK")
  BY DEF XiPublish, OnThis
<1>2. a = MakeTask(c, t, "UNSET") OBVIOUS
<1> HIDE DEF a, b
<1>3. t \in Tasks /\ t \notin Internal BY TaskNames
<1>4. t \notin Queued(c) /\ ~Pending(c, t) BY <1>1, <1>3 DEF Sound, Book, BookBut, Lives
<1>5. t # "control" /\ t # "connect" /\ t # "keepalive" /\ t # "shutdown" BY <1>3, TaskNames
<1>6. Made(c, a, t)
  <2>1. "UNSET" \in {"UNSET", "DO_NOT_STORE"} OBVIOUS
  <2>2. t \in UserTasks => c.task[t].cs = "none" /\ "UNSET" = "UNSET" BY <1>1
  <2>3. t = "control" => "UNSET" = "DO_NOT_STORE" BY <1>5
  <2> QED BY ONLY <2>1, <2>2, <2>3, <1>2, <1>3, <1>4, c \in Memory, Sound(c), MakeSound
<1>7. /\ a \in Memory /\ Sound(a) /\ Waits(a, t) /\ Keeps(c, a) /\ a.abort = "none" /\ a.data = c.data
      /\ a.calls = c.calls /\ a.conn = c.conn /\ a.connect_handler = c.connect_handler
  BY <1>6 DEF Made, Edits, Fields, Running
<1>8. Admits(a, t) BY <1>5 DEF Admits
<1>9. Pushed(a, b, t)
  <2>1. t \notin {"connect", "keepalive"} /\ "top" \in {"top", "logic"} BY <1>5
  <2> QED BY ONLY <2>1, <1>1, <1>3, <1>7, <1>8, PushStays
<1>10. Stays(a, b) /\ b.abort = "none" /\ b.data = a.data BY <1>9 DEF Pushed
<1>11. PollInv(phase, b)
  <2>1. PollInv(phase, a) BY <1>7 DEF PollInv, Rest
  <2> QED BY <2>1, <1>9 DEF Pushed
<1>12. Keeps(c, b) BY <1>7, <1>10, KeepsTrans DEF Stays
<1> QED BY <1>1, <1>6, <1>7, <1>10, <1>11, <1>12 DEF Made, Stays, b

(* xi_shutdown_connection.                                                  *)
LEMMA XiShutdownStays ==
  ASSUME c \in Memory, Running, Sound(c), PollInv(phase, c), XiShutdownConnection
  PROVE  Stays(c, c') /\ PollInv(phase', c') /\ c'.data = c.data
<1>1. c.abort = "none" /\ phase' = phase BY DEF Running, XiShutdownConnection
<1>2. CASE c.connect_handler /\ c' = [c EXCEPT !.connect_handler = FALSE]
  <2> DEFINE b == c'
  <2>1. Edits(c, b, {"connect_handler"}) /\ b.connect_handler = FALSE
    <3>1. FALSE \in BOOLEAN /\ b = [c EXCEPT !.connect_handler = FALSE] BY <1>2
    <3> HIDE DEF b
    <3> QED BY ONLY <3>1, c \in Memory, EditHandler
  <2> HIDE DEF b
  <2>2. /\ b \in Memory /\ b.calls = c.calls /\ b.current = c.current /\ b.keepalive_event = c.keepalive_event
        /\ b.io = c.io /\ b.conn = c.conn /\ b.data = c.data /\ b.shutdown_started = c.shutdown_started
        /\ b.queue = c.queue /\ b.recv = c.recv /\ b.task = c.task /\ b.q0 = c.q0
        /\ b.q12 = c.q12 /\ b.saved = c.saved /\ b.outcome = c.outcome
        /\ b.saved_id = c.saved_id /\ b.last_msg_id = c.last_msg_id /\ b.abort = c.abort
    BY <2>1 DEF Edits, Fields
  <2>3. Alike(c, b) BY <2>2 DEF Alike, Pending
  <2>4. /\ Book(b) /\ Queued(b) = Queued(c) /\ \A t \in UserTasks : Fate(b, t) = Fate(c, t)
    BY <2>3, AlikeBook DEF Sound, Book
  <2>5. StartInv(b) BY <2>1, <2>2, <2>4 DEF Sound, Fit, StartInv, Starting, Rest
  <2>6. DataInv(b) BY <2>1, <2>2 DEF Sound, Fit, DataInv, Rest
  <2>7. EndInv(b) /\ CodecInv(b) BY <2>2 DEF Sound, Fit, EndInv, CodecInv
  <2>8. InternalInv(b)
    BY <2>2, <2>4 DEF Sound, Fit, InternalInv, ConnectOnce, PingOnce, RestOnce, Pending
  <2>9. Keeps(c, b)
    <3>1. MailSame(c, b) BY <2>2 DEF MailSame
    <3> QED BY <3>1, <2>2, KeepsStill
  <2>10. PollInv(phase, b) BY <2>1, <2>2 DEF PollInv, Rest
  <2> QED BY <1>1, <2>2, <2>4, <2>5, <2>6, <2>7, <2>8, <2>9, <2>10 DEF Stays, Sound, Fit, b
<1>3. CASE ~(c.connect_handler /\ c' = [c EXCEPT !.connect_handler = FALSE])
  <2> DEFINE d == [c EXCEPT !.shutdown_started = TRUE]
             a == MakeTask(d, "shutdown", "UNSET")
             b == c'
  <2>1. /\ ~c.connect_handler /\ c.conn = "OPENED" /\ ~c.shutdown_started
        /\ b = ContinueWith(a, "top", "push", "top", [NoMsg EXCEPT !.task = "shutdown"], "OK")
    BY <1>3 DEF XiShutdownConnection, OnThis
  <2>2. Edits(c, d, {"shutdown_started"}) /\ d.shutdown_started
    <3>1. TRUE \in BOOLEAN /\ d = [c EXCEPT !.shutdown_started = TRUE] OBVIOUS
    <3> HIDE DEF d
    <3> QED BY ONLY <3>1, c \in Memory, EditShutdown
  <2>3. a = MakeTask(d, "shutdown", "UNSET") OBVIOUS
  <2> HIDE DEF a, b, d
  <2>4. /\ d \in Memory /\ d.calls = c.calls /\ d.current = c.current /\ d.keepalive_event = c.keepalive_event
        /\ d.io = c.io /\ d.conn = c.conn /\ d.data = c.data /\ d.connect_handler = c.connect_handler
        /\ d.queue = c.queue /\ d.recv = c.recv /\ d.task = c.task /\ d.q0 = c.q0
        /\ d.q12 = c.q12 /\ d.saved = c.saved /\ d.outcome = c.outcome
        /\ d.saved_id = c.saved_id /\ d.last_msg_id = c.last_msg_id /\ d.abort = c.abort
    BY <2>2 DEF Edits, Fields
  <2>5. Alike(c, d) BY <2>4 DEF Alike, Pending
  <2>6. /\ Book(d) /\ Queued(d) = Queued(c) /\ \A t \in UserTasks : Fate(d, t) = Fate(c, t)
    BY <2>5, AlikeBook DEF Sound, Book
  <2>7. StartInv(d) BY <2>4, <2>6 DEF Sound, Fit, StartInv, Starting, Rest
  <2>8. DataInv(d) BY <2>4 DEF Sound, Fit, DataInv, Rest
  <2>9. EndInv(d) /\ CodecInv(d) BY <2>4 DEF Sound, Fit, EndInv, CodecInv
  <2>10. InternalInv(d)
    BY <2>2, <2>4, <2>6 DEF Sound, Fit, InternalInv, ConnectOnce, PingOnce, RestOnce, Pending
  <2>11. Keeps(c, d)
    <3>1. MailSame(c, d) BY <2>4 DEF MailSame
    <3> QED BY <3>1, <2>4, KeepsStill
  <2>12. Sound(d) /\ Stays(c, d)
    BY <1>1, <2>4, <2>6, <2>7, <2>8, <2>9, <2>10, <2>11 DEF Stays, Sound, Fit
  <2>13. "shutdown" \in Tasks /\ "shutdown" \notin UserTasks BY TaskNames
  <2>14. "shutdown" \notin Queued(d) /\ ~Pending(d, "shutdown")
    <3>1. "shutdown" \notin Queued(c) /\ ~Pending(c, "shutdown")
      BY <2>1 DEF Sound, Fit, InternalInv, RestOnce
    <3> QED BY <3>1, <2>4, <2>6 DEF Pending
  <2>15. Made(d, a, "shutdown")
    <3>1. "UNSET" \in {"UNSET", "DO_NOT_STORE"} /\ "shutdown" # "control" OBVIOUS
    <3> QED BY ONLY <3>1, <2>3, <2>4, <2>12, <2>13, <2>14, MakeSound
  <2>16. /\ a \in Memory /\ Sound(a) /\ Waits(a, "shutdown") /\ Keeps(d, a) /\ a.abort = d.abort /\ a.data = d.data
         /\ a.calls = d.calls /\ a.conn = d.conn /\ a.connect_handler = d.connect_handler
         /\ a.shutdown_started /\ a.io = d.io
         /\ \A u \in UserTasks : Fate(a, u) = Fate(d, u)
    BY <2>2, <2>13, <2>15 DEF Made, Edits, Fields
  <2>17. ~Starting(a)
    <3>1. ~Has(a.calls, LogicInits) /\ ~Has(a.calls, Inits \ LogicInits) /\ a.io # "connecting"
      BY <2>1, <2>4, <2>16 DEF Sound, Fit, StartInv, Rest
    <3> QED BY <3>1 DEF Has, Starting
  <2>18. Admits(a, "shutdown") BY <2>1, <2>4, <2>16, <2>17 DEF Admits
  <2>19. Stays(d, a) BY <1>1, <2>4, <2>16 DEF Stays
  <2>20. Pushed(a, b, "shutdown")
    <3>1. "shutdown" \notin {"connect", "keepalive"} /\ "top" \in {"top", "logic"} /\ a.abort = "none"
      BY <1>1, <2>4, <2>16
    <3> QED BY ONLY <3>1, <2>1, <2>13, <2>16, <2>18, PushStays
  <2>21. Stays(c, b) BY <2>12, <2>19, <2>20, StaysTrans DEF Pushed
  <2>22. PollInv(phase, b)
    <3>1. PollInv(phase, a) BY <2>4, <2>16 DEF PollInv, Rest
    <3>2. ~Rest(a) /\ ~a.connect_handler BY <2>1, <2>4, <2>16 DEF Rest
    <3> QED BY <3>1, <3>2, <2>20 DEF Pushed
  <2> QED BY <1>1, <2>4, <2>16, <2>20, <2>21, <2>22 DEF Pushed, b
<1> QED BY <1>2, <1>3
-----------------------------------------------------------------------------
(* Messages between the layers.  Stays, without what it says of messages.   *)
Holds(a, b) ==
  /\ b \in Memory
  /\ b.abort = "none" =>
       a.abort = "none" /\ Sound(b) /\ \A t \in UserTasks : Fate(b, t) = Fate(a, t)
MailIn(a) == Ids(a) /\ Mail(a) /\ AllName(a, a.queue)
NameCall(a, k) ==
  /\ Outward(k) \/ (k.layer = "logic" /\ k.fn = "pull") => Names(a, k.arg)
  /\ k.layer = "codec" /\ k.fn = "pull" => AllName(a, k.arg)

(* Holds is Stays without the messages.                                     *)
LEMMA HoldsStays ==
  ASSUME NEW a, NEW b
  PROVE  /\ Stays(a, b) => Holds(a, b)
         /\ Holds(a, b) /\ (MailIn(a) => Keeps(a, b)) => Stays(a, b)
         /\ Stays(a, b) /\ b.abort = "none" => Keeps(a, b)
         /\ Holds(a, b) /\ b.abort = "none" => Sound(b)
         /\ Keeps(a, b) /\ MailIn(a) => MailIn(b)
BY DEF Holds, Stays, MailIn, Keeps

(* It is transitive.                                                        *)
LEMMA HoldsTrans ==
  ASSUME NEW a, NEW b, NEW d, Holds(a, b), Holds(b, d)
  PROVE  Holds(a, d)
BY DEF Holds

(* Messages name their tasks in each call of the queue,                     *)
LEMMA MailIs == ASSUME NEW a PROVE Mail(a) <=> \A i \in 1 .. Len(a.calls) : NameCall(a, a.calls[i])
BY DEF Mail, NameCall

(* Calls that start, open, confirm and end nothing are added.               *)
Harmless(k) ==
  /\ k \in Calls /\ Neutral(k) /\ k \notin Inits /\ k \notin Opened /\ k \notin Tokens
  /\ k \notin Gone("codec") /\ k \notin Gone("logic") /\ k \notin Gone("top")
Posted(a, b, K) ==
  /\ Holds(a, b) /\ b.abort = "none" /\ ~Starting(b)
  /\ (MailIn(a) => \A k \in K : NameCall(a, k)) => Keeps(a, b)

(* and still do when calls that name theirs are added.                      *)
LEMMA PostsMail ==
  ASSUME NEW a \in Memory, NEW b, MailSame(a, b), b.queue = a.queue, NEW K, Grows(a.calls, b.calls, K),
         MailIn(a) => \A k \in K : NameCall(a, k)
  PROVE  Keeps(a, b)
<1>1. /\ \A m : Names(b, m) <=> Names(a, m)
      /\ \A q : AllName(b, q) <=> AllName(a, q)
      /\ Ids(b) <=> Ids(a)
  BY MailNames
<1>2. \A k : NameCall(b, k) <=> NameCall(a, k) BY <1>1 DEF NameCall
<1>3. ASSUME MailIn(a) PROVE Mail(b)
  <2>1. \A i \in 1 .. Len(a.calls) : NameCall(a, a.calls[i]) BY <1>3, MailIs DEF MailIn
  <2>2. \A k \in K : NameCall(a, k) BY <1>3
  <2>3. a.calls \in Seq(Calls) /\ b.calls \in Seq(Calls) BY FieldsOf DEF Grows
  <2>4. ASSUME NEW i \in 1 .. Len(b.calls) PROVE NameCall(a, b.calls[i])
    <3>1. CASE i \in 1 .. Len(a.calls) BY <3>1, <2>1 DEF Grows
    <3>2. CASE i > Len(a.calls) BY <3>2, <2>2 DEF Grows
    <3> QED BY <3>1, <3>2, <2>3
  <2> QED BY <2>4, <1>2, MailIs
<1> QED BY <1>1, <1>3 DEF MailIn, Keeps

(* Adding harmless calls stays within the rules.                            *)
LEMMA Posts ==
  ASSUME NEW a \in Memory, a.abort = "none", Sound(a), ~Starting(a), NEW b, NEW K,
         Edits(a, b, SideFields \cup {"calls"}), Grows(a.calls, b.calls, K), \A k \in K : Harmless(k)
  PROVE  Posted(a, b, K)
<1>1. /\ b.data = a.data /\ b.session = a.session /\ b.conn = a.conn
      /\ b.connect_handler = a.connect_handler /\ b.shutdown_started = a.shutdown_started
      /\ b.current = a.current /\ b.keepalive_event = a.keepalive_event /\ b.io = a.io
      /\ b.queue = a.queue /\ b.recv = a.recv /\ b.task = a.task /\ b.q0 = a.q0 /\ b.q12 = a.q12
      /\ b.saved = a.saved /\ b.outcome = a.outcome /\ b.saved_id = a.saved_id
      /\ b.last_msg_id = a.last_msg_id /\ b.abort = a.abort /\ b \in Memory
  BY DEF Edits, Fields, SideFields
<1>2. a.calls \in Seq(Calls) BY FieldsOf
<1>3. \A k \in K : Neutral(k) BY DEF Harmless
<1>4. Alike(a, b) BY <1>1, <1>3, AlikeGrows
<1>5. /\ Book(b) /\ Queued(b) = Queued(a) /\ \A t \in UserTasks : Fate(b, t) = Fate(a, t)
  BY <1>4, AlikeBook DEF Sound, Book
<1>6. \A t \in Tasks : Pending(b, t) <=> Pending(a, t) BY <1>4 DEF Alike
<1>7. \A S : S \cap K = {} => (Has(b.calls, S) <=> Has(a.calls, S)) /\ (One(b.calls, S) <=> One(a.calls, S))
  BY <1>2, GrownQueue
<1>8. /\ Inits \cap K = {} /\ LogicInits \cap K = {} /\ (Inits \ LogicInits) \cap K = {}
      /\ Kind("codec", "init") \cap K = {} /\ Kind("io", "init") \cap K = {}
      /\ Kind("io", "connect") \cap K = {} /\ Connects \cap K = {} /\ Opened \cap K = {}
      /\ Tokens \cap K = {} /\ Gone("codec") \cap K = {} /\ Gone("logic") \cap K = {} /\ Gone("top") \cap K = {}
  BY DEF Harmless, Inits, Connects
<1>9. \A S \in {Inits, LogicInits, Inits \ LogicInits, Kind("codec", "init"), Kind("io", "init"),
                Kind("io", "connect"), Connects, Opened, Tokens, Gone("codec"), Gone("logic"), Gone("top")} :
         (Has(b.calls, S) <=> Has(a.calls, S)) /\ (One(b.calls, S) <=> One(a.calls, S))
  BY <1>7, <1>8
<1>10. ~Starting(b) BY <1>1, <1>9 DEF Starting
<1>11. StartInv(b) BY <1>1, <1>9, <1>10 DEF Sound, Fit, StartInv, Rest, Connects
<1>12. DataInv(b) BY <1>1, <1>9 DEF Sound, Fit, DataInv, Rest
<1>13. EndInv(b) /\ CodecInv(b) BY <1>1, <1>9 DEF Sound, Fit, EndInv, CodecInv
<1>14. InternalInv(b)
  <2>1. {"connect", "keepalive", "shutdown", "control"} \subseteq Tasks BY TaskNames
  <2> QED BY <2>1, <1>1, <1>5, <1>6, <1>9 DEF Sound, Fit, InternalInv, ConnectOnce, PingOnce, RestOnce
<1>15. (MailIn(a) => \A k \in K : NameCall(a, k)) => Keeps(a, b)
  <2>1. MailSame(a, b) BY <1>1 DEF MailSame
  <2> QED BY <2>1, <1>1, PostsMail
<1>16. Holds(a, b) BY <1>1, <1>5, <1>11, <1>12, <1>13, <1>14 DEF Holds, Sound, Fit
<1> QED BY <1>1, <1>10, <1>15, <1>16 DEF Posted

(* The next message is handed on, or the last one confirmed.                *)
LEMMA TokenPosts ==
  ASSUME NEW a \in Memory, a.abort = "none", Sound(a), ~Starting(a), NEW b, NEW from, NEW k \in Calls,
         Said(a, b, from, k), k \in Tokens, a.data["codec"], ~Has(a.calls, Tokens), a.io # "blocked",
         a.queue # <<>>
  PROVE  Posted(a, b, {k})
<1>1. b \in Memory /\ b.calls = Append(a.calls, k) /\ \A f \in Fields \ {"calls", "layer"} : b[f] = a[f]
  BY DEF Said, Edits
<1>2. /\ b.data = a.data /\ b.session = a.session /\ b.conn = a.conn
      /\ b.connect_handler = a.connect_handler /\ b.shutdown_started = a.shutdown_started
      /\ b.current = a.current /\ b.keepalive_event = a.keepalive_event /\ b.io = a.io
      /\ b.queue = a.queue /\ b.recv = a.recv /\ b.task = a.task /\ b.q0 = a.q0 /\ b.q12 = a.q12
      /\ b.saved = a.saved /\ b.outcome = a.outcome /\ b.saved_id = a.saved_id
      /\ b.last_msg_id = a.last_msg_id /\ b.abort = a.abort
  BY <1>1 DEF Fields
<1>3. k.fn = "push" /\ (k.layer = "io" \/ (k.layer = "codec" /\ k.st # "OK")) BY KindOf
<1>4. /\ k \notin Inits /\ k \notin LogicInits /\ k \notin Inits \ LogicInits /\ k \notin Kind("codec", "init")
      /\ k \notin Kind("io", "init") /\ k \notin Kind("io", "connect") /\ k \notin Connects
      /\ k \notin Opened /\ \A l : k \notin Gone(l)
  BY <1>3, KindOf DEF Connects
<1>5. Neutral(k) BY <1>3, NeutralIs
<1>6. Appends(a, b, k) BY <1>1, <1>2, <1>5 DEF Appends
<1>7. /\ Book(b) /\ Queued(b) = Queued(a) /\ Sums(b.calls, a.calls, k)
      /\ \A t \in Tasks : Pending(b, t) <=> Pending(a, t)
      /\ \A t \in UserTasks : Fate(b, t) = Fate(a, t)
  BY <1>6, AppendsBook DEF Sound
<1>8. /\ \A S \in {Inits, LogicInits, Inits \ LogicInits, Kind("codec", "init"), Kind("io", "init"),
                Kind("io", "connect"), Connects, Opened, Gone("codec"), Gone("logic"), Gone("top")} :
         (Has(b.calls, S) <=> Has(a.calls, S)) /\ (One(b.calls, S) <=> One(a.calls, S))
      /\ One(b.calls, Tokens)
  <2>1. One(a.calls, Tokens) BY DEF Has, One
  <2> QED BY <2>1, <1>4, <1>7 DEF Sums, Plus
<1>9. ~Starting(b) BY <1>2, <1>8 DEF Starting
<1>10. StartInv(b) BY <1>2, <1>8, <1>9 DEF Sound, Fit, StartInv, Rest, Connects
<1>11. DataInv(b) BY <1>2, <1>8 DEF Sound, Fit, DataInv, Rest
<1>12. EndInv(b) /\ CodecInv(b) BY <1>2, <1>8 DEF Sound, Fit, EndInv, CodecInv
<1>13. InternalInv(b)
  <2>1. {"connect", "keepalive", "shutdown", "control"} \subseteq Tasks BY TaskNames
  <2> QED BY <2>1, <1>2, <1>7, <1>8 DEF Sound, Fit, InternalInv, ConnectOnce, PingOnce, RestOnce
<1>14. (MailIn(a) => \A i \in {k} : NameCall(a, i)) => Keeps(a, b)
  <2>1. MailSame(a, b) BY <1>2 DEF MailSame
  <2>2. Grows(a.calls, b.calls, {k}) BY <1>1, FieldsOf, GrowsAppend
  <2> QED BY <2>1, <2>2, <1>2, PostsMail
<1>15. Holds(a, b) BY <1>1, <1>2, <1>7, <1>10, <1>11, <1>12, <1>13 DEF Holds, Sound, Fit
<1> QED BY <1>2, <1>9, <1>14, <1>15 DEF Posted

(* The queue of the codec, the socket, and what these layers keep.          *)
LowFields == {"data", "queue", "io"}

(* So does a change in the layers below the logic layer.                    *)
LEMMA LowHolds ==
  ASSUME NEW a \in Memory, a.abort = "none", Sound(a), ~Starting(a), NEW b, Edits(a, b, LowFields),
         b.data["logic"] = a.data["logic"], b.data["top"] = a.data["top"],
         b.data["codec"] => a.data["codec"], b.data["io"] => a.data["io"], b.io # "connecting",
         b.data["io"] => b.data["codec"], ~b.data["io"] => b.io = "idle",
         ~b.data["codec"] => b.queue = <<>>, CodecInv(b)
  PROVE  /\ Holds(a, b) /\ b.abort = "none" /\ ~Starting(b)
         /\ (MailIn(a) => AllName(a, b.queue)) => Keeps(a, b)
<1>1. /\ b.session = a.session /\ b.conn = a.conn /\ b.calls = a.calls
      /\ b.connect_handler = a.connect_handler /\ b.shutdown_started = a.shutdown_started
      /\ b.current = a.current /\ b.keepalive_event = a.keepalive_event
      /\ b.recv = a.recv /\ b.task = a.task /\ b.q0 = a.q0 /\ b.q12 = a.q12
      /\ b.saved = a.saved /\ b.outcome = a.outcome /\ b.saved_id = a.saved_id
      /\ b.last_msg_id = a.last_msg_id /\ b.abort = a.abort /\ b \in Memory
  BY DEF Edits, Fields, LowFields
<1>2. Alike(a, b) BY <1>1 DEF Alike, Pending
<1>3. /\ Book(b) /\ Queued(b) = Queued(a) /\ \A t \in UserTasks : Fate(b, t) = Fate(a, t)
  BY <1>2, AlikeBook DEF Sound, Book
<1>4. ~Starting(b) BY <1>1 DEF Starting
<1>5. StartInv(b)
  <2>1. One(b.calls, Inits) BY <1>1 DEF Sound, Fit, StartInv
  <2>2. ~Has(b.calls, Inits) BY <1>4 DEF Starting
  <2>3. /\ ~Has(b.calls, LogicInits) /\ ~Has(b.calls, Inits \ LogicInits) /\ ~Has(b.calls, Kind("codec", "init"))
        /\ ~Has(b.calls, Kind("io", "init")) /\ ~Has(b.calls, Kind("io", "connect"))
        /\ ~Has(b.calls, With("codec", "connect", "OK") \cup With("logic", "connect", "OK"))
    BY <2>2 DEF Has, Inits
  <2> QED BY <1>4, <2>1, <2>2, <2>3 DEF StartInv
<1>6. DataInv(b) BY <1>1 DEF Sound, Fit, DataInv, Rest
<1>7. EndInv(b) BY <1>1 DEF Sound, Fit, EndInv
<1>8. InternalInv(b) BY <1>1, <1>3 DEF Sound, Fit, InternalInv, ConnectOnce, PingOnce, RestOnce, Pending
<1>9. Holds(a, b) BY <1>1, <1>3, <1>5, <1>6, <1>7, <1>8 DEF Holds, Sound, Fit
<1>10. ASSUME MailIn(a) => AllName(a, b.queue) PROVE Keeps(a, b)
  <2>1. MailSame(a, b) BY <1>1 DEF MailSame
  <2>2. /\ \A m : Names(b, m) <=> Names(a, m)
        /\ \A q : AllName(b, q) <=> AllName(a, q)
        /\ Ids(b) <=> Ids(a)
    BY <2>1, MailNames
  <2>3. Mail(b) <=> Mail(a) BY <2>2, <1>1 DEF Mail
  <2> QED BY <2>2, <2>3, <1>10 DEF Keeps, MailIn
<1> QED BY <1>1, <1>4, <1>9, <1>10
-----------------------------------------------------------------------------
(* The calls that carry a message.                                          *)
LEMMA MessageCalls ==
  /\ \A m \in OutMessages :
       LET k == [layer |-> "io", fn |-> "push", arg |-> m, st |-> "OK"]
       IN  k \in Calls /\ k \in Tokens /\ k.arg = m /\ (\A a : NameCall(a, k) <=> Names(a, m))
  /\ LET k == [layer |-> "codec", fn |-> "push", arg |-> NoMsg, st |-> "WRITTEN"]
     IN  k \in Calls /\ k \in Tokens /\ \A a : NameCall(a, k)
  /\ \A m \in Messages, st \in {"WRITTEN", "FAILED"} :
       LET k == [layer |-> "logic", fn |-> "push", arg |-> m, st |-> st]
       IN  Harmless(k) /\ \A a : NameCall(a, k)
  /\ \A m \in Messages :
       LET k == [layer |-> "logic", fn |-> "pull", arg |-> m, st |-> "OK"]
       IN  Harmless(k) /\ (\A a : NameCall(a, k) <=> Names(a, m))
  /\ \A m \in Seq(Messages) :
       LET k == [layer |-> "codec", fn |-> "pull", arg |-> m, st |-> "OK"]
       IN  Harmless(k) /\ (\A a : NameCall(a, k) <=> AllName(a, m))
<1>1. /\ "push" \in FunctionNames /\ "pull" \in FunctionNames /\ {"io", "codec", "logic"} \subseteq Layers
      /\ {"OK", "WRITTEN", "FAILED"} \subseteq Statuses
  BY DEF FunctionNames, LayerFunctions, Layers, Statuses
<1>2. ASSUME NEW m \in OutMessages
      PROVE  LET k == [layer |-> "io", fn |-> "push", arg |-> m, st |-> "OK"]
             IN  k \in Calls /\ k \in Tokens /\ k.arg = m /\ (\A a : NameCall(a, k) <=> Names(a, m))
  <2> DEFINE k == [layer |-> "io", fn |-> "push", arg |-> m, st |-> "OK"]
  <2>1. m \in Messages BY DEF OutMessages
  <2>2. k.layer = "io" /\ k.fn = "push" /\ k.arg = m /\ k.st = "OK" OBVIOUS
  <2>3. k \in CallTypes BY <1>1, <2>1 DEF CallTypes
  <2> HIDE DEF k
  <2>4. k \in Calls BY <2>1, <2>2, <2>3 DEF Calls, Outward
  <2>5. k \in Tokens BY <2>2, <2>4, KindOf
  <2>6. \A a : NameCall(a, k) <=> Names(a, m) BY <2>2 DEF NameCall, Outward
  <2> QED BY <2>2, <2>4, <2>5, <2>6 DEF k
<1>3. LET k == [layer |-> "codec", fn |-> "push", arg |-> NoMsg, st |-> "WRITTEN"]
      IN  k \in Calls /\ k \in Tokens /\ \A a : NameCall(a, k)
  <2> DEFINE k == [layer |-> "codec", fn |-> "push", arg |-> NoMsg, st |-> "WRITTEN"]
  <2>1. NoMsg \in Messages BY NoMsgIs
  <2>2. k.layer = "codec" /\ k.fn = "push" /\ k.arg = NoMsg /\ k.st = "WRITTEN" OBVIOUS
  <2>3. k \in CallTypes BY <1>1, <2>1 DEF CallTypes
  <2> HIDE DEF k
  <2>4. k \in Calls BY <2>1, <2>2, <2>3 DEF Calls, Outward
  <2>5. k \in Tokens BY <2>2, <2>4, KindOf
  <2>6. \A a : NameCall(a, k) BY <2>2 DEF NameCall, Outward
  <2> QED BY <2>2, <2>4, <2>5, <2>6 DEF k
<1>4. ASSUME NEW m \in Messages, NEW st \in {"WRITTEN", "FAILED"}
      PROVE  LET k == [layer |-> "logic", fn |-> "push", arg |-> m, st |-> st]
             IN  Harmless(k) /\ \A a : NameCall(a, k)
  <2> DEFINE k == [layer |-> "logic", fn |-> "push", arg |-> m, st |-> st]
  <2>2. k.layer = "logic" /\ k.fn = "push" /\ k.arg = m /\ k.st = st OBVIOUS
  <2>3. k \in CallTypes BY <1>1 DEF CallTypes
  <2> HIDE DEF k
  <2>4. k \in Calls BY <2>2, <2>3 DEF Calls, Outward
  <2>5. Harmless(k) BY <2>2, <2>4, KindOf, NeutralIs DEF Harmless
  <2>6. \A a : NameCall(a, k) BY <2>2 DEF NameCall, Outward
  <2> QED BY <2>5, <2>6 DEF k
<1>5. ASSUME NEW m \in Messages
      PROVE  LET k == [layer |-> "logic", fn |-> "pull", arg |-> m, st |-> "OK"]
             IN  Harmless(k) /\ (\A a : NameCall(a, k) <=> Names(a, m))
  <2> DEFINE k == [layer |-> "logic", fn |-> "pull", arg |-> m, st |-> "OK"]
  <2>2. k.layer = "logic" /\ k.fn = "pull" /\ k.arg = m /\ k.st = "OK" OBVIOUS
  <2>3. k \in CallTypes BY <1>1 DEF CallTypes
  <2> HIDE DEF k
  <2>4. k \in Calls BY <2>2, <2>3 DEF Calls, Outward
  <2>5. Harmless(k) BY <2>2, <2>4, KindOf, NeutralIs DEF Harmless
  <2>6. \A a : NameCall(a, k) <=> Names(a, m) BY <2>2 DEF NameCall, Outward
  <2> QED BY <2>5, <2>6 DEF k
<1>6. ASSUME NEW m \in Seq(Messages)
      PROVE  LET k == [layer |-> "codec", fn |-> "pull", arg |-> m, st |-> "OK"]
             IN  Harmless(k) /\ (\A a : NameCall(a, k) <=> AllName(a, m))
  <2> DEFINE k == [layer |-> "codec", fn |-> "pull", arg |-> m, st |-> "OK"]
  <2>2. k.layer = "codec" /\ k.fn = "pull" /\ k.arg = m /\ k.st = "OK" OBVIOUS
  <2>3. k \in CallTypes BY <1>1 DEF CallTypes
  <2> HIDE DEF k
  <2>4. k \in Calls BY <2>2, <2>3 DEF Calls, Outward
  <2>5. Harmless(k) BY <2>2, <2>4, KindOf, NeutralIs DEF Harmless
  <2>6. \A a : NameCall(a, k) <=> AllName(a, m) BY <2>2 DEF NameCall, Outward
  <2> QED BY <2>5, <2>6 DEF k
<1> QED BY <1>2, <1>3, <1>4, <1>5, <1>6

(* Deferring a harmless call,                                               *)
LEMMA SaidPosts ==
  ASSUME NEW a \in Memory, a.abort = "none", Sound(a), ~Starting(a), NEW b, NEW from, NEW k,
         Said(a, b, from, k), Harmless(k)
  PROVE  Posted(a, b, {k})
<1>1. k \in Calls BY DEF Harmless
<1>2. Edits(a, b, SideFields \cup {"calls"}) BY DEF Said, Edits, SideFields
<1>3. Grows(a.calls, b.calls, {k}) BY <1>1, FieldsOf, GrowsAppend DEF Said
<1>4. \A i \in {k} : Harmless(i) OBVIOUS
<1> QED BY <1>2, <1>3, <1>4, Posts

(* or the one that passes a message on.                                     *)
LEMMA SaidOrToken ==
  ASSUME NEW a \in Memory, a.abort = "none", Sound(a), ~Starting(a), NEW b, NEW from, NEW k,
         Said(a, b, from, k), k \in Calls,
         \/ Harmless(k)
         \/ /\ k \in Tokens /\ a.data["codec"] /\ ~Has(a.calls, Tokens)
            /\ a.io # "blocked" /\ a.queue # <<>>
  PROVE  Posted(a, b, {k})
BY SaidPosts, TokenPosts

(* xi_layer_continue_with, for a message.                                   *)
LEMMA SayPosts ==
  ASSUME NEW a \in Memory, a.abort = "none", Sound(a), ~Starting(a), NEW from \in Layers, NEW to \in Layers,
         NEW fn, NEW arg, NEW st, NEW k, k = [layer |-> to, fn |-> fn, arg |-> arg, st |-> st],
         \/ Harmless(k)
         \/ /\ k \in Calls /\ k \in Tokens /\ a.data["codec"] /\ ~Has(a.calls, Tokens)
            /\ a.io # "blocked" /\ a.queue # <<>>,
         NEW b, b = ContinueWith(a, from, fn, to, arg, st)
  PROVE  Posted(a, b, {k}) /\ Said(a, b, from, k)
<1>1. k \in Calls BY DEF Harmless
<1>2. Said(a, b, from, k)
  BY ONLY k = [layer |-> to, fn |-> fn, arg |-> arg, st |-> st], <1>1, a \in Memory, from \in Layers,
          to \in Layers, b = ContinueWith(a, from, fn, to, arg, st), SaidIs
<1>3. \/ Harmless(k)
      \/ /\ k \in Tokens /\ a.data["codec"] /\ ~Has(a.calls, Tokens)
         /\ a.io # "blocked" /\ a.queue # <<>>
  OBVIOUS
<1>4. Posted(a, b, {k})
  BY ONLY <1>1, <1>2, <1>3, a \in Memory, a.abort = "none", Sound(a), ~Starting(a), SaidOrToken
<1> QED BY <1>2, <1>4

(* A message keeps its task in the next layer.                              *)
LEMMA PostedKeeps ==
  ASSUME NEW a, NEW b, NEW k, Posted(a, b, {k}), MailIn(a), NameCall(a, k)
  PROVE  Keeps(a, b) /\ MailIn(b)
BY HoldsStays DEF Posted

(* The codec layer queues a message, hands the next one on, or learns what  *)
(* became of the last one.                                                  *)
SendNext(e) == IF e.queue = <<>> THEN e ELSE OnPrev(e, "codec", "push", Head(e.queue), "OK")

(* The codec layer passes the next message on.                              *)
LEMMA SendNextHolds ==
  ASSUME NEW a \in Memory, a.abort = "none", Sound(a), ~Starting(a), a.data["codec"],
         ~Has(a.calls, Tokens), a.io # "blocked"
  PROVE  Holds(a, SendNext(a)) /\ Keeps(a, SendNext(a))
<1> DEFINE m == Head(a.queue)
           b == SendNext(a)
           k == [layer |-> "io", fn |-> "push", arg |-> m, st |-> "OK"]
<1>1. CASE a.queue = <<>>
  <2>1. b = a BY <1>1 DEF SendNext
  <2> QED BY <2>1, KeepsSame DEF Holds
<1>2. CASE a.queue # <<>>
  <2>1. m \in OutMessages /\ m = a.queue[1] /\ 1 \in 1 .. Len(a.queue)
    BY <1>2, FieldsOf
  <2>2. b = ContinueWith(a, "codec", "push", "io", m, "OK") BY <1>2 DEF SendNext, OnPrev, Prev
  <2>3. k = [layer |-> "io", fn |-> "push", arg |-> m, st |-> "OK"] OBVIOUS
  <2>4. k \in Calls /\ k \in Tokens /\ \A e : NameCall(e, k) <=> Names(e, m) BY <2>1, MessageCalls
  <2>5. "codec" \in Layers /\ "io" \in Layers BY DEF Layers
  <2> HIDE DEF b, k, m
  <2>6. Posted(a, b, {k})
    BY ONLY <1>2, <2>2, <2>3, <2>4, <2>5, a \in Memory, a.abort = "none", Sound(a), ~Starting(a), a.data["codec"],
            ~Has(a.calls, Tokens), a.io # "blocked", SayPosts
  <2>7. MailIn(a) => NameCall(a, k) BY <2>1, <2>4 DEF MailIn, AllName
  <2>8. Keeps(a, b) BY <2>6, <2>7 DEF Posted
  <2> QED BY <2>6, <2>8 DEF Posted, b
<1> QED BY <1>1, <1>2

(* xi_mqtt_codec_layer_push.                                                *)
LEMMA CodecPushStays ==
  ASSUME c \in Memory, Running, Sound(c), CodecPush
  PROVE  Stays(c, c')
<1> DEFINE a == Popped
           m == Call.arg
           st == Call.st
           q == Append(a.queue, m)
           b == [a EXCEPT !.queue = q]
           h == Head(a.queue)
           r == Tail(a.queue)
           e == [a EXCEPT !.queue = r]
           d == ContinueWith(e, "codec", "push", "logic", h, st)
           k == [layer |-> "logic", fn |-> "push", arg |-> h, st |-> st]
<1>1. /\ Called("codec", "push")
      /\ c' = IF NotOperational(a, "codec") \/ ~a.data["codec"] THEN a
              ELSE IF st = "OK" THEN IF a.queue = <<>> THEN SendNext(b) ELSE b
              ELSE SendNext(d)
  BY DEF CodecPush, Becomes, CodecPushHandler, SendNext, OnSucc, Succ
<1>2. /\ a \in Memory /\ Popped1(c, a, Call) /\ Call.layer = "codec" /\ Call.fn = "push" /\ Call \in Calls
      /\ c.abort = "none" /\ a.abort = "none" /\ a.data = c.data
  BY <1>1, CalledIs
<1>3. Call \notin Inits /\ Call \notin Users /\ (Call \in Tokens <=> st # "OK") BY <1>2, KindOf
<1>4. Stays(c, a) /\ Sound(a) /\ ~Starting(a) BY <1>1, <1>3, CalledStays
<1>5. st \in {"OK", "WRITTEN", "FAILED"} /\ (st = "OK" => m \in OutMessages) BY <1>2 DEF Calls, Outward
<1>6. b = [a EXCEPT !.queue = q] /\ e = [a EXCEPT !.queue = r] OBVIOUS
<1>7. d = ContinueWith(e, "codec", "push", "logic", h, st) OBVIOUS
<1>8. k = [layer |-> "logic", fn |-> "push", arg |-> h, st |-> st] OBVIOUS
<1>9. Holds(c, a) /\ (MailIn(c) => MailIn(a)) /\ Keeps(c, a) BY <1>2, <1>4, HoldsStays
<1>10. MailIn(c) /\ st = "OK" => Names(a, m)
  <2>1. Mail(c) /\ st = "OK" => Names(c, m)
    <3>1. c.calls \in Seq(Calls) /\ c.calls # <<>> BY <1>1, FieldsOf DEF Called
    <3>2. 1 \in 1 .. Len(c.calls) /\ c.calls[1] = Call BY <3>1 DEF Call
    <3>3. st = "OK" => Outward(Call) BY <1>2 DEF Outward
    <3> QED BY <3>2, <3>3 DEF Mail
  <2>2. MailSame(c, a)
    <3>1. \A f \in Fields \ {"calls"} : a[f] = c[f] BY <1>2 DEF Popped1, Edits
    <3> QED BY <3>1 DEF MailSame, Fields
  <2> QED BY <2>1, <2>2, MailNames DEF MailIn
<1> HIDE DEF a, m, st, q, b, h, r, e, d, k
<1>11. CASE NotOperational(a, "codec") \/ ~a.data["codec"]
  BY <1>1, <1>4, <1>11
<1>12. CASE a.data["codec"] /\ ~NotOperational(a, "codec") /\ st = "OK"
  <2>1. m \in OutMessages /\ a.queue \in Seq(OutMessages) BY <1>2, <1>5, <1>12, FieldsOf
  <2>2. q \in Seq(OutMessages) /\ q # <<>> BY <2>1 DEF q
  <2>3. Edits(a, b, {"queue"}) /\ b.queue = q BY ONLY <2>2, <1>2, <1>6, EditQueue
  <2>4. Edits(a, b, LowFields) /\ b.data = a.data /\ b.io = a.io /\ b.calls = a.calls /\ b \in Memory
    BY <2>3 DEF Edits, LowFields, Fields
  <2>5. CodecInv(b) BY <2>2, <2>3, <2>4, <1>4, <1>12 DEF Sound, Fit, CodecInv
  <2>6. /\ Holds(a, b) /\ b.abort = "none" /\ ~Starting(b)
        /\ (MailIn(a) => AllName(a, b.queue)) => Keeps(a, b)
    <3>1. /\ b.data["logic"] = a.data["logic"] /\ b.data["top"] = a.data["top"]
          /\ b.data["codec"] => a.data["codec"]
          /\ b.data["io"] => a.data["io"]
          /\ b.io # "connecting"
          /\ b.data["io"] => b.data["codec"]
          /\ ~b.data["io"] => b.io = "idle"
          /\ ~b.data["codec"] => b.queue = <<>>
      BY <2>4, <1>4, <1>12 DEF Sound, Fit, DataInv, Starting
    <3> QED BY ONLY <3>1, <2>4, <2>5, <1>2, <1>4, LowHolds
  <2>7. Holds(c, b) BY <1>9, <2>6, HoldsTrans
  <2>8. MailIn(c) => Keeps(c, b) /\ MailIn(b)
    <3> SUFFICES ASSUME MailIn(c) PROVE Keeps(c, b) /\ MailIn(b) OBVIOUS
    <3>1. MailIn(a) /\ Names(a, m) BY <1>9, <1>10, <1>12
    <3>2. AllName(a, q)
      <4>1. AllName(a, a.queue) BY <3>1 DEF MailIn
      <4> QED BY <4>1, <3>1, <2>1 DEF AllName, q
    <3>3. Keeps(a, b) BY <3>2, <2>3, <2>6
    <3>4. Keeps(c, b) BY <3>3, <1>9, KeepsTrans
    <3> QED BY <3>4, HoldsStays
  <2>9. Stays(c, b) BY <2>7, <2>8, HoldsStays
  <2>10. CASE a.queue # <<>> BY <2>9, <2>10, <1>1, <1>12
  <2>11. CASE a.queue = <<>>
    <3>1. ~Has(b.calls, Tokens) /\ b.io # "blocked"
      BY <2>4, <2>11, <1>4, <1>12 DEF Sound, Fit, CodecInv
    <3>2. Holds(b, SendNext(b)) /\ Keeps(b, SendNext(b))
      BY <3>1, <2>4, <2>6, <2>9, <1>12, SendNextHolds DEF Holds
    <3>3. Stays(b, SendNext(b)) BY <3>2, HoldsStays
    <3> QED BY <3>3, <2>9, <2>11, <1>1, <1>12, StaysTrans
  <2> QED BY <2>10, <2>11
<1>13. CASE a.data["codec"] /\ ~NotOperational(a, "codec") /\ st # "OK"
  <2>1. /\ ~Has(a.calls, Tokens) /\ a.io # "blocked" /\ a.queue # <<>>
    <3>1. Plus(c.calls, a.calls, Call, Tokens) BY <1>2 DEF Popped1, Sums
    <3>2. a.io = c.io /\ a.queue = c.queue BY <1>2 DEF Popped1, Edits, Fields
    <3> QED BY <3>1, <3>2, <1>2, <1>3, <1>13 DEF Sound, Fit, CodecInv, Plus
  <2>2. a.queue \in Seq(OutMessages) /\ h \in OutMessages /\ r \in Seq(OutMessages)
    BY <2>1, <1>2, FieldsOf DEF h, r
  <2>3. h \in Messages BY <2>2 DEF OutMessages
  <2>4. Edits(a, e, {"queue"}) /\ e.queue = r BY ONLY <2>2, <1>2, <1>6, EditQueue
  <2>5. Edits(a, e, LowFields) /\ e.data = a.data /\ e.io = a.io /\ e.calls = a.calls /\ e \in Memory
    BY <2>4 DEF Edits, LowFields, Fields
  <2>6. CodecInv(e) BY <2>1, <2>5, <1>4, <1>13 DEF Sound, Fit, CodecInv
  <2>7. /\ Holds(a, e) /\ e.abort = "none" /\ ~Starting(e)
        /\ (MailIn(a) => AllName(a, e.queue)) => Keeps(a, e)
    <3>1. /\ e.data["logic"] = a.data["logic"] /\ e.data["top"] = a.data["top"]
          /\ e.data["codec"] => a.data["codec"]
          /\ e.data["io"] => a.data["io"]
          /\ e.io # "connecting"
          /\ e.data["io"] => e.data["codec"]
          /\ ~e.data["io"] => e.io = "idle"
          /\ ~e.data["codec"] => e.queue = <<>>
      BY <2>5, <1>4, <1>13 DEF Sound, Fit, DataInv, Starting
    <3> QED BY ONLY <3>1, <2>5, <2>6, <1>2, <1>4, LowHolds
  <2>8. AllName(a, a.queue) => AllName(a, r) BY <2>1, <2>2 DEF AllName, r
  <2>9. Keeps(a, e) BY <2>4, <2>7, <2>8 DEF MailIn
  <2>10. Stays(a, e) BY <2>7, <2>9, HoldsStays
  <2>11. Sound(e) BY <2>7, HoldsStays
  <2>12. Harmless(k) /\ \A x : NameCall(x, k)
    <3>1. st \in {"WRITTEN", "FAILED"} BY <1>5, <1>13
    <3> QED BY <3>1, <2>3, <1>8, MessageCalls
  <2>13. Posted(e, d, {k}) /\ Said(e, d, "codec", k)
    <3>1. "codec" \in Layers /\ "logic" \in Layers BY DEF Layers
    <3> QED BY ONLY <3>1, <2>5, <2>7, <2>11, <2>12, <1>7, <1>8, SayPosts
  <2>14. Holds(e, d) /\ d.abort = "none" /\ ~Starting(d) /\ Keeps(e, d) BY <2>12, <2>13 DEF Posted
  <2>15. Stays(e, d) /\ Sound(d) BY <2>14, HoldsStays
  <2>16. d \in Memory /\ d.data = e.data /\ d.io = e.io BY <2>13 DEF Said, Edits, Fields
  <2>17. ~Has(d.calls, Tokens)
    <3>1. d.calls = Append(e.calls, k) /\ k \in Calls BY <2>12, <2>13 DEF Said, Harmless
    <3>2. Sums(d.calls, e.calls, k) BY <3>1, <2>5, AppendSums
    <3> QED BY <3>2, <2>1, <2>5, <2>12 DEF Sums, Plus, Harmless
  <2>18. Holds(d, SendNext(d)) /\ Keeps(d, SendNext(d))
    BY <2>1, <2>5, <2>14, <2>15, <2>16, <2>17, <1>13, SendNextHolds
  <2>19. Stays(d, SendNext(d)) BY <2>18, HoldsStays
  <2>20. Stays(c, SendNext(d)) BY <1>4, <2>10, <2>15, <2>19, StaysTrans
  <2> QED BY <2>20, <1>1, <1>13
<1> QED BY <1>5, <1>11, <1>12, <1>13
-----------------------------------------------------------------------------
(* The message of the call that is executed names its task.                 *)
LEMMA CallNames ==
  ASSUME c \in Memory, Running, Sound(c), NEW l, NEW fn, Called(l, fn), MailIn(c)
  PROVE  MailIn(Popped) /\ NameCall(Popped, Call) /\ Keeps(c, Popped)
<1>1. Popped1(c, Popped, Call) BY CalledIs
<1>2. Keeps(c, Popped) BY <1>1, PopKeeps
<1>3. c.calls \in Seq(Calls) /\ c.calls # <<>> BY FieldsOf DEF Called
<1>4. 1 \in 1 .. Len(c.calls) /\ c.calls[1] = Call BY <1>3 DEF Call
<1>5. NameCall(c, Call) BY <1>4, MailIs DEF MailIn
<1>6. MailSame(c, Popped)
  <2>1. \A f \in Fields \ {"calls"} : Popped[f] = c[f] BY <1>1 DEF Popped1, Edits
  <2> QED BY <2>1 DEF MailSame, Fields
<1>7. NameCall(Popped, Call) BY <1>5, <1>6, MailNames DEF NameCall
<1> QED BY <1>2, <1>7, HoldsStays

(* One call of the next layer for each message.                             *)
Each(to, fn, ms, st) == {[layer |-> to, fn |-> fn, arg |-> ms[i], st |-> st] : i \in 1 .. Len(ms)}

(* A function is deferred for each message of a list.                       *)
LEMMA EachIs ==
  ASSUME NEW a \in Memory, NEW T, NEW ms \in Seq(T), NEW l, NEW fn, NEW st, NEW b,
         b = OnSuccEach(a, l, fn, ms, st), Each(Succ(l), fn, ms, st) \subseteq Calls
  PROVE  Edits(a, b, {"calls"}) /\ Grows(a.calls, b.calls, Each(Succ(l), fn, ms, st))
<1> DEFINE K == Each(Succ(l), fn, ms, st)
           s == [k \in DOMAIN ms |-> [layer |-> Succ(l), fn |-> fn, arg |-> ms[k], st |-> st]]
<1>1. b = [a EXCEPT !.calls = a.calls \o s] BY DEF OnSuccEach
<1>2. DOMAIN ms = 1 .. Len(ms) /\ Len(ms) \in Nat OBVIOUS
<1>3. \A i \in 1 .. Len(ms) : s[i] \in K BY <1>2 DEF Each
<1>4. DOMAIN s = 1 .. Len(ms) BY <1>2
<1>5. s \in [1 .. Len(ms) -> Calls]
  <2>1. s = [k \in 1 .. Len(ms) |-> [layer |-> Succ(l), fn |-> fn, arg |-> ms[k], st |-> st]] BY <1>2
  <2>2. \A i \in 1 .. Len(ms) : s[i] \in Calls BY <1>3
  <2> QED BY <2>1, <2>2
<1> HIDE DEF s, K
<1>6. s \in Seq(Calls) /\ Len(s) = Len(ms) BY <1>2, <1>5
<1>7. Only(s, K) BY <1>3, <1>6 DEF Only
<1>8. a.calls \in Seq(Calls) BY FieldsOf
<1>9. a.calls \o s \in Seq(Calls) BY <1>6, <1>8
<1>10. Edits(a, b, {"calls"}) /\ b.calls = a.calls \o s BY ONLY <1>1, <1>9, a \in Memory, EditCalls
<1>11. Grows(a.calls, b.calls, K) BY <1>6, <1>7, <1>8, <1>10, GrowsConcat
<1> QED BY <1>10, <1>11 DEF K

(* xi_mqtt_codec_layer_pull.                                                *)
LEMMA CodecPullStays ==
  ASSUME c \in Memory, Running, Sound(c), CodecPull
  PROVE  Stays(c, c')
<1> DEFINE a == Popped
           ms == Call.arg
           b == OnSuccEach(a, "codec", "pull", ms, "OK")
           K == Each("logic", "pull", ms, "OK")
<1>1. /\ Called("codec", "pull")
      /\ c' = IF NotOperational(a, "codec") \/ ~a.data["codec"] THEN a ELSE b
  BY DEF CodecPull, Becomes, CodecPullHandler
<1>2. /\ a \in Memory /\ Popped1(c, a, Call) /\ Call.layer = "codec" /\ Call.fn = "pull" /\ Call \in Calls
      /\ c.abort = "none" /\ a.abort = "none"
  BY <1>1, CalledIs
<1>3. Call \notin Inits /\ Call \notin Users BY <1>2, KindOf
<1>4. Stays(c, a) /\ Sound(a) /\ ~Starting(a) BY <1>1, <1>3, CalledStays
<1>5. ms \in Seq(Messages) BY <1>2 DEF Calls
<1>6. MailIn(c) => MailIn(a) /\ NameCall(a, Call) BY <1>1, CallNames
<1>7. b = OnSuccEach(a, "codec", "pull", ms, "OK") /\ Succ("codec") = "logic" BY DEF Succ
<1> HIDE DEF a, ms, b
<1>8. \A k \in K : Harmless(k) /\ (MailIn(c) => NameCall(a, k))
  <2> SUFFICES ASSUME NEW i \in 1 .. Len(ms)
               PROVE  LET k == [layer |-> "logic", fn |-> "pull", arg |-> ms[i], st |-> "OK"]
                      IN  Harmless(k) /\ (MailIn(c) => NameCall(a, k))
    BY DEF Each
  <2>1. ms[i] \in Messages BY <1>5
  <2>2. MailIn(c) => Names(a, ms[i]) BY <1>2, <1>6 DEF NameCall, AllName, ms
  <2> QED BY <2>1, <2>2, MessageCalls
<1>9. Edits(a, b, {"calls"}) /\ Grows(a.calls, b.calls, K)
  <2>1. Each(Succ("codec"), "pull", ms, "OK") \subseteq Calls BY <1>7, <1>8 DEF Harmless
  <2> QED BY <2>1, <1>2, <1>5, <1>7, EachIs
<1> HIDE DEF K
<1>10. Posted(a, b, K)
  <2>1. Edits(a, b, SideFields \cup {"calls"}) BY <1>9 DEF Edits
  <2> QED BY <2>1, <1>2, <1>4, <1>8, <1>9, Posts
<1>11. Stays(c, b)
  <2>1. Holds(c, b) BY <1>4, <1>10, HoldsStays, HoldsTrans DEF Posted
  <2>2. MailIn(c) => Keeps(c, b)
    <3>1. MailIn(c) => Keeps(a, b) BY <1>8, <1>10 DEF Posted
    <3>2. Keeps(c, a) BY <1>2, PopKeeps
    <3> QED BY <3>1, <3>2, KeepsTrans
  <2> QED BY <2>1, <2>2, HoldsStays
<1> QED BY <1>1, <1>4, <1>11

(* xi_mqtt_codec_layer_close_externally.                                    *)
LEMMA CodecCloseExternallyStays ==
  ASSUME c \in Memory, Running, Sound(c), CodecCloseExternally
  PROVE  Stays(c, c')
<1> DEFINE a == Popped
           st == Call.st
           e1 == [a EXCEPT !.data["codec"] = FALSE]
           e == [e1 EXCEPT !.queue = <<>>]
           g == [a EXCEPT !.queue = <<>>]
           f == OnSuccEach(g, "codec", "push", a.queue, "FAILED")
           d == [f EXCEPT !.data["codec"] = FALSE]
           K == Each("logic", "push", a.queue, "FAILED")
<1>1. Called("codec", "close_externally") /\ c' = ContinueWith(d, "codec", "close_externally", "logic", NoMsg, st)
  BY DEF CodecCloseExternally, Becomes, ClearTaskQueue, OnSucc, Succ
<1>2. /\ a \in Memory /\ Popped1(c, a, Call) /\ Call.layer = "codec" /\ Call.fn = "close_externally"
      /\ Call \in Calls /\ c.abort = "none" /\ a.abort = "none" /\ a.data = c.data /\ st \in Statuses
  BY <1>1, CalledIs
<1>3. Call \notin Inits /\ Call \notin Users /\ Call \in Gone("codec") BY <1>2, KindOf
<1>4. Stays(c, a) /\ Sound(a) /\ ~Starting(a) BY <1>1, <1>3, CalledStays
<1>5. ~a.data["io"]
  <2>1. Plus(c.calls, a.calls, Call, Gone("codec")) BY <1>2 DEF Popped1, Sums
  <2> QED BY <2>1, <1>2, <1>3 DEF Plus, Sound, Fit, EndInv
<1>6. e1 = [a EXCEPT !.data["codec"] = FALSE] /\ e = [e1 EXCEPT !.queue = <<>>] /\ g = [a EXCEPT !.queue = <<>>]
  OBVIOUS
<1>7. f = OnSuccEach(g, "codec", "push", a.queue, "FAILED") /\ Succ("codec") = "logic" BY DEF Succ
<1>8. d = [f EXCEPT !.data["codec"] = FALSE] OBVIOUS
<1> HIDE DEF a, st, e1, e, g, f, d
<1>9. {"codec", "logic", "io", "top"} \subseteq Layers /\ FALSE \in BOOLEAN BY DEF Layers
<1>10. SetData(a, e1, "codec", FALSE)
  <2>1. "codec" \in Layers BY <1>9
  <2> QED BY ONLY <2>1, <1>2, <1>6, <1>9, DataOf
<1>11. e1 \in Memory /\ <<>> \in Seq(OutMessages) BY <1>10 DEF SetData
<1>12. Edits(e1, e, {"queue"}) /\ e.queue = <<>> BY ONLY <1>6, <1>11, EditQueue
<1>13. Edits(a, g, {"queue"}) /\ g.queue = <<>> BY ONLY <1>2, <1>6, <1>11, EditQueue
<1>14. a.queue \in Seq(OutMessages) /\ \A m \in OutMessages : m \in Messages BY <1>2, FieldsOf DEF OutMessages
<1>15. \A k \in K : Harmless(k) /\ \A x : NameCall(x, k)
  <2> SUFFICES ASSUME NEW i \in 1 .. Len(a.queue)
               PROVE  LET k == [layer |-> "logic", fn |-> "push", arg |-> a.queue[i], st |-> "FAILED"]
                      IN  Harmless(k) /\ \A x : NameCall(x, k)
    BY DEF Each
  <2>1. a.queue[i] \in Messages BY <1>14
  <2> QED BY <2>1, MessageCalls
<1>16. Edits(g, f, {"calls"}) /\ Grows(g.calls, f.calls, K)
  <2>1. Each(Succ("codec"), "push", a.queue, "FAILED") \subseteq Calls BY <1>7, <1>15 DEF Harmless
  <2>2. g \in Memory BY <1>13 DEF Edits
  <2> QED BY <2>1, <2>2, <1>7, <1>14, EachIs
<1> HIDE DEF K
<1>17. SetData(f, d, "codec", FALSE)
  <2>1. f \in Memory /\ "codec" \in Layers BY <1>9, <1>16 DEF Edits
  <2> QED BY ONLY <2>1, <1>8, <1>9, DataOf
<1>18. /\ e \in Memory /\ e.data = e1.data /\ ~e.data["codec"] /\ e.data["io"] = a.data["io"]
       /\ e.data["logic"] = a.data["logic"] /\ e.data["top"] = a.data["top"] /\ e.io = a.io
       /\ Edits(a, e, LowFields)
  BY <1>9, <1>10, <1>12 DEF SetData, Edits, LowFields, Fields
<1>19. Stays(a, e) /\ e.abort = "none" /\ ~Starting(e)
  <2>1. CodecInv(e) BY <1>18 DEF CodecInv
  <2>2. /\ e.data["codec"] => a.data["codec"]
        /\ e.data["io"] => a.data["io"]
        /\ e.io # "connecting"
        /\ e.data["io"] => e.data["codec"]
        /\ ~e.data["io"] => e.io = "idle"
        /\ ~e.data["codec"] => e.queue = <<>>
    BY <1>4, <1>5, <1>12, <1>18 DEF Sound, Fit, DataInv
  <2>3. /\ Holds(a, e) /\ e.abort = "none" /\ ~Starting(e)
        /\ (MailIn(a) => AllName(a, e.queue)) => Keeps(a, e)
    BY ONLY <2>1, <2>2, <1>2, <1>4, <1>18, LowHolds
  <2>4. AllName(a, e.queue) BY <1>12 DEF AllName
  <2> QED BY <2>3, <2>4, HoldsStays
<1>20. Sound(e) BY <1>19 DEF Stays
<1>21. Edits(e, d, {"calls"}) /\ d.calls = f.calls /\ e.calls = g.calls
  <2>1. \A x \in Fields \ {"calls", "data", "queue"} : d[x] = a[x]
    BY <1>13, <1>16, <1>17 DEF SetData, Edits
  <2>2. \A x \in Fields \ {"data", "queue"} : e[x] = a[x] BY <1>10, <1>12 DEF SetData, Edits
  <2>3. d.queue = <<>> /\ d.calls = f.calls BY <1>13, <1>16, <1>17 DEF SetData, Edits, Fields
  <2>4. d.data = e.data
    <3>1. d.data \in [Layers -> BOOLEAN] /\ e.data \in [Layers -> BOOLEAN]
      <4>1. d \in Memory BY <1>17 DEF SetData
      <4> QED BY <4>1, <1>18, FieldsOf
    <3>2. f.data = a.data BY <1>13, <1>16 DEF Edits, Fields
    <3>3. \A l \in Layers : d.data[l] = e.data[l] BY <1>10, <1>17, <1>18, <3>2 DEF SetData
    <3> QED BY <3>1, <3>3
  <2>5. e.calls = a.calls /\ g.calls = a.calls BY <2>2, <1>13 DEF Edits, Fields
  <2>6. d \in Memory BY <1>17 DEF SetData
  <2> QED BY <2>1, <2>2, <2>3, <2>4, <2>5, <2>6, <1>12 DEF Edits, Fields
<1>22. Posted(e, d, K)
  <2>1. Edits(e, d, SideFields \cup {"calls"}) BY <1>21 DEF Edits
  <2> QED BY <2>1, <1>15, <1>16, <1>18, <1>19, <1>20, <1>21, Posts
<1>23. Stays(e, d) /\ Sound(d) /\ d.abort = "none" /\ ~Starting(d)
  BY <1>15, <1>22, HoldsStays DEF Posted
<1>24. ~d.data["codec"] /\ d \in Memory BY <1>17 DEF SetData
<1>25. Stays(d, c')
  <2>1. "codec" \in Layers /\ "logic" \in Layers BY <1>9
  <2> QED BY <2>1, <1>1, <1>2, <1>23, <1>24, SayStays
<1> QED BY <1>4, <1>19, <1>23, <1>25, StaysTrans

(* xi_io_net_layer_push, for the message at the head of the queue.          *)
LEMMA IoWriteStays ==
  ASSUME NEW a \in Memory, a.abort = "none", Sound(a), ~Starting(a), a.data["io"],
         ~Has(a.calls, Tokens), a.queue # <<>>, NEW m, IoWrite(a, m)
  PROVE  Stays(a, c')
<1> DEFINE e == [a EXCEPT !.io = "idle"]
           b == [a EXCEPT !.io = "blocked"]
           k == [layer |-> "codec", fn |-> "push", arg |-> NoMsg, st |-> "WRITTEN"]
<1>1. \/ c' = ContinueWith(e, "io", "push", "codec", NoMsg, "WRITTEN")
      \/ c' = b
      \/ c' = ContinueWith(e, "io", "close_externally", "io", NoMsg, "ERR")
  BY DEF IoWrite, OnSucc, OnThis, Succ
<1>2. e = [a EXCEPT !.io = "idle"] /\ b = [a EXCEPT !.io = "blocked"]
      /\ "idle" \in {"idle", "connecting", "blocked"} /\ "blocked" \in {"idle", "connecting", "blocked"}
  OBVIOUS
<1>3. k = [layer |-> "codec", fn |-> "push", arg |-> NoMsg, st |-> "WRITTEN"] OBVIOUS
<1>4. k \in Calls /\ k \in Tokens /\ \A x : NameCall(x, k) BY MessageCalls
<1> HIDE DEF e, b, k
<1>5. Edits(a, e, {"io"}) /\ e.io = "idle" BY ONLY <1>2, a \in Memory, EditIo
<1>6. Edits(a, b, {"io"}) /\ b.io = "blocked" BY ONLY <1>2, a \in Memory, EditIo
<1>7. Stays(a, e) /\ e.abort = "none" BY <1>5, IoStays
<1>8. Stays(a, b) /\ b.abort = "none" BY <1>6, IoStays
<1>9. /\ e \in Memory /\ e.data = a.data /\ e.calls = a.calls /\ e.queue = a.queue
  BY <1>5 DEF Edits, Fields
<1>10. Sound(e) /\ ~Starting(e) /\ ~Has(e.calls, Tokens) /\ e.data["codec"]
  BY <1>5, <1>7, <1>9 DEF Stays, Starting, Sound, Fit, DataInv
<1>11. "io" \in Layers /\ "codec" \in Layers /\ "ERR" \in Statuses BY DEF Layers, Statuses
<1>12. CASE c' = ContinueWith(e, "io", "push", "codec", NoMsg, "WRITTEN")
  <2>1. e.io # "blocked" /\ e.queue # <<>> BY <1>5, <1>9
  <2>2. Posted(e, c', {k})
    BY ONLY <2>1, <1>3, <1>4, <1>7, <1>9, <1>10, <1>11, <1>12, SayPosts
  <2>3. Stays(e, c') BY <2>2, <1>4, HoldsStays DEF Posted
  <2> QED BY <2>3, <1>7, StaysTrans
<1>13. CASE c' = ContinueWith(e, "io", "close_externally", "io", NoMsg, "ERR")
  <2>1. Stays(e, c') BY <1>7, <1>9, <1>10, <1>11, <1>13, SayStays
  <2> QED BY <2>1, <1>7, StaysTrans
<1> QED BY <1>1, <1>8, <1>12, <1>13

(* xi_io_net_layer_push.                                                    *)
LEMMA IoPushStays ==
  ASSUME c \in Memory, Running, Sound(c), IoPush
  PROVE  Stays(c, c')
<1>1. Called("io", "push") BY DEF IoPush
<1>2. /\ Popped \in Memory /\ Popped1(c, Popped, Call) /\ Call.layer = "io" /\ Call.fn = "push"
      /\ Call \in Calls /\ c.abort = "none" /\ Popped.abort = "none" /\ Popped.data = c.data
  BY <1>1, CalledIs
<1>3. Call \notin Inits /\ Call \notin Users /\ Call \in Tokens BY <1>2, KindOf
<1>4. Stays(c, Popped) /\ Sound(Popped) /\ ~Starting(Popped) BY <1>1, <1>3, CalledStays
<1>5. CASE IoUsable(c) /\ IoWrite(Popped, Call.arg)
  <2>1. Popped.data["io"] /\ c.data["codec"] BY <1>2, <1>5 DEF IoUsable, Sound, Fit, DataInv
  <2>2. ~Has(Popped.calls, Tokens) /\ Popped.queue # <<>>
    <3>1. Plus(c.calls, Popped.calls, Call, Tokens) BY <1>2 DEF Popped1, Sums
    <3>2. Popped.queue = c.queue BY <1>2 DEF Popped1, Edits, Fields
    <3> QED BY <3>1, <3>2, <2>1, <1>3 DEF Plus, Sound, Fit, CodecInv
  <2>3. Stays(Popped, c') BY <2>1, <2>2, <1>2, <1>4, <1>5, IoWriteStays
  <2> QED BY <2>3, <1>4, StaysTrans
<1>6. CASE c' = Popped BY <1>4, <1>6
<1> QED BY <1>5, <1>6 DEF IoPush

(* The event loop runs a handler of the socket when nothing is starting.    *)
LEMMA PolledIs ==
  ASSUME c \in Memory, Running, Sound(c), PollInv("poll", c), Polled, c.io # "connecting"
  PROVE  /\ ~Starting(c) /\ c.data["io"] /\ ~Has(c.calls, Tokens) /\ ~Has(c.calls, Inits)
         /\ c.abort = "none" /\ phase = "poll"
<1>1. c.calls \in Seq(Calls) /\ Only(c.calls, Fresh) BY FieldsOf DEF PollInv
<1>2. \A i \in 1 .. Len(c.calls) : c.calls[i] \notin Inits /\ c.calls[i] \notin Tokens
  <2> SUFFICES ASSUME NEW i \in 1 .. Len(c.calls) PROVE c.calls[i] \notin Inits /\ c.calls[i] \notin Tokens
    OBVIOUS
  <2>1. c.calls[i] \in Calls /\ c.calls[i] \in Fresh BY <1>1 DEF Only
  <2> QED BY <2>1, KindOf
<1> QED BY <1>2 DEF Has, Starting, Polled, IoUsable, Running

(* The socket's handlers: it may be written again, or is reset.             *)
LEMMA SocketWritableStays ==
  ASSUME c \in Memory, Running, Sound(c), PollInv(phase, c), SocketWritable
  PROVE  Stays(c, c')
<1>1. Polled /\ phase = "poll" /\ c.io = "blocked" BY DEF SocketWritable, Polled
<1>2. ~Starting(c) /\ c.data["io"] /\ ~Has(c.calls, Tokens) /\ c.abort = "none"
  BY <1>1, PolledIs
<1>3. c.queue # <<>> BY <1>1, <1>2 DEF Sound, Fit, CodecInv, DataInv
<1>4. IoWrite(c, Head(c.queue)) BY DEF SocketWritable
<1> QED BY <1>2, <1>3, <1>4, IoWriteStays

LEMMA SocketResetStays ==
  ASSUME c \in Memory, Running, Sound(c), PollInv(phase, c), SocketReset
  PROVE  Stays(c, c')
<1>1. Polled /\ phase = "poll" /\ c.io = "idle" BY DEF SocketReset, Polled
<1>2. ~Starting(c) /\ c.abort = "none" BY <1>1, PolledIs
<1>3. "io" \in Layers /\ "ERR" \in Statuses BY DEF Layers, Statuses
<1>4. c' = ContinueWith(c, "io", "close_externally", "io", NoMsg, "ERR") BY DEF SocketReset, OnThis
<1> QED BY <1>2, <1>3, <1>4, SayStays

(* Reading takes the first messages from the network.                       *)
LEMMA SocketReadableHolds ==
  ASSUME c \in Memory, net \in Network, Running, Sound(c), PollInv(phase, c), SocketReadable
  PROVE  /\ Holds(c, c') /\ (AllName(c, net.link.back) => Keeps(c, c')) /\ c'.data = c.data /\ c'.conn = c.conn
         /\ c'.connect_handler = c.connect_handler
         /\ \E n \in 1 .. Len(net.link.back) :
              /\ net' = [net EXCEPT !.link.back = SubSeq(net.link.back, n + 1, Len(net.link.back))]
              /\ c'.calls = Append(c.calls, [layer |-> "codec", fn |-> "pull",
                                             arg |-> SubSeq(net.link.back, 1, n), st |-> "OK"])
<1>1. Polled /\ phase = "poll" /\ c.io = "idle" BY DEF SocketReadable, Polled
<1>2. ~Starting(c) /\ c.abort = "none" BY <1>1, PolledIs
<1>3. PICK n \in 1 .. Len(net.link.back) :
        /\ net' = [net EXCEPT !.link.back = SubSeq(net.link.back, n + 1, Len(net.link.back))]
        /\ c' = ContinueWith(c, "io", "pull", "codec", SubSeq(net.link.back, 1, n), "OK")
  BY DEF SocketReadable, OnSucc, Succ
<1> DEFINE ms == SubSeq(net.link.back, 1, n)
           k == [layer |-> "codec", fn |-> "pull", arg |-> ms, st |-> "OK"]
<1>4. net.link.back \in Seq(Messages) BY DEF Network
<1>5. ms \in Seq(Messages) /\ Len(ms) = n /\ \A i \in 1 .. n : ms[i] = net.link.back[i] BY <1>4
<1>6. k = [layer |-> "codec", fn |-> "pull", arg |-> ms, st |-> "OK"] OBVIOUS
<1>7. c' = ContinueWith(c, "io", "pull", "codec", ms, "OK") BY <1>3
<1> HIDE DEF ms
<1>8. Harmless(k) /\ \A a : NameCall(a, k) <=> AllName(a, ms) BY <1>5, MessageCalls
<1> HIDE DEF k
<1>9. Posted(c, c', {k}) /\ Said(c, c', "io", k)
  <2>1. "io" \in Layers /\ "codec" \in Layers BY DEF Layers
  <2> QED BY ONLY <2>1, <1>2, <1>6, <1>7, <1>8, c \in Memory, Sound(c), SayPosts
<1>10. AllName(c, net.link.back) => AllName(c, ms) BY <1>4, <1>5 DEF AllName
<1>11. AllName(c, net.link.back) => Keeps(c, c') BY <1>8, <1>9, <1>10 DEF Posted
<1>12. /\ c'.data = c.data /\ c'.conn = c.conn /\ c'.connect_handler = c.connect_handler
       /\ c'.calls = Append(c.calls, k)
  BY <1>9 DEF Said, Edits, Fields
<1> QED BY <1>3, <1>6, <1>9, <1>11, <1>12 DEF Posted, ms

(* xi_io_net_layer_close_externally.                                        *)
LEMMA IoCloseExternallyStays ==
  ASSUME c \in Memory, Running, Sound(c), IoCloseExternally
  PROVE  Stays(c, c') /\ (c'.abort = "none" => ~c'.data["io"])
<1> DEFINE a == Popped
           st == Call.st
           e == [a EXCEPT !.data["io"] = FALSE]
           d == [e EXCEPT !.io = "idle"]
<1>1. Called("io", "close_externally") /\ c' = ContinueWith(d, "io", "close_externally", "codec", NoMsg, st)
  BY DEF IoCloseExternally, OnSucc, Succ
<1>2. /\ a \in Memory /\ Popped1(c, a, Call) /\ Call.layer = "io" /\ Call.fn = "close_externally"
      /\ Call \in Calls /\ c.abort = "none" /\ a.abort = "none" /\ a.data = c.data /\ st \in Statuses
  BY <1>1, CalledIs
<1>3. Call \notin Inits /\ Call \notin Users BY <1>2, KindOf
<1>4. Stays(c, a) /\ Sound(a) /\ ~Starting(a) BY <1>1, <1>3, CalledStays
<1>5. e = [a EXCEPT !.data["io"] = FALSE] /\ d = [e EXCEPT !.io = "idle"]
      /\ "idle" \in {"idle", "connecting", "blocked"}
  OBVIOUS
<1> HIDE DEF a, st, e, d
<1>6. "io" \in Layers /\ "codec" \in Layers /\ "logic" \in Layers /\ "top" \in Layers /\ FALSE \in BOOLEAN BY DEF Layers
<1>7. SetData(a, e, "io", FALSE) BY ONLY <1>2, <1>5, <1>6, DataOf
<1>8. e \in Memory BY <1>7 DEF SetData
<1>9. Edits(e, d, {"io"}) /\ d.io = "idle" BY ONLY <1>5, <1>8, EditIo
<1>10. /\ d \in Memory /\ d.data = e.data /\ ~d.data["io"] /\ d.data["codec"] = a.data["codec"]
       /\ d.data["logic"] = a.data["logic"] /\ d.data["top"] = a.data["top"] /\ d.queue = a.queue
       /\ d.calls = a.calls /\ Edits(a, d, LowFields)
  BY <1>6, <1>7, <1>9 DEF SetData, Edits, LowFields, Fields
<1>11. Stays(a, d) /\ d.abort = "none" /\ ~Starting(d)
  <2>1. CodecInv(d) BY <1>4, <1>9, <1>10 DEF Sound, Fit, CodecInv
  <2>2. /\ d.data["codec"] => a.data["codec"]
        /\ d.data["io"] => a.data["io"]
        /\ d.io # "connecting"
        /\ d.data["io"] => d.data["codec"]
        /\ ~d.data["io"] => d.io = "idle"
        /\ ~d.data["codec"] => d.queue = <<>>
    BY <1>4, <1>9, <1>10 DEF Sound, Fit, DataInv
  <2>3. /\ Holds(a, d) /\ d.abort = "none" /\ ~Starting(d)
        /\ (MailIn(a) => AllName(a, d.queue)) => Keeps(a, d)
    BY ONLY <2>1, <2>2, <1>2, <1>4, <1>10, LowHolds
  <2>4. MailIn(a) => AllName(a, d.queue) BY <1>10 DEF MailIn
  <2> QED BY <2>3, <2>4, HoldsStays
<1>12. Stays(d, c')
  <2>1. Sound(d) BY <1>11 DEF Stays
  <2> QED BY <2>1, <1>1, <1>2, <1>6, <1>10, <1>11, SayStays
<1>13. ~c'.data["io"]
  <2> DEFINE k == [layer |-> "codec", fn |-> "close_externally", arg |-> NoMsg, st |-> st]
  <2>1. k \in Calls BY <1>2, <1>6, QuietCall
  <2>2. k = [layer |-> "codec", fn |-> "close_externally", arg |-> NoMsg, st |-> st] OBVIOUS
  <2> HIDE DEF k
  <2>3. Said(d, c', "io", k) BY ONLY <2>1, <2>2, <1>1, <1>6, <1>10, SaidIs
  <2> QED BY <2>3, <1>10 DEF Said, Edits, Fields
<1> QED BY <1>4, <1>11, <1>12, <1>13, StaysTrans
-----------------------------------------------------------------------------
(* A step that may change the fate of the task x, as Change says.           *)
Does(a, b, x, may) ==
  /\ b \in Memory
  /\ b.abort = "none" =>
       /\ a.abort = "none" /\ Sound(b) /\ (Less(a) => Keeps(a, b))
       /\ \A t \in UserTasks \ {x} : Fate(b, t) = Fate(a, t)
  /\ Change(a, b, x, may)

(* What Does is made of.                                                    *)
LEMMA StaysDoes ==
  ASSUME NEW a, NEW b, NEW x, NEW may, Stays(a, b)
  PROVE  Does(a, b, x, may)
BY DEF Stays, Does, Change

LEMMA RunsDoes ==
  ASSUME NEW a, NEW b, NEW x, NEW may, a.abort = "none", Runs(a, b, x), Change(a, b, x, may)
  PROVE  Does(a, b, x, may)
BY DEF Runs, Does

LEMMA LeadsDoes ==
  ASSUME NEW a, NEW b, NEW x, NEW may, a.abort = "none", Leads(a, b, x), Change(a, b, x, may)
  PROVE  Does(a, b, x, may)
BY LeadsRuns, RunsDoes

LEMMA StaysThenDoes ==
  ASSUME NEW a, NEW b, NEW d, NEW x, NEW may, Stays(a, b), Does(b, d, x, may),
         b.abort = "none" => b.last_msg_id = a.last_msg_id
  PROVE  Does(a, d, x, may)
<1>1. CASE d.abort # "none" BY <1>1 DEF Does, Change
<1>2. CASE d.abort = "none"
  <2>1. b.abort = "none" BY <1>2 DEF Does
  <2>2. Less(a) => Less(b) BY <2>1 DEF Less
  <2>3. Keeps(a, b) /\ a.abort = "none" /\ \A t \in UserTasks : Fate(b, t) = Fate(a, t) BY <2>1 DEF Stays
  <2>4. Less(a) => Keeps(a, d) BY <1>2, <2>2, <2>3, KeepsTrans DEF Does
  <2> QED BY <1>2, <2>3, <2>4 DEF Does, Change
<1> QED BY <1>1, <1>2

LEMMA DoesThenStays ==
  ASSUME NEW a, NEW b, NEW d, NEW x, NEW may, Does(a, b, x, may), Stays(b, d)
  PROVE  Does(a, d, x, may)
<1>1. CASE d.abort # "none" BY <1>1 DEF Does, Change, Stays
<1>2. CASE d.abort = "none"
  <2>1. b.abort = "none" /\ Keeps(b, d) /\ \A t \in UserTasks : Fate(d, t) = Fate(b, t) BY <1>2 DEF Stays
  <2>2. Less(a) => Keeps(a, d) BY <2>1, KeepsTrans DEF Does
  <2> QED BY <1>2, <2>1, <2>2 DEF Does, Change, Stays
<1> QED BY <1>1, <1>2

LEMMA DoesMay ==
  ASSUME NEW a, NEW b, NEW x, NEW p, NEW q, Does(a, b, x, p), p => q
  PROVE  Does(a, b, x, q)
BY DEF Does, Change

-----------------------------------------------------------------------------
(* Publications of the server.                                              *)
LEMMA UserMessageCall ==
  ASSUME NEW m \in Messages, m.task \in Incoming
  PROVE  LET k == [layer |-> "user", fn |-> "message", arg |-> m, st |-> "OK"]
         IN  Harmless(k) /\ \A a : NameCall(a, k)
<1> DEFINE k == [layer |-> "user", fn |-> "message", arg |-> m, st |-> "OK"]
<1>1. k.layer = "user" /\ k.fn = "message" /\ k.arg = m /\ k.st = "OK" OBVIOUS
<1>2. k \in CallTypes BY DEF CallTypes, FunctionNames, Statuses
<1> HIDE DEF k
<1>3. k \in Calls BY <1>1, <1>2 DEF Calls, Outward
<1>4. Harmless(k) BY <1>1, <1>3, KindOf, NeutralIs DEF Harmless
<1>5. \A a : NameCall(a, k) BY <1>1 DEF NameCall, Outward
<1> QED BY <1>4, <1>5 DEF k

(* The topic handlers get a message of the server.                          *)
LEMMA TopicHandlerStays ==
  ASSUME NEW a \in Memory, a.abort = "none", Sound(a), ~Starting(a), NEW m \in Messages, m.task \in Incoming
  PROVE  Stays(a, CallTopicHandler(a, m)) /\ CallTopicHandler(a, m).last_msg_id = a.last_msg_id
<1> DEFINE k == [layer |-> "user", fn |-> "message", arg |-> m, st |-> "OK"]
           b == [a EXCEPT !.calls = Append(a.calls, k)]
<1>1. Harmless(k) /\ \A x : NameCall(x, k) BY UserMessageCall
<1>2. CallTopicHandler(a, m) = a \/ CallTopicHandler(a, m) = b BY DEF CallTopicHandler
<1>3. b = [a EXCEPT !.calls = Append(a.calls, k)] OBVIOUS
<1> HIDE DEF k, b
<1>4. k \in Calls BY <1>1 DEF Harmless
<1>5. Append(a.calls, k) \in Seq(Calls) /\ Grows(a.calls, Append(a.calls, k), {k}) BY <1>4, FieldsOf, GrowsAppend
<1>6. Edits(a, b, {"calls"}) /\ b.calls = Append(a.calls, k) BY ONLY <1>3, <1>5, a \in Memory, EditCalls
<1>7. Posted(a, b, {k})
  <2>1. Edits(a, b, SideFields \cup {"calls"}) BY <1>6 DEF Edits
  <2> QED BY <2>1, <1>1, <1>5, <1>6, Posts
<1>8. Stays(a, b) BY <1>1, <1>7, HoldsStays DEF Posted
<1>9. Stays(a, a) BY KeepsSame DEF Stays
<1>10. b.last_msg_id = a.last_msg_id BY <1>6 DEF Edits, Fields
<1> QED BY <1>2, <1>8, <1>9, <1>10

(* The messages that wait to be acknowledged.                               *)
LEMMA RecvStays ==
  ASSUME NEW a \in Memory, a.abort = "none", Sound(a), a.data["logic"], NEW b, Edits(a, b, {"recv"})
  PROVE  Stays(a, b) /\ b.abort = "none" /\ (Starting(b) <=> Starting(a)) /\ b.data = a.data
<1>1. /\ b.data = a.data /\ b.session = a.session /\ b.conn = a.conn /\ b.calls = a.calls
      /\ b.connect_handler = a.connect_handler /\ b.shutdown_started = a.shutdown_started
      /\ b.current = a.current /\ b.keepalive_event = a.keepalive_event /\ b.io = a.io
      /\ b.queue = a.queue /\ b.task = a.task /\ b.q0 = a.q0 /\ b.q12 = a.q12
      /\ b.saved = a.saved /\ b.outcome = a.outcome /\ b.saved_id = a.saved_id
      /\ b.last_msg_id = a.last_msg_id /\ b.abort = a.abort /\ b \in Memory
  BY DEF Edits, Fields
<1>2. Alike(a, b) BY <1>1 DEF Alike, Pending
<1>3. /\ Book(b) /\ Queued(b) = Queued(a) /\ \A t \in UserTasks : Fate(b, t) = Fate(a, t)
  BY <1>2, AlikeBook DEF Sound, Book
<1>4. Starting(b) <=> Starting(a) BY <1>1 DEF Starting
<1>5. StartInv(b) BY <1>1, <1>3, <1>4 DEF Sound, Fit, StartInv, Rest
<1>6. DataInv(b) BY <1>1 DEF Sound, Fit, DataInv, Rest
<1>7. EndInv(b) /\ CodecInv(b) BY <1>1 DEF Sound, Fit, EndInv, CodecInv
<1>8. InternalInv(b) BY <1>1, <1>3 DEF Sound, Fit, InternalInv, ConnectOnce, PingOnce, RestOnce, Pending
<1>9. Keeps(a, b)
  <2>1. MailSame(a, b) BY <1>1 DEF MailSame
  <2> QED BY <2>1, <1>1, KeepsStill
<1> QED BY <1>1, <1>3, <1>4, <1>5, <1>6, <1>7, <1>8, <1>9 DEF Stays, Sound, Fit

(* The PUBACK is handed to the codec layer.                                 *)
LEMMA AckPosts ==
  ASSUME NEW a \in Memory, a.abort = "none", Sound(a), ~Starting(a), NEW m \in AckMessages
  PROVE  LET b == OnPrev(a, "logic", "push", m, "OK")
         IN  Stays(a, b) /\ b.last_msg_id = a.last_msg_id
<1> DEFINE k == [layer |-> "codec", fn |-> "push", arg |-> m, st |-> "OK"]
           b == OnPrev(a, "logic", "push", m, "OK")
<1>1. k.layer = "codec" /\ k.fn = "push" /\ k.arg = m /\ k.st = "OK" OBVIOUS
<1>2. m \in OutMessages /\ m \in Messages /\ m.task \in In1 BY DEF AckMessages, OutMessages
<1>3. "codec" \in Layers /\ "logic" \in Layers BY DEF Layers
<1>4. k \in CallTypes BY <1>2, <1>3 DEF CallTypes, FunctionNames, LayerFunctions, Statuses
<1>5. b = ContinueWith(a, "logic", "push", "codec", m, "OK") BY DEF OnPrev, Prev
<1>6. k = [layer |-> "codec", fn |-> "push", arg |-> m, st |-> "OK"] OBVIOUS
<1> HIDE DEF k, b
<1>7. k \in Calls BY <1>1, <1>2, <1>4 DEF Calls, Outward
<1>8. Harmless(k) BY <1>1, <1>7, KindOf, NeutralIs DEF Harmless
<1>9. \A x : NameCall(x, k)
  <2>1. m.task \in Incoming BY <1>2, TaskAssumption
  <2>2. m.task \notin UserTasks /\ m.task \notin Q12 BY <2>1, TaskNames
  <2> QED BY <2>2, <1>1 DEF NameCall, Names
<1>10. Posted(a, b, {k}) /\ Said(a, b, "logic", k)
  BY ONLY <1>3, <1>5, <1>6, <1>8, a \in Memory, a.abort = "none", Sound(a), ~Starting(a), SayPosts
<1>11. Stays(a, b) BY <1>9, <1>10, HoldsStays DEF Posted
<1>12. b.last_msg_id = a.last_msg_id BY <1>10 DEF Said, Edits, Fields
<1> QED BY <1>11, <1>12 DEF b

(* The task that acknowledges one starts,                                   *)
LEMMA PublishQ1Stays ==
  ASSUME NEW a \in Memory, a.abort = "none", Sound(a), ~Starting(a), a.data["logic"], NEW m \in AckMessages
  PROVE  Stays(a, PublishQ1Received(a, m))
<1> DEFINE h == \A k \in 1..Len(a.recv) : a.recv[k].id # m.id
           b == Check(a, h, "same_recv_id")
           d == [b EXCEPT !.recv = Append(b.recv, m)]
           e == OnPrev(d, "logic", "push", m, "OK")
<1>1. PublishQ1Received(a, m) = e BY DEF PublishQ1Received
<1>2. /\ b \in Memory /\ Edits(a, b, {"abort"}) /\ (b.abort = "none" => b = a)
  <2>1. "same_recv_id" \in Asserts BY AssertNames
  <2> QED BY <2>1, CheckIs
<1>3. d = [b EXCEPT !.recv = Append(b.recv, m)] /\ e = OnPrev(d, "logic", "push", m, "OK") OBVIOUS
<1> HIDE DEF b, d, e, h
<1>4. Append(b.recv, m) \in Seq(AckMessages) BY <1>2, FieldsOf
<1>5. Edits(b, d, {"recv"}) BY ONLY <1>2, <1>3, <1>4, EditRecv
<1>6. CASE b.abort = "none"
  <2>1. b = a BY <1>2, <1>6
  <2>2. Stays(a, d) /\ d.abort = "none" /\ ~Starting(d) BY <2>1, <1>5, RecvStays
  <2>3. Sound(d) /\ d \in Memory BY <2>2 DEF Stays
  <2>4. Stays(d, e) BY <2>2, <2>3, <1>3, AckPosts
  <2> QED BY <1>1, <2>2, <2>4, StaysTrans
<1>7. CASE b.abort # "none"
  <2> DEFINE k == [layer |-> "codec", fn |-> "push", arg |-> m, st |-> "OK"]
  <2>1. d \in Memory /\ d.abort = b.abort BY <1>5 DEF Edits, Fields
  <2>2. m \in OutMessages /\ m \in Messages BY DEF AckMessages, OutMessages
  <2>3. "codec" \in Layers /\ "logic" \in Layers BY DEF Layers
  <2>4. k \in CallTypes BY <2>2, <2>3 DEF CallTypes, FunctionNames, LayerFunctions, Statuses
  <2>5. k.layer = "codec" /\ k.fn = "push" /\ k.arg = m /\ k.st = "OK" OBVIOUS
  <2>6. e = ContinueWith(d, "logic", "push", "codec", m, "OK") BY <1>3 DEF OnPrev, Prev
  <2>7. k = [layer |-> "codec", fn |-> "push", arg |-> m, st |-> "OK"] OBVIOUS
  <2> HIDE DEF k
  <2>8. k \in Calls BY <2>2, <2>4, <2>5 DEF Calls, Outward
  <2>9. Said(d, e, "logic", k) BY ONLY <2>1, <2>3, <2>6, <2>7, <2>8, SaidIs
  <2>10. e \in Memory /\ e.abort # "none" BY <2>1, <2>9, <1>7 DEF Said, Edits, Fields
  <2> QED BY <2>10, <1>1, StaysAborted
<1> QED BY <1>6, <1>7

(* and ends when its PUBACK was written or failed.                          *)
LEMMA PubackStays ==
  ASSUME NEW a \in Memory, a.abort = "none", Sound(a), ~Starting(a), a.data["logic"], NEW m \in AckMessages, NEW st
  PROVE  Stays(a, PubackWritten(a, m, st))
<1> DEFINE q == Kept(a.recv, Range(a.recv) \ {m})
           b == [a EXCEPT !.recv = q]
<1>1. PubackWritten(a, m, st) = IF st # "WRITTEN" THEN OnPrev(a, "logic", "push", m, "OK")
                                ELSE CallTopicHandler(b, m)
  BY DEF PubackWritten
<1>2. q \in Seq(AckMessages)
  <2>1. a.recv \in Seq(AckMessages) BY FieldsOf
  <2> QED BY <2>1, KeptRange
<1>3. b = [a EXCEPT !.recv = q] OBVIOUS
<1> HIDE DEF q, b
<1>4. Edits(a, b, {"recv"}) BY ONLY <1>2, <1>3, a \in Memory, EditRecv
<1>5. Stays(a, b) /\ b.abort = "none" /\ ~Starting(b) BY <1>4, RecvStays
<1>6. Sound(b) /\ b \in Memory BY <1>5 DEF Stays
<1>7. m \in Messages /\ m.task \in Incoming
  <2>1. m \in Messages /\ m.task \in In1 BY DEF AckMessages
  <2> QED BY <2>1, TaskAssumption
<1>8. Stays(b, CallTopicHandler(b, m)) BY <1>5, <1>6, <1>7, TopicHandlerStays
<1>9. Stays(a, OnPrev(a, "logic", "push", m, "OK")) BY AckPosts
<1> QED BY <1>1, <1>5, <1>8, <1>9, StaysTrans

-----------------------------------------------------------------------------
(* What is found by its id: a task that waits, a message to acknowledge.    *)
LEMMA FirstOf ==
  ASSUME NEW n \in Nat, NEW S \in SUBSET (1 .. n), S # {}
  PROVE  (CHOOSE k \in S : \A j \in S : k <= j) \in S
<1>1. S \in SUBSET Nat OBVIOUS
<1>2. \E k \in S : \A j \in S : k <= j BY <1>1, LeastOne
<1> QED BY <1>2

(* What is found by its id is in the queue, and has the id.                 *)
LEMMA TaskFound ==
  ASSUME NEW a \in Memory, NEW i
  PROVE  LET t == TaskWithId(a, i)
         IN  t # None => At(a, t) /\ t \in Range(a.q12) /\ t \in Q12 /\ a.task[t].id = i
<1> DEFINE S == {k \in 1..Len(a.q12) : a.task[a.q12[k]].id = i}
           f == CHOOSE k \in S : \A j \in S : k <= j
<1>1. a.q12 \in Seq(Q12) BY FieldsOf
<1>2. TaskWithId(a, i) = IF S = {} THEN None ELSE a.q12[f] BY DEF TaskWithId
<1>3. S # {} => f \in S
  <2>1. Len(a.q12) \in Nat /\ S \in SUBSET (1 .. Len(a.q12)) BY <1>1
  <2> HIDE DEF S
  <2> QED BY <2>1, FirstOf
<1>4. ASSUME S # {} PROVE a.q12[f] \in Range(a.q12) /\ a.q12[f] \in Q12 /\ a.task[a.q12[f]].id = i
  <2>1. f \in 1 .. Len(a.q12) /\ a.task[a.q12[f]].id = i BY <1>3, <1>4
  <2> HIDE DEF f, S
  <2> QED BY <2>1, <1>1, RangeIs
<1> HIDE DEF f, S
<1>5. Q12 \subseteq Tasks BY TaskNames
<1> QED BY <1>2, <1>4, <1>5 DEF At

(* A message to be acknowledged is one of the server's.                     *)
LEMMA MessageFound ==
  ASSUME NEW a \in Memory, NEW i, MessageWithId(a, i) # NoMsg
  PROVE  MessageWithId(a, i) \in AckMessages
<1> DEFINE S == {k \in 1..Len(a.recv) : a.recv[k].id = i}
           f == CHOOSE k \in S : \A j \in S : k <= j
<1>1. a.recv \in Seq(AckMessages) BY FieldsOf
<1>2. MessageWithId(a, i) = IF S = {} THEN NoMsg ELSE a.recv[f] BY DEF MessageWithId
<1>3. S # {} => f \in S
  <2>1. Len(a.recv) \in Nat /\ S \in SUBSET (1 .. Len(a.recv)) BY <1>1
  <2> HIDE DEF S
  <2> QED BY <2>1, FirstOf
<1>4. S # {} => f \in 1 .. Len(a.recv) BY <1>3
<1> HIDE DEF f, S
<1> QED BY <1>1, <1>2, <1>4

(* What becomes of a task when it is resumed by the layer; may is when it   *)
(* can succeed.                                                             *)
LEMMA ResumeDoes ==
  ASSUME NEW a \in Memory, a.abort = "none", Sound(a), ~Starting(a), NEW t, At(a, t), NEW st \in Statuses, NEW m
  PROVE  Does(a, Resume(a, t, st, m), t,
              t \in Q1 \cup Subs => /\ st = "OK" /\ (t \in Q1 <=> m.task \in Q1)
                                    /\ m.task \in Q1 \cup SubTasks)
<1> DEFINE b == Resume(a, t, st, m)
           may == t \in Q1 \cup Subs => /\ st = "OK" /\ (t \in Q1 <=> m.task \in Q1)
                                        /\ m.task \in Q1 \cup SubTasks
<1>1. Leads(a, b, t) /\ Outcome(a, b, t, may) BY ResumeLeads
<1> HIDE DEF b, may
<1>2. Change(a, b, t, may) BY <1>1, OutcomeChange
<1>3. Does(a, b, t, may) BY <1>1, <1>2, LeadsDoes
<1> QED BY <1>3 DEF b, may

(* A message was written or not.                                            *)
LEMMA ConfirmDoes ==
  ASSUME NEW a \in Memory, a.abort = "none", Sound(a), ~Starting(a), a.data["logic"], NEW m,
         NEW st \in {"WRITTEN", "FAILED"}
  PROVE  \E x : Does(a, Confirm(a, m, st), x, x \notin Q1 \cup Subs)
<1> DEFINE t == IF m.id = 0 THEN a.current ELSE TaskWithId(a, m.id)
           r == MessageWithId(a, m.id)
           b == Confirm(a, m, st)
           d == Resume(a, t, st, NoMsg)
<1>1. b = CASE m.task \in In1 /\ r # NoMsg  -> PubackWritten(a, r, st)
            [] m.task \notin In1 /\ t # None -> d
            [] OTHER                         -> a
  BY DEF Confirm
<1>2. r # NoMsg => Stays(a, PubackWritten(a, r, st)) BY MessageFound, PubackStays
<1>3. t # None => At(a, t)
  <2>1. a.current \in (Tasks \ Q12) \cup {None} BY FieldsOf
  <2>2. a.current # None => At(a, a.current) BY <2>1 DEF At
  <2> QED BY <2>2, TaskFound
<1> HIDE DEF t, r, b
<1>4. st \in Statuses /\ st # "OK" BY DEF Statuses
<1>5. ASSUME t # None PROVE Does(a, d, t, t \notin Q1 \cup Subs)
  <2>1. Does(a, d, t, t \in Q1 \cup Subs => /\ st = "OK" /\ (t \in Q1 <=> NoMsg.task \in Q1)
                                            /\ NoMsg.task \in Q1 \cup SubTasks)
    BY <1>3, <1>4, <1>5, ResumeDoes
  <2>2. (t \in Q1 \cup Subs => /\ st = "OK" /\ (t \in Q1 <=> NoMsg.task \in Q1)
                               /\ NoMsg.task \in Q1 \cup SubTasks) => t \notin Q1 \cup Subs
    BY <1>4
  <2> HIDE DEF d
  <2> QED BY ONLY <2>1, <2>2, DoesMay
<1>6. Stays(a, a) BY KeepsSame DEF Stays
<1>7. CASE m.task \in In1 /\ r # NoMsg
  <2>1. Stays(a, b) BY <1>1, <1>2, <1>7
  <2> QED BY <2>1, StaysDoes DEF b
<1>8. CASE m.task \notin In1 /\ t # None
  <2>1. Does(a, b, t, t \notin Q1 \cup Subs) BY <1>1, <1>5, <1>8
  <2> QED BY <2>1 DEF b
<1>9. CASE ~(m.task \in In1 /\ r # NoMsg) /\ ~(m.task \notin In1 /\ t # None)
  <2>1. b = a BY <1>1, <1>9
  <2> QED BY <2>1, <1>6, StaysDoes DEF b
<1> QED BY <1>7, <1>8, <1>9

-----------------------------------------------------------------------------
(* Tasks are freed without a word to the user.                              *)
Ended(a, b, t) ==
  \/ Fate(b, t) = Fate(a, t)
  \/ Fate(a, t) = "accepted" /\ Fate(b, t) \in {"dropped", "failed"}
  \/ Fate(a, t) = "stored" /\ Fate(b, t) = "dropped" /\ a.session = "CLEAN"
Ends(a, b) ==
  /\ b \in Memory
  /\ b.abort = "none" =>
       /\ a.abort = "none" /\ Sound(b) /\ (Less(a) => Keeps(a, b))
       /\ \A t \in UserTasks : Ended(a, b, t)

(* What Ends is made of.                                                    *)
LEMMA StaysEnds == ASSUME NEW a, NEW b, Stays(a, b) PROVE Ends(a, b)
BY DEF Stays, Ends, Ended

LEMMA StaysThenEnds ==
  ASSUME NEW a, NEW b, NEW d, Stays(a, b), Ends(b, d),
         b.abort = "none" => b.last_msg_id = a.last_msg_id /\ b.session = a.session
  PROVE  Ends(a, d)
<1> SUFFICES ASSUME d.abort = "none"
             PROVE  /\ a.abort = "none" /\ Sound(d) /\ (Less(a) => Keeps(a, d))
                    /\ \A t \in UserTasks : Ended(a, d, t)
  BY DEF Ends
<1>1. b.abort = "none" /\ Sound(d) /\ (Less(b) => Keeps(b, d)) /\ \A t \in UserTasks : Ended(b, d, t)
  BY DEF Ends
<1>2. a.abort = "none" /\ Keeps(a, b) /\ \A t \in UserTasks : Fate(b, t) = Fate(a, t) BY <1>1 DEF Stays
<1>3. Less(a) => Less(b) BY <1>1 DEF Less
<1>4. Less(a) => Keeps(a, d) BY <1>1, <1>2, <1>3, KeepsTrans
<1>5. \A t \in UserTasks : Ended(a, d, t) BY <1>1, <1>2 DEF Ended
<1> QED BY <1>1, <1>2, <1>4, <1>5

LEMMA EndsThenStays ==
  ASSUME NEW a, NEW b, NEW d, Ends(a, b), Stays(b, d)
  PROVE  Ends(a, d)
<1> SUFFICES ASSUME d.abort = "none"
             PROVE  /\ a.abort = "none" /\ Sound(d) /\ (Less(a) => Keeps(a, d))
                    /\ \A t \in UserTasks : Ended(a, d, t)
  BY DEF Ends, Stays
<1>1. b.abort = "none" /\ Sound(d) /\ Keeps(b, d) /\ \A t \in UserTasks : Fate(d, t) = Fate(b, t)
  BY DEF Stays
<1>2. a.abort = "none" /\ (Less(a) => Keeps(a, b)) /\ \A t \in UserTasks : Ended(a, b, t) BY <1>1 DEF Ends
<1>3. Less(a) => Keeps(a, d) BY <1>1, <1>2, KeepsTrans
<1>4. \A t \in UserTasks : Ended(a, d, t) BY <1>1, <1>2 DEF Ended
<1> QED BY <1>1, <1>2, <1>3, <1>4

(* From a to b, the tasks of S were freed, wherever they were held.         *)
Clears(a, b, S) ==
  /\ a.abort = "none" /\ b.calls = a.calls /\ b.outcome = a.outcome
  /\ \A t \in Tasks : b.task[t] = IF t \in S THEN [a.task[t] EXCEPT !.cs = "freed"] ELSE a.task[t]
  /\ \A t \in S : ~a.task[t].timeout /\ a.task[t].cs # "none" /\ ~Pending(a, t) /\ t \notin Queued(b)
  /\ Queued(b) \subseteq Queued(a)
  /\ \A t \in Tasks : At(a, t) => At(b, t) \/ ~b.task[t].timeout
  /\ Distinct(b.q0) /\ b.current \notin Range(b.q0) /\ Range(b.q12) \cap Range(b.saved) = {}
  /\ "control" \notin Range(b.saved)

(* Tasks that are given up are out of the books.                            *)
LEMMA ClearsBook ==
  ASSUME NEW a \in Memory, NEW b, NEW S \in SUBSET Tasks, Clears(a, b, S), Book(a)
  PROVE  /\ Book(b) /\ \A t : Pending(b, t) <=> Pending(a, t)
         /\ \A t \in UserTasks \ S : Fate(b, t) = Fate(a, t)
         /\ \A t \in UserTasks : t \in S =>
              \/ Fate(b, t) = Fate(a, t)
              \/ Fate(a, t) = "accepted" /\ Fate(b, t) = "dropped"
              \/ Fate(a, t) = "stored" /\ Fate(b, t) = "dropped" /\ a.task[t].session = "STORE"
<1>1. \A t \in Tasks : /\ b.task[t].timeout = a.task[t].timeout /\ b.task[t].session = a.task[t].session
                       /\ b.task[t].cs = IF t \in S THEN "freed" ELSE a.task[t].cs
  <2> SUFFICES ASSUME NEW t \in Tasks
               PROVE  /\ b.task[t].timeout = a.task[t].timeout /\ b.task[t].session = a.task[t].session
                      /\ b.task[t].cs = IF t \in S THEN "freed" ELSE a.task[t].cs
    OBVIOUS
  <2>1. a.task[t] \in TaskTypes BY FieldsOf
  <2>2. b.task[t] = IF t \in S THEN [a.task[t] EXCEPT !.cs = "freed"] ELSE a.task[t] BY DEF Clears
  <2> QED BY <2>1, <2>2 DEF TaskTypes
<1>2. \A t : /\ Pending(b, t) <=> Pending(a, t)
             /\ Heard(b, t) <=> Heard(a, t)
             /\ WasOk(b, t) <=> WasOk(a, t)
  BY DEF Pending, Heard, WasOk, Clears
<1>3. UserTasks \subseteq Tasks /\ "control" \in Tasks BY TaskNames
<1>4. Timers(b)
  <2> SUFFICES ASSUME NEW t \in Tasks, b.task[t].timeout PROVE At(b, t) BY DEF Timers
  <2>1. At(a, t) BY <1>1 DEF Book, BookBut, Timers
  <2> QED BY <2>1 DEF Clears
<1>5. Lives(b)
  <2> SUFFICES ASSUME NEW t \in Tasks, t \in Queued(b) \/ Pending(b, t)
               PROVE  b.task[t].cs \notin {"none", "freed"}
    BY DEF Lives
  <2>1. t \notin S BY <1>2 DEF Clears
  <2>2. t \in Queued(a) \/ Pending(a, t) BY <1>2 DEF Clears
  <2> QED BY <2>1, <2>2, <1>1 DEF Book, BookBut, Lives
<1>6. Once(b) BY <1>2 DEF Book, BookBut, Once, Clears
<1>7. Told(b, None)
  <2> SUFFICES ASSUME NEW t \in UserTasks
               PROVE  /\ Heard(b, t) /\ t # None => b.task[t].cs = "freed"
                      /\ One(b.calls, CallbackOf(t)) /\ Len(b.outcome[t]) <= 1
                      /\ Has(b.calls, CallbackOf(t)) => b.outcome[t] = <<>>
    BY DEF Told
  <2> QED BY <1>1, <1>2, <1>3 DEF Book, BookBut, Told, Clears
<1>8. Sessions1(b) BY <1>1, <1>2, <1>3 DEF Book, BookBut, Sessions1, Clears
<1>9. Book(b) BY <1>4, <1>5, <1>6, <1>7, <1>8 DEF Book, BookBut
<1>10. \A t \in UserTasks \ S : Fate(b, t) = Fate(a, t) BY <1>1, <1>2, <1>3 DEF Fate
<1>11. ASSUME NEW t \in UserTasks, t \in S
       PROVE  \/ Fate(b, t) = Fate(a, t)
              \/ Fate(a, t) = "accepted" /\ Fate(b, t) = "dropped"
              \/ Fate(a, t) = "stored" /\ Fate(b, t) = "dropped" /\ a.task[t].session = "STORE"
  <2>1. b.task[t].cs = "freed" /\ a.task[t].cs # "none" BY <1>1, <1>3, <1>11 DEF Clears
  <2> QED BY <2>1, <1>2 DEF Fate
<1> QED BY <1>2, <1>9, <1>10, <1>11

-----------------------------------------------------------------------------
(* A task whose layer is gone is freed when it is pushed.                   *)
LEMMA FreeWaiting ==
  ASSUME NEW a \in Memory, a.abort = "none", Sound(a), NEW t \in Tasks, Waits(a, t)
  PROVE  Ends(a, FreeTask(a, t))
<1> DEFINE b == FreeTask(a, t)
<1>1. /\ b \in Memory /\ Edits(a, b, {"task", "abort"})
      /\ b.abort = "none" =>
           /\ ~a.task[t].timeout
           /\ b.task = [a.task EXCEPT ![t] = [a.task[t] EXCEPT !.cs = "freed"]]
  BY FreeIs
<1> HIDE DEF b
<1> SUFFICES ASSUME b.abort = "none"
             PROVE  /\ Sound(b) /\ Keeps(a, b) /\ \A u \in UserTasks : Ended(a, b, u)
  BY <1>1 DEF Ends, b
<1>2. /\ b.data = a.data /\ b.session = a.session /\ b.conn = a.conn /\ b.calls = a.calls
      /\ b.connect_handler = a.connect_handler /\ b.shutdown_started = a.shutdown_started
      /\ b.current = a.current /\ b.keepalive_event = a.keepalive_event /\ b.io = a.io
      /\ b.queue = a.queue /\ b.recv = a.recv /\ b.q0 = a.q0 /\ b.q12 = a.q12
      /\ b.saved = a.saved /\ b.outcome = a.outcome /\ b.saved_id = a.saved_id
      /\ b.last_msg_id = a.last_msg_id
  BY <1>1 DEF Edits, Fields
<1>3. Queued(b) = Queued(a) /\ \A u : At(b, u) <=> At(a, u) BY <1>2 DEF Queued, At
<1>4. a.task \in [Tasks -> TaskTypes] BY FieldsOf
<1>5. \A u \in Tasks : b.task[u] = IF u \in {t} THEN [a.task[u] EXCEPT !.cs = "freed"] ELSE a.task[u]
  BY <1>1, <1>4
<1>6. \A u \in Tasks : /\ b.task[u].timeout = a.task[u].timeout /\ b.task[u].id = a.task[u].id
                       /\ b.task[u].cs = IF u = t THEN "freed" ELSE a.task[u].cs
  <2> SUFFICES ASSUME NEW u \in Tasks
               PROVE  /\ b.task[u].timeout = a.task[u].timeout /\ b.task[u].id = a.task[u].id
                      /\ b.task[u].cs = IF u = t THEN "freed" ELSE a.task[u].cs
    OBVIOUS
  <2>1. a.task[u] \in TaskTypes BY <1>4
  <2> QED BY <2>1, <1>5 DEF TaskTypes
<1>7. Book(a) BY DEF Sound
<1>8. Clears(a, b, {t})
  <2>1. ~a.task[t].timeout /\ a.task[t].cs # "none" /\ ~Pending(a, t) /\ t \notin Queued(b)
    BY <1>1, <1>3 DEF Waits
  <2>2. Distinct(b.q0) /\ b.current \notin Range(b.q0) /\ Range(b.q12) \cap Range(b.saved) = {}
    BY <1>2, <1>7 DEF Book, BookBut, Once
  <2>3. "control" \notin Range(b.saved) BY <1>2, <1>7 DEF Book, BookBut, Sessions1
  <2> QED BY <2>1, <2>2, <2>3, <1>2, <1>3, <1>5 DEF Clears
<1>9. /\ Book(b) /\ (\A u : Pending(b, u) <=> Pending(a, u))
      /\ \A u \in UserTasks \ {t} : Fate(b, u) = Fate(a, u)
      /\ \A u \in UserTasks : u \in {t} =>
           \/ Fate(b, u) = Fate(a, u)
           \/ Fate(a, u) = "accepted" /\ Fate(b, u) = "dropped"
           \/ Fate(a, u) = "stored" /\ Fate(b, u) = "dropped" /\ a.task[u].session = "STORE"
  <2>1. {t} \in SUBSET Tasks OBVIOUS
  <2> QED BY <2>1, <1>7, <1>8, ClearsBook
<1>10. Starting(b) <=> Starting(a) BY <1>2 DEF Starting
<1>11. StartInv(b) BY <1>2, <1>3, <1>6, <1>10 DEF Sound, Fit, StartInv, Rest
<1>12. DataInv(b) BY <1>2 DEF Sound, Fit, DataInv, Rest
<1>13. EndInv(b) /\ CodecInv(b) BY <1>2 DEF Sound, Fit, EndInv, CodecInv
<1>14. InternalInv(b) BY <1>2, <1>3, <1>9 DEF Sound, Fit, InternalInv, ConnectOnce, PingOnce, RestOnce
<1>15. Keeps(a, b)
  <2>1. MailSame(a, b) BY <1>2, <1>6 DEF MailSame, Waits
  <2> QED BY <2>1, <1>2, KeepsStill
<1>16. \A u \in UserTasks : Ended(a, b, u)
  <2> SUFFICES ASSUME NEW u \in UserTasks PROVE Ended(a, b, u) OBVIOUS
  <2>1. CASE u # t BY <2>1, <1>9 DEF Ended
  <2>2. CASE u = t
    <3>1. a.task[u].session = "UNSET" BY <2>2 DEF Waits
    <3> QED BY <3>1, <2>2, <1>9 DEF Ended
  <2> QED BY <2>1, <2>2
<1> QED BY <1>9, <1>11, <1>12, <1>13, <1>14, <1>15, <1>16 DEF Sound, Fit

(* A new task, pushed to the logic layer.                                   *)
Quietly(a, b) == Ends(a, b) \/ \E x : Does(a, b, x, x \notin Q1 \cup Subs)

(* A task that is pushed runs, waits, or is dropped.                        *)
LEMMA PushHandlerRuns ==
  ASSUME NEW a \in Memory, a.abort = "none", Sound(a), NEW t \in Tasks, Waits(a, t), Admits(a, t),
         NEW m, m.task = t
  PROVE  Quietly(a, LogicPushHandler(a, m, "OK"))
<1> DEFINE b == LogicPushHandler(a, m, "OK")
<1>1. \/ b = FreeTask(a, t)
      \/ b = a
      \/ b = RunTask(a, t) /\ a.data["logic"]
  BY DEF LogicPushHandler
<1> HIDE DEF b
<1>2. CASE b = FreeTask(a, t) BY <1>2, FreeWaiting DEF Quietly, b
<1>3. CASE b = a
  <2>1. Stays(a, a) BY KeepsSame DEF Stays
  <2>2. Ends(a, b) BY <2>1, <1>3, StaysEnds
  <2> QED BY <2>2 DEF Quietly, b
<1>4. CASE b = RunTask(a, t) /\ a.data["logic"]
  <2>1. Runs(a, b, t) /\ Change(a, b, t, FALSE) BY <1>4, RunTaskRuns
  <2>2. Does(a, b, t, FALSE) BY <2>1, RunsDoes
  <2>3. Does(a, b, t, t \notin Q1 \cup Subs) BY <2>2, DoesMay
  <2> QED BY <2>3 DEF Quietly, b
<1> QED BY <1>1, <1>2, <1>3, <1>4

(* After a step that stays within the rules, too.                           *)
LEMMA StaysThenQuietly ==
  ASSUME NEW a, NEW b, NEW d, Stays(a, b), Quietly(b, d),
         b.abort = "none" => b.last_msg_id = a.last_msg_id /\ b.session = a.session
  PROVE  Quietly(a, d)
<1>1. CASE Ends(b, d) BY <1>1, StaysThenEnds DEF Quietly
<1>2. ASSUME NEW x, Does(b, d, x, x \notin Q1 \cup Subs) PROVE Quietly(a, d)
  <2>1. Does(a, d, x, x \notin Q1 \cup Subs) BY <1>2, StaysThenDoes
  <2> QED BY <2>1 DEF Quietly
<1> QED BY <1>1, <1>2 DEF Quietly

(* The task of the push that is executed.                                   *)
LEMMA PushedWaits ==
  ASSUME c \in Memory, Running, Sound(c), NEW l \in {"top", "logic"}, Called(l, "push"), Call.st = "OK"
  PROVE  LET t == Call.arg.task
         IN  /\ t \in Tasks /\ Waits(Popped, t) /\ Admits(Popped, t)
             /\ Stays(c, Popped) /\ Sound(Popped) /\ Popped \in Memory /\ Popped.abort = "none"
<1> DEFINE t == Call.arg.task
           a == Popped
<1>1. /\ a \in Memory /\ Popped1(c, a, Call) /\ Call \in Calls /\ Call.layer = l /\ Call.fn = "push"
      /\ a.abort = "none" /\ c.abort = "none"
  BY CalledIs
<1>2. /\ Call \in Fresh /\ Call \notin Inits /\ Call \notin LogicInits /\ Call.layer # "user"
      /\ Call \in PushOf(t) /\ (Call \in Users <=> t \in UserTasks)
  BY <1>1, KindOf
<1>3. t \in Tasks BY <1>1 DEF Calls
<1> HIDE DEF t, a
<1>4. Stays(c, a) BY <1>1, <1>2, PopStays
<1>5. Sound(a) BY <1>1, <1>4 DEF Stays
<1>6. /\ a.conn = c.conn /\ a.keepalive_event = c.keepalive_event /\ a.shutdown_started = c.shutdown_started
      /\ a.task = c.task
  BY <1>1 DEF Popped1, Edits, Fields
<1>7. /\ Queued(a) = Queued(c)
      /\ \A u : Pending(c, u) <=> Call \in PushOf(u) \/ Pending(a, u)
      /\ \A u : ~(Call \in PushOf(u) /\ Pending(a, u)) \/ u \notin Tasks
  <2>1. Book(c) BY DEF Sound
  <2> QED BY <2>1, <1>1, PopBook
<1>8. Pending(c, t) /\ ~Pending(a, t) BY <1>2, <1>3, <1>7
<1>9. Waits(a, t)
  <2>1. c.task[t].cs \notin {"none", "freed"} /\ t \notin Queued(c)
    BY <1>3, <1>8 DEF Sound, Book, BookBut, Lives, Once
  <2>2. t = "control" => c.task[t].session = "DO_NOT_STORE" BY <1>8 DEF Sound, Book, BookBut, Sessions1
  <2>3. t \in UserTasks => c.task[t].session = "UNSET" BY <1>8 DEF Sound, Book, BookBut, Sessions1
  <2> QED BY <2>1, <2>2, <2>3, <1>6, <1>7, <1>8 DEF Waits
<1>10. Starting(c) => t \in UserTasks
  <2>1. Starting(c) => Only(c.calls, Inits \cup Users) BY DEF Sound, Fit, StartInv
  <2>2. Only(c.calls, Inits \cup Users) => Call \in Inits \cup Users
    BY <1>1 DEF Popped1, Sums
  <2> QED BY <2>1, <2>2, <1>2
<1>11. Has(a.calls, Opened) => Has(c.calls, Opened) BY <1>1 DEF Popped1, Sums, Plus
<1>12. Starting(a) => Starting(c) BY <1>1, PopFit DEF Sound
<1>13. InternalInv(c) BY DEF Sound, Fit
<1>14. Admits(a, t)
  BY <1>6, <1>7, <1>8, <1>10, <1>11, <1>12, <1>13 DEF Admits, InternalInv, ConnectOnce, RestOnce
<1> QED BY <1>1, <1>3, <1>4, <1>5, <1>9, <1>14 DEF a, t

(* xi_mqtt_logic_layer_push.                                                *)
LEMMA LogicPushQuietly ==
  ASSUME c \in Memory, Running, Sound(c), LogicPush
  PROVE  Quietly(c, c')
<1> DEFINE a == Popped
           m == Call.arg
           st == Call.st
<1>1. Called("logic", "push") /\ c' = LogicPushHandler(a, m, st) BY DEF LogicPush, Becomes
<1>2. /\ a \in Memory /\ Popped1(c, a, Call) /\ Call \in Calls /\ Call.layer = "logic" /\ Call.fn = "push"
      /\ a.abort = "none" /\ c.abort = "none"
  BY <1>1, CalledIs
<1>3. st \in {"OK", "WRITTEN", "FAILED"} BY <1>2 DEF Calls
<1>4. a.last_msg_id = c.last_msg_id /\ a.session = c.session BY <1>2 DEF Popped1, Edits, Fields
<1>5. CASE st = "OK"
  <2>1. /\ m.task \in Tasks /\ Waits(a, m.task) /\ Admits(a, m.task) /\ Stays(c, a) /\ Sound(a)
    BY <1>1, <1>5, PushedWaits
  <2> HIDE DEF a, m, st
  <2>2. Quietly(a, LogicPushHandler(a, m, "OK"))
    BY ONLY <2>1, <1>2, PushHandlerRuns
  <2> QED BY <2>1, <2>2, <1>1, <1>4, <1>5, StaysThenQuietly
<1>6. CASE st \in {"WRITTEN", "FAILED"}
  <2>1. Call \notin Inits /\ Call \notin Users BY <1>2, <1>6, KindOf
  <2>2. Stays(c, a) /\ Sound(a) /\ ~Starting(a) BY <2>1, <1>1, CalledStays
  <2> HIDE DEF a, m
  <2>3. c' = a \/ (a.data["logic"] /\ c' = Confirm(a, m, st)) BY <1>1, <1>6 DEF LogicPushHandler
  <2>4. Quietly(a, a)
    <3>1. Stays(a, a) BY <1>2, <2>2, KeepsSame DEF Stays
    <3> QED BY <3>1, StaysEnds DEF Quietly
  <2>5. a.data["logic"] => Quietly(a, Confirm(a, m, st)) BY <1>2, <1>6, <2>2, ConfirmDoes DEF Quietly
  <2>6. Quietly(a, c') BY <2>3, <2>4, <2>5
  <2> QED BY <2>2, <2>6, <1>4, StaysThenQuietly
<1> QED BY <1>3, <1>5, <1>6

-----------------------------------------------------------------------------
(* A message of the server: an answer is for the task its id belongs to.    *)
LEMMA AnswerTask ==
  ASSUME NEW a, NEW m, NEW t, Names(a, m), a.data["logic"], t \in Range(a.q12), a.task[t].id = m.id,
         m.task \in Q12
  PROVE  t = m.task
BY DEF Names

Answers(a, b, m, fits) == \E x : Does(a, b, x, fits /\ x \in Q1 \cup Subs => x = m.task)

(* A step that stays within the rules answers nobody.                       *)
LEMMA StaysAnswers ==
  ASSUME NEW a, NEW b, Stays(a, b), NEW m, NEW fits
  PROVE  Answers(a, b, m, fits)
<1>1. Does(a, b, None, fits /\ None \in Q1 \cup Subs => None = m.task) BY StaysDoes
<1> QED BY <1>1 DEF Answers

(* A message from the server resumes the task it answers.                   *)
LEMMA PullHandlerAnswers ==
  ASSUME NEW a \in Memory, a.abort = "none", Sound(a), ~Starting(a), NEW m \in Messages
  PROVE  Answers(a, LogicPullHandler(a, m), m, Names(a, m))
<1> DEFINE t == TaskWithId(a, m.id)
           b == Check(a, a.current # None, "answer_without_task")
           d == LogicPullHandler(a, m)
           may(x) == Names(a, m) /\ x \in Q1 \cup Subs => x = m.task
<1>1. \/ d = a
      \/ a.data["logic"] /\ m.task \in Incoming /\ d = PublishReceived(a, m)
      \/ a.data["logic"] /\ t # None /\ d = Resume(a, t, "OK", m)
      \/ b.current # None /\ d = Resume(b, b.current, "OK", m)
      \/ d = b
  BY DEF LogicPullHandler
<1>2. /\ b \in Memory /\ Edits(a, b, {"abort"}) /\ (b.abort = "none" => b = a)
      /\ a.current # None => b = a
  <2>1. "answer_without_task" \in Asserts BY AssertNames
  <2>2. a.current # None => b = a BY DEF Check
  <2> QED BY <2>1, <2>2, CheckIs
<1>3. b.current = a.current BY <1>2 DEF Edits, Fields
<1> HIDE DEF b, d
<1>4. Stays(a, a) BY KeepsSame DEF Stays
<1>5. CASE d = a BY <1>4, <1>5, StaysAnswers DEF d
<1>6. CASE d = b
  <2>1. Stays(a, b) BY <1>2, <1>4 DEF Stays
  <2> QED BY <2>1, <1>6, StaysAnswers DEF d
<1>7. CASE a.data["logic"] /\ m.task \in Incoming /\ d = PublishReceived(a, m)
  <2>1. CASE m.task \in In1
    <3>1. m \in AckMessages BY <2>1 DEF AckMessages
    <3>2. d = PublishQ1Received(a, m) BY <2>1, <1>7 DEF PublishReceived
    <3>3. Stays(a, d) BY <3>1, <3>2, <1>7, PublishQ1Stays
    <3> QED BY <3>3, StaysAnswers DEF d
  <2>2. CASE m.task \notin In1
    <3>1. d = CallTopicHandler(a, m) BY <2>2, <1>7 DEF PublishReceived
    <3>2. Stays(a, d) BY <3>1, <1>7, TopicHandlerStays
    <3> QED BY <3>2, StaysAnswers DEF d
  <2> QED BY <2>1, <2>2
<1>8. CASE a.data["logic"] /\ t # None /\ d = Resume(a, t, "OK", m)
  <2>1. At(a, t) /\ t \in Range(a.q12) /\ t \in Q12 /\ a.task[t].id = m.id BY <1>8, TaskFound
  <2> HIDE DEF t
  <2>2. "OK" \in Statuses BY DEF Statuses
  <2>3. Does(a, d, t, t \in Q1 \cup Subs => /\ "OK" = "OK" /\ (t \in Q1 <=> m.task \in Q1)
                                            /\ m.task \in Q1 \cup SubTasks)
    BY <1>8, <2>1, <2>2, ResumeDoes
  <2>4. (t \in Q1 \cup Subs => /\ "OK" = "OK" /\ (t \in Q1 <=> m.task \in Q1)
                               /\ m.task \in Q1 \cup SubTasks) => may(t)
    <3>1. Q1 \cup SubTasks \subseteq Q12 BY DEF Q12
    <3> QED BY <3>1, <2>1, <1>8, AnswerTask
  <2>5. Does(a, d, t, may(t)) BY ONLY <2>3, <2>4, DoesMay
  <2> QED BY <2>5 DEF Answers, d
<1>9. CASE b.current # None /\ d = Resume(b, b.current, "OK", m)
  <2>1. b = a /\ a.current # None BY <1>2, <1>3, <1>9
  <2>2. a.current \in Tasks \ Q12 BY <2>1, FieldsOf
  <2>3. At(a, a.current) BY <2>2 DEF At
  <2>4. "OK" \in Statuses BY DEF Statuses
  <2>5. Does(a, d, a.current, a.current \in Q1 \cup Subs =>
                                  /\ "OK" = "OK" /\ (a.current \in Q1 <=> m.task \in Q1)
                                  /\ m.task \in Q1 \cup SubTasks)
    BY <1>9, <2>1, <2>3, <2>4, ResumeDoes
  <2>6. may(a.current)
    <3>1. Q1 \cup Subs \subseteq Q12 BY DEF Q12, SubTasks
    <3> QED BY <3>1, <2>2
  <2>7. Does(a, d, a.current, may(a.current)) BY ONLY <2>5, <2>6, DoesMay
  <2> QED BY <2>7 DEF Answers, d
<1> QED BY <1>1, <1>5, <1>6, <1>7, <1>8, <1>9

(* xi_mqtt_logic_layer_pull.                                                *)
LEMMA LogicPullAnswers ==
  ASSUME c \in Memory, Running, Sound(c), LogicPull
  PROVE  Answers(c, c', Call.arg, MailIn(c))
<1> DEFINE a == Popped
           m == Call.arg
<1>1. Called("logic", "pull") /\ c' = LogicPullHandler(a, m) BY DEF LogicPull, Becomes
<1>2. /\ a \in Memory /\ Popped1(c, a, Call) /\ Call \in Calls /\ Call.layer = "logic" /\ Call.fn = "pull"
      /\ a.abort = "none" /\ c.abort = "none"
  BY <1>1, CalledIs
<1>3. Call \notin Inits /\ Call \notin Users BY <1>2, KindOf
<1>4. Stays(c, a) /\ Sound(a) /\ ~Starting(a) BY <1>1, <1>3, CalledStays
<1>5. m \in Messages BY <1>2 DEF Calls
<1>6. MailIn(c) => Names(a, m) BY <1>1, <1>2, CallNames DEF NameCall
<1>7. a.last_msg_id = c.last_msg_id BY <1>2 DEF Popped1, Edits, Fields
<1> HIDE DEF a, m
<1>8. Answers(a, c', m, Names(a, m)) BY <1>1, <1>2, <1>4, <1>5, PullHandlerAnswers
<1>9. PICK x : Does(a, c', x, Names(a, m) /\ x \in Q1 \cup Subs => x = m.task) BY <1>8 DEF Answers
<1>10. Does(c, c', x, Names(a, m) /\ x \in Q1 \cup Subs => x = m.task)
  BY <1>4, <1>7, <1>9, StaysThenDoes
<1>11. Does(c, c', x, MailIn(c) /\ x \in Q1 \cup Subs => x = m.task) BY <1>6, <1>10, DoesMay
<1> QED BY <1>11 DEF Answers, m
=============================================================================
