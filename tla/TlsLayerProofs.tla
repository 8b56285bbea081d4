--------------------------- MODULE TlsLayerProofs ---------------------------
(***************************************************************************)
(* Proofs about TlsLayer, for a handshake of any shape and any number of   *)
(* attempts, records, messages, faults and waits: the assertions of the    *)
(* layer hold, nothing is left of a connection that was reported closed,   *)
(* and received data is handed up in its time.                             *)
(***************************************************************************)
EXTENDS TlsLayer, TLAPS, WellFoundedInduction, NaturalsInduction

(* What the variables range over.                                           *)
FunctionNames == {"open", "read", "close", "init", "connect", "push", "pull", "close_externally"}
Statuses == {"OK", "ERR", "WANT_READ", "WRITTEN", "FAILED"}
Calls == [layer: {"rm", "tls", "io", "codec"}, fn: FunctionNames, arg: Nat, st: Statuses]

RmTypes == [there: BOOLEAN, open: BOOLEAN, buffer: BOOLEAN,
            callback: {"none", "init", "close_externally"}, st: Statuses]
LibTypes == [there: BOOLEAN, step: 1 .. Len(Handshake) + 1, units: 0 .. RecordUnits - 1,
             pending: Nat, failed: BOOLEAN]
Data == [there: BOOLEAN, conn_cs: {"start", "opening", "reading", "releasing", "handshake"},
         handler: {"none", "connect", "data"}, raw: Nat, write: {"NONE", "WRITING", "WRITTEN"},
         sending: BOOLEAN, send: BOOLEAN, to_write: BOOLEAN, rm: RmTypes, lib: LibTypes]
Memory == [calls: Seq(Calls), layer: [{"io", "tls", "codec"} -> LayerStates], d: Data,
           io_data: BOOLEAN, io: {"idle", "connecting", "blocked"},
           event: {"none", "stat", "open", "read", "close"}, file: BOOLEAN,
           ret: {"OK", "WANT_READ", "WANT_WRITE", "ERROR"}, broken: SUBSET STRING]
Types ==
  /\ t \in Memory
  /\ up \in [state: {"idle", "opening", "open", "failed", "closing"}, pushing: BOOLEAN,
             received: Nat, early: BOOLEAN]
  /\ net \in [in: Nat, out: Nat, pos: Nat, sent: Nat]

(* Calls of a kind: that one is queued, that one at most is, that nothing   *)
(* else is.                                                                 *)
Kind(l, fn) == {c \in Calls : c.layer = l /\ c.fn = fn}
With(l, fn, st) == {c \in Kind(l, fn) : c.st = st}
Has(q, S) == \E i \in 1 .. Len(q) : q[i] \in S
One(q, S) == \A i, j \in 1 .. Len(q) : q[i] \in S /\ q[j] \in S => i = j
Only(q, S) == Len(q) = 1 /\ q[1] \in S
Short(q) == Len(q) <= 1

Inits     == Kind("tls", "init")
Requests  == {c \in Calls : c.layer = "rm"}
Starts    == Kind("io", "init") \cup Kind("io", "connect") \cup With("tls", "connect", "OK")
Failures  == With("tls", "connect", "ERR") \cup With("codec", "connect", "ERR")
Connects  == Kind("codec", "connect")
Connected == With("codec", "connect", "OK")
Pulls     == Kind("codec", "pull")
Again     == Kind("tls", "pull")
Tokens    == Kind("io", "push") \cup With("tls", "push", "WRITTEN")
Messages  == (Kind("tls", "push") \ Tokens) \cup Kind("codec", "push")
Gone      == Kind("tls", "close_externally")
Told      == Kind("codec", "close_externally")
Closes    == Kind("tls", "close") \cup Kind("io", "close") \cup Kind("io", "close_externally")
Ends      == Closes \cup Gone \cup Told

Tls == t.layer["tls"]

(* What the state of the layer says of its data.                            *)
LayerInv ==
  /\ t.broken = {}
  /\ t.file = t.d.rm.open
  /\ ~t.d.there => t.d = NoData /\ Tls \in {"NONE", "CLOSED"}
  /\ ~t.d.rm.there => t.d.rm = NoRm /\ t.event = "none"
  /\ t.d.rm.there => t.d.there /\ Tls \in {"NONE", "CLOSED"}
  /\ t.d.there /\ ~t.d.rm.there => t.d.lib.there /\ Tls # "NONE"
  /\ t.io_data => t.d.there /\ ~t.d.rm.there
  /\ ~t.io_data => t.io = "idle"

(* Connecting: the layers above only wait, and they have not been told yet. *)
ConnectingInv ==
  /\ Tls = "CONNECTING" => /\ t.d.handler = "connect" /\ up.state = "opening"
                           /\ ~t.d.to_write /\ ~t.d.send
                           /\ ~Has(t.calls, Messages) /\ ~Has(t.calls, Connects)
                           /\ (t.d.sending /\ ~t.d.lib.failed => AtWrite(t))
                           /\ (t.d.lib.failed \/ Short(t.calls))
  /\ Tls = "CONNECTED" => t.d.handler = "data" /\ ~Has(t.calls, Kind("tls", "connect"))

(* A call that begins something is alone in the queue.                      *)
StartInv ==
  /\ Has(t.calls, Inits) => /\ Only(t.calls, Inits) /\ up.state = "opening"
                            /\ (t.d.there => t.d.rm.there)
  /\ Has(t.calls, Requests) => t.d.rm.there
  /\ Has(t.calls, Starts) => Only(t.calls, Starts) /\ Tls = "CONNECTING"
  /\ Has(t.calls, Kind("io", "init")) => ~t.io_data
  /\ t.io = "connecting" => t.calls = <<>> /\ Tls = "CONNECTING"

(* The certificate is read by one coroutine, from one answer to the next.   *)
Waits(fn) ==
  \/ Only(t.calls, Kind("rm", fn)) /\ t.event = "none"
  \/ t.calls = <<>> /\ t.event \in (IF fn = "open" THEN {"stat", "open"} ELSE {fn})
Asked(cs, fn) ==
  /\ up.state = "opening" /\ t.d.conn_cs = cs /\ Waits(fn)
  /\ t.d.rm.callback = "init" /\ t.d.rm.st = "OK"
Answered(cs) ==
  /\ up.state = "opening" /\ t.d.conn_cs = cs /\ Only(t.calls, With("tls", "init", "OK"))
  /\ t.d.rm.callback = "none" /\ t.event = "none"
Failed ==
  /\ t.d.rm.callback = "none" /\ t.event = "none" /\ t.d.conn_cs = "start"
  /\ t.d.rm.open => t.d.rm.buffer
  /\ \/ up.state = "opening" /\ Only(t.calls, Failures)
     \/ up.state = "failed" /\ t.calls = <<>>
     \/ up.state = "closing" /\ Only(t.calls, Closes \cup Gone)
Releasing ==
  /\ t.d.rm.callback = "close_externally" /\ t.d.conn_cs = "start" /\ up.state = "closing"
  /\ Waits("close") /\ t.d.rm.open /\ t.d.rm.buffer
LoadInv ==
  t.d.rm.there =>
    /\ ~t.d.sending /\ ~t.d.send /\ ~t.d.to_write
    /\ \/ Asked("opening", "open") /\ ~t.d.rm.open
       \/ Answered("opening") /\ t.d.rm.open
       \/ Asked("reading", "read") /\ t.d.rm.open
       \/ Answered("reading") /\ t.d.rm.open /\ t.d.rm.buffer
       \/ Asked("releasing", "close") /\ t.d.rm.open /\ t.d.rm.buffer /\ t.d.lib.there
       \/ Answered("releasing") /\ ~t.d.rm.open /\ t.d.lib.there
       \/ Failed \/ Releasing

(* The end goes up only after it went down.                                 *)
EndInv ==
  /\ Has(t.calls, Gone) => ~t.io_data
  /\ Has(t.calls, Told) \/ up.state = "idle" => ~t.d.there /\ ~Has(t.calls, Inits)

(* One buffer of the library at most is on its way to the socket and back.  *)
TokenInv ==
  t.d.there =>
    /\ One(t.calls, Tokens)
    /\ t.io = "blocked" => ~Has(t.calls, Tokens)
    /\ Has(t.calls, Tokens) \/ t.io = "blocked" => t.d.write = "WRITING"
    /\ t.d.sending <=> t.d.write # "NONE"

(* One message at most is with the layer.                                   *)
PushInv ==
  Tls = "CONNECTED" =>
    /\ One(t.calls, Messages)
    /\ Has(t.calls, Messages) => ~t.d.to_write
    /\ Has(t.calls, Messages) \/ t.d.to_write => up.pushing
    /\ t.d.send \/ t.d.sending => t.d.to_write

(* What is undecoded is asked for again; an open connection works or ends.  *)
\* No news of a connection comes after the news of its end.
Late(q) == \A i, j \in 1 .. Len(q) : q[i] \in Told /\ q[j] \in Connected => j < i
DataInv ==
  /\ Tls = "CONNECTED" /\ Undecoded(t) => Has(t.calls, Again)
  /\ up.state = "open" \/ Has(t.calls, Connected) => Tls = "CONNECTED" \/ Has(t.calls, Ends)
  /\ Late(t.calls)

(* Data comes after the news that the connection is open.                   *)
Led(q) == \A i \in 1 .. Len(q) : q[i] \in Pulls => \E j \in 1 .. (i - 1) : q[j] \in Connected
EarlyInv ==
  /\ ~up.early
  /\ up.state = "opening" => Led(t.calls)
  /\ up.state = "opening" /\ Tls = "CONNECTED" => Has(t.calls, Connected)

Rules == /\ LayerInv /\ ConnectingInv /\ StartInv /\ LoadInv /\ EndInv
         /\ TokenInv /\ PushInv /\ DataInv /\ EarlyInv

Inv == Types /\ Rules

-----------------------------------------------------------------------------
(* The queue: what an empty one holds, and what one more or one less does.  *)
LEMMA QueueEmpty ==
  /\ \A S : ~Has(<<>>, S) /\ One(<<>>, S) /\ ~Only(<<>>, S)
  /\ Led(<<>>) /\ Late(<<>>) /\ Short(<<>>)
BY DEF Has, One, Only, Led, Late, Short

\* p is the queue q with the call x at its end; r is q without its head x.
Longer(p, q, x) ==
  /\ p \in Seq(Calls) /\ p # <<>>
  /\ \A S : Has(p, S) <=> Has(q, S) \/ x \in S
  /\ \A S : One(p, S) <=> One(q, S) /\ ~(x \in S /\ Has(q, S))
  /\ \A S : Only(p, S) <=> q = <<>> /\ x \in S
  /\ Led(p) <=> Led(q) /\ (x \in Pulls => Has(q, Connected))
  /\ Late(q) /\ ~(x \in Connected /\ Has(q, Told)) => Late(p)
  /\ Short(p) <=> q = <<>>
Shorter(q, x, r) ==
  /\ x \in Calls /\ r \in Seq(Calls)
  /\ \A S : Has(q, S) <=> x \in S \/ Has(r, S)
  /\ \A S : One(q, S) => One(r, S) /\ ~(x \in S /\ Has(r, S))
  /\ \A S : Only(q, S) <=> r = <<>> /\ x \in S
  /\ Led(q) => x \notin Pulls /\ (x \in Connected \/ Led(r))
  /\ Late(q) => Late(r) /\ ~(x \in Told /\ Has(r, Connected))
  /\ Short(q) => r = <<>>

LEMMA QueueAppend ==
  ASSUME NEW q \in Seq(Calls), NEW x \in Calls
  PROVE  Longer(Append(q, x), q, x)
<1> DEFINE r == Append(q, x)
<1>1. /\ r \in Seq(Calls) /\ Len(r) = Len(q) + 1 /\ Len(q) \in Nat
      /\ \A i \in 1 .. Len(q) : r[i] = q[i]
      /\ r[Len(q) + 1] = x /\ r # <<>>
  OBVIOUS
<1> HIDE DEF r
<1>2. ASSUME NEW S PROVE Has(r, S) <=> Has(q, S) \/ x \in S
  BY <1>1 DEF Has
<1>3. ASSUME NEW S PROVE One(r, S) <=> One(q, S) /\ ~(x \in S /\ Has(q, S))
  <2>1. One(r, S) => One(q, S) /\ ~(x \in S /\ Has(q, S))
    <3> SUFFICES ASSUME One(r, S) PROVE One(q, S) /\ ~(x \in S /\ Has(q, S)) OBVIOUS
    <3>1. One(q, S) BY <1>1 DEF One
    <3>2. ~(x \in S /\ Has(q, S))
      <4> SUFFICES ASSUME x \in S, NEW i \in 1 .. Len(q), q[i] \in S PROVE FALSE BY DEF Has
      <4> QED BY <1>1 DEF One
    <3> QED BY <3>1, <3>2
  <2>2. One(q, S) /\ ~(x \in S /\ Has(q, S)) => One(r, S)
    BY <1>1 DEF One, Has
  <2> QED BY <2>1, <2>2
<1>4. ASSUME NEW S PROVE Only(r, S) <=> q = <<>> /\ x \in S
  <2>1. Len(r) = 1 <=> q = <<>> BY <1>1
  <2> QED BY <2>1, <1>1 DEF Only
<1>5. Led(r) <=> Led(q) /\ (x \in Pulls => Has(q, Connected))
  <2>1. Led(r) => Led(q) BY <1>1 DEF Led
  <2>2. Led(r) /\ x \in Pulls => Has(q, Connected) BY <1>1 DEF Led, Has
  <2>3. Led(q) /\ (x \in Pulls => Has(q, Connected)) => Led(r) BY <1>1 DEF Led, Has
  <2> QED BY <2>1, <2>2, <2>3
<1>6. ASSUME Late(q), ~(x \in Connected /\ Has(q, Told)) PROVE Late(r)
  <2> SUFFICES ASSUME NEW i \in 1 .. Len(r), NEW j \in 1 .. Len(r),
                      r[i] \in Told, r[j] \in Connected
               PROVE  j < i
    BY DEF Late
  <2>1. Told \cap Connected = {} BY DEF Told, Connected, Kind, With
  <2>2. CASE j = Len(q) + 1
    <3>1. i \in 1 .. Len(q) /\ q[i] \in Told BY <2>1, <2>2, <1>1
    <3> QED BY <3>1, <2>2, <1>1, <1>6 DEF Has
  <2>3. CASE j # Len(q) + 1
    <3>1. CASE i = Len(q) + 1 BY <3>1, <2>3, <1>1
    <3>2. CASE i # Len(q) + 1
      <4>1. /\ i \in 1 .. Len(q) /\ j \in 1 .. Len(q)
            /\ q[i] \in Told /\ q[j] \in Connected
        BY <3>2, <2>3, <1>1
      <4> QED BY <4>1, <1>6 DEF Late
    <3> QED BY <3>1, <3>2
  <2> QED BY <2>2, <2>3
<1>7. Short(r) <=> q = <<>> BY <1>1 DEF Short
<1>8. Longer(r, q, x) BY <1>1, <1>2, <1>3, <1>4, <1>5, <1>6, <1>7 DEF Longer
<1> QED BY <1>8 DEF r

LEMMA QueueTail ==
  ASSUME NEW q \in Seq(Calls), q # <<>>
  PROVE  Shorter(q, Head(q), Tail(q))
<1> DEFINE r == Tail(q)
           x == Head(q)
<1>1. /\ r \in Seq(Calls) /\ x \in Calls /\ Len(r) = Len(q) - 1 /\ Len(q) \in Nat \ {0}
      /\ \A i \in 1 .. Len(r) : r[i] = q[i + 1]
      /\ x = q[1]
  OBVIOUS
<1> HIDE DEF r, x
<1>2. ASSUME NEW S PROVE Has(q, S) <=> x \in S \/ Has(r, S)
  <2>1. ASSUME NEW i \in 1 .. Len(q), q[i] \in S PROVE x \in S \/ Has(r, S)
    <3>1. CASE i = 1 BY <3>1, <2>1, <1>1
    <3>2. CASE i # 1
      <4>1. i - 1 \in 1 .. Len(r) /\ r[i - 1] = q[i] BY <3>2, <1>1
      <4> QED BY <4>1, <2>1 DEF Has
    <3> QED BY <3>1, <3>2
  <2>2. x \in S => Has(q, S) BY <1>1 DEF Has
  <2>3. ASSUME NEW i \in 1 .. Len(r), r[i] \in S PROVE Has(q, S)
    <3>1. i + 1 \in 1 .. Len(q) /\ q[i + 1] \in S BY <2>3, <1>1
    <3> QED BY <3>1 DEF Has
  <2> QED BY <2>1, <2>2, <2>3 DEF Has
<1>3. ASSUME NEW S, One(q, S) PROVE One(r, S) /\ ~(x \in S /\ Has(r, S))
  <2>1. ASSUME NEW i \in 1 .. Len(r), NEW j \in 1 .. Len(r), r[i] \in S, r[j] \in S PROVE i = j
    <3>1. i + 1 \in 1 .. Len(q) /\ j + 1 \in 1 .. Len(q) /\ q[i + 1] \in S /\ q[j + 1] \in S
      BY <2>1, <1>1
    <3>2. i + 1 = j + 1 BY <3>1, <1>3 DEF One
    <3> QED BY <3>2
  <2>2. ASSUME x \in S, NEW i \in 1 .. Len(r), r[i] \in S PROVE FALSE
    <3>1. i + 1 \in 1 .. Len(q) /\ 1 \in 1 .. Len(q) /\ q[i + 1] \in S /\ q[1] \in S
      BY <2>2, <1>1
    <3>2. i + 1 = 1 BY <3>1, <1>3 DEF One
    <3> QED BY <3>2
  <2> QED BY <2>1, <2>2 DEF One, Has
<1>4. ASSUME NEW S PROVE Only(q, S) <=> r = <<>> /\ x \in S
  <2>1. Len(q) = 1 <=> r = <<>> BY <1>1
  <2> QED BY <2>1, <1>1 DEF Only
<1>5. ASSUME Led(q) PROVE x \notin Pulls /\ (x \in Connected \/ Led(r))
  <2>1. x \notin Pulls BY <1>1, <1>5 DEF Led
  <2>2. ASSUME x \notin Connected, NEW i \in 1 .. Len(r), r[i] \in Pulls
        PROVE  \E j \in 1 .. (i - 1) : r[j] \in Connected
    <3>1. i + 1 \in 1 .. Len(q) /\ q[i + 1] \in Pulls BY <2>2, <1>1
    <3>2. PICK j \in 1 .. i : q[j] \in Connected BY <3>1, <1>5 DEF Led
    <3>3. j # 1 BY <3>2, <2>2, <1>1
    <3>4. j - 1 \in 1 .. (i - 1) /\ r[j - 1] = q[j] BY <3>3, <1>1
    <3> QED BY <3>4, <3>2
  <2> QED BY <2>1, <2>2 DEF Led
<1>6. ASSUME Late(q) PROVE Late(r) /\ ~(x \in Told /\ Has(r, Connected))
  <2>1. ASSUME NEW i \in 1 .. Len(r), NEW j \in 1 .. Len(r), r[i] \in Told, r[j] \in Connected
        PROVE  j < i
    <3>1. /\ i + 1 \in 1 .. Len(q) /\ j + 1 \in 1 .. Len(q)
          /\ q[i + 1] \in Told /\ q[j + 1] \in Connected
      BY <2>1, <1>1
    <3>2. j + 1 < i + 1 BY <3>1, <1>6 DEF Late
    <3> QED BY <3>2
  <2>2. ASSUME x \in Told, NEW j \in 1 .. Len(r), r[j] \in Connected PROVE FALSE
    <3>1. /\ 1 \in 1 .. Len(q) /\ j + 1 \in 1 .. Len(q)
          /\ q[1] \in Told /\ q[j + 1] \in Connected
      BY <2>2, <1>1
    <3>2. j + 1 < 1 BY <3>1, <1>6 DEF Late
    <3> QED BY <3>2
  <2> QED BY <2>1, <2>2 DEF Late, Has
<1>7. Short(q) => r = <<>> BY <1>1 DEF Short
<1>8. Shorter(q, x, r) BY <1>1, <1>2, <1>3, <1>4, <1>5, <1>6, <1>7 DEF Shorter
<1> QED BY <1>8 DEF r, x

\* A queue that holds none of a kind.
LEMMA QueueWithout ==
  ASSUME NEW q
  PROVE  /\ \A S : ~Has(q, S) => One(q, S)
         /\ ~Has(q, Pulls) => Led(q)
         /\ ~Has(q, Told) => Late(q)
BY DEF Has, One, Led, Late

(* Which kinds a call is of.                                                *)
LEMMA KindsOf ==
  ASSUME NEW x \in Calls
  PROVE  /\ \A l, fn : x \in Kind(l, fn) <=> x.layer = l /\ x.fn = fn
         /\ \A l, fn, st : x \in With(l, fn, st) <=> x.layer = l /\ x.fn = fn /\ x.st = st
         /\ x \in Inits <=> x.layer = "tls" /\ x.fn = "init"
         /\ x \in Requests <=> x.layer = "rm"
         /\ x \in Starts <=> \/ x.layer = "io" /\ x.fn \in {"init", "connect"}
                             \/ x.layer = "tls" /\ x.fn = "connect" /\ x.st = "OK"
         /\ x \in Failures <=> x.layer \in {"tls", "codec"} /\ x.fn = "connect" /\ x.st = "ERR"
         /\ x \in Connects <=> x.layer = "codec" /\ x.fn = "connect"
         /\ x \in Connected <=> x.layer = "codec" /\ x.fn = "connect" /\ x.st = "OK"
         /\ x \in Pulls <=> x.layer = "codec" /\ x.fn = "pull"
         /\ x \in Again <=> x.layer = "tls" /\ x.fn = "pull"
         /\ x \in Tokens <=> \/ x.layer = "io" /\ x.fn = "push"
                             \/ x.layer = "tls" /\ x.fn = "push" /\ x.st = "WRITTEN"
         /\ x \in Messages <=> \/ x.layer = "codec" /\ x.fn = "push"
                               \/ x.layer = "tls" /\ x.fn = "push" /\ x.st # "WRITTEN"
         /\ x \in Gone <=> x.layer = "tls" /\ x.fn = "close_externally"
         /\ x \in Told <=> x.layer = "codec" /\ x.fn = "close_externally"
         /\ x \in Closes <=> \/ x.layer = "tls" /\ x.fn = "close"
                             \/ x.layer = "io" /\ x.fn \in {"close", "close_externally"}
         /\ x \in Ends <=> x \in Closes \/ x \in Gone \/ x \in Told
BY DEF Kind, With, Inits, Requests, Starts, Failures, Connects, Connected, Pulls, Again, Tokens,
       Messages, Gone, Told, Closes, Ends

LEMMA CallType ==
  ASSUME NEW l \in {"rm", "tls", "io", "codec"}, NEW fn \in FunctionNames, NEW n \in Nat,
         NEW st \in Statuses
  PROVE  [layer |-> l, fn |-> fn, arg |-> n, st |-> st] \in Calls
BY DEF Calls

-----------------------------------------------------------------------------
(* What the operators on the client's memory change, and that nothing else  *)
(* changes.                                                                 *)
Rest(a) == <<a.io_data, a.io, a.event, a.file, a.broken>>

\* b is a with the call x queued by a layer that goes over to state s.
Queues(b, a, from, x, s) ==
  /\ b \in Memory /\ b.calls = Append(a.calls, x) /\ b.layer = [a.layer EXCEPT ![from] = s]
  /\ b.d = a.d /\ b.ret = a.ret /\ Rest(b) = Rest(a)

LEMMA Continues ==
  ASSUME NEW a \in Memory, NEW from \in {"io", "tls", "codec"}, NEW to \in {"io", "tls", "codec"},
         NEW fn \in FunctionNames, NEW n \in Nat, NEW st \in Statuses
  PROVE  Queues(ContinueWith(a, from, fn, to, n, st), a, from,
                [layer |-> to, fn |-> fn, arg |-> n, st |-> st],
                NextLayerState(fn, a.layer[from], st))
<1> DEFINE x == [layer |-> to, fn |-> fn, arg |-> n, st |-> st]
           s == NextLayerState(fn, a.layer[from], st)
           b == ContinueWith(a, from, fn, to, n, st)
<1>1. x \in Calls BY CallType
<1>2. a.layer[from] \in LayerStates /\ a.layer \in [{"io", "tls", "codec"} -> LayerStates]
      /\ a.calls \in Seq(Calls)
  BY DEF Memory
<1>3. s \in LayerStates BY <1>2 DEF NextLayerState, LayerStates
<1>4. Append(a.calls, x) \in Seq(Calls) BY <1>1, <1>2
<1>5. [a.layer EXCEPT ![from] = s] \in [{"io", "tls", "codec"} -> LayerStates] BY <1>2, <1>3
<1>6. b = [a EXCEPT !.calls = Append(a.calls, x), !.layer = [a.layer EXCEPT ![from] = s]]
  BY DEF ContinueWith, Memory
<1> HIDE DEF x, s, b
<1>7. Queues(b, a, from, x, s)
  BY <1>4, <1>5, <1>6 DEF Memory, Rest, Queues
<1> QED BY <1>7 DEF x, s, b

LEMMA Become ==
  ASSUME NEW a \in Memory, Becomes(a)
  PROVE  /\ t' \in Memory /\ t'.calls = a.calls /\ t'.layer = a.layer /\ t'.d = a.d
         /\ Rest(t') = Rest(a)
BY DEF Becomes, Memory, Rest

\* The head of the queue is taken.
Taken(a) ==
  /\ a \in Memory /\ a.calls = Tail(t.calls) /\ a.layer = t.layer /\ a.d = t.d
  /\ Rest(a) = Rest(t) /\ Shorter(t.calls, Call, a.calls)

LEMMA Pop ==
  ASSUME Types, t.calls # <<>>
  PROVE  /\ t \in Memory /\ Taken(Popped) /\ Popped.calls \in Seq(Calls) /\ Call \in Calls
         /\ Call.layer \in {"rm", "tls", "io", "codec"} /\ Call.fn \in FunctionNames
         /\ Call.arg \in Nat /\ Call.st \in Statuses
<1>1. t \in Memory /\ t.calls \in Seq(Calls) BY DEF Types, Memory
<1>2. Tail(t.calls) \in Seq(Calls) BY <1>1
<1>3. /\ Popped \in Memory /\ Popped.calls = Tail(t.calls) /\ Popped.layer = t.layer
      /\ Popped.d = t.d /\ Rest(Popped) = Rest(t)
  BY <1>1, <1>2 DEF Popped, Memory, Rest
<1>4. Shorter(t.calls, Call, Tail(t.calls)) BY <1>1, QueueTail DEF Call
<1>5. Taken(Popped) BY <1>3, <1>4 DEF Taken
<1>6. Call \in Calls BY <1>4 DEF Shorter
<1> QED BY <1>1, <1>2, <1>3, <1>5, <1>6 DEF Calls

(* The write callback.                                                      *)
Kept(d) == <<d.there, d.conn_cs, d.handler, d.send, d.to_write, d.rm, d.lib.there>>
Write == [layer |-> "io", fn |-> "push", arg |-> 0, st |-> "OK"]
Matched(d) == d.sending <=> d.write # "NONE"

LEMMA Sends ==
  ASSUME NEW a \in Memory, Matched(a.d), NEW b, b = SendCallback(a)
  PROVE  /\ b \in Memory /\ b.layer = a.layer /\ Rest(b) = Rest(a)
         /\ Kept(b.d) = Kept(a.d) /\ b.d.lib = a.d.lib /\ b.d.raw = a.d.raw /\ Matched(b.d)
         /\ b.d.write = "WRITTEN" => FALSE
         /\ a.d.write = "NONE" => /\ b.calls = Append(a.calls, Write) /\ b.d.write = "WRITING"
                                  /\ b.ret = "WANT_WRITE"
         /\ a.d.write = "WRITING" => b.calls = a.calls /\ b.d.write = "WRITING" /\ b.ret = "WANT_WRITE"
         /\ a.d.write = "WRITTEN" => b.calls = a.calls /\ b.d.write = "NONE" /\ b.ret = "OK"
<1>1. CASE ~a.d.sending
  <2> DEFINE e == [a EXCEPT !.d.write = "WRITING", !.d.sending = TRUE, !.ret = "WANT_WRITE"]
  <2>1. a.d.write = "NONE" BY <1>1 DEF Matched
  <2>2. Check(a, a.d.write = "NONE", "send_starts") = a BY <2>1 DEF Check
  <2>3. b = ContinueWith(e, "tls", "push", "io", 0, "OK")
    BY <1>1, <2>2 DEF SendCallback, Downwards
  <2>4. /\ e \in Memory /\ e.calls = a.calls /\ e.layer = a.layer /\ Rest(e) = Rest(a)
        /\ Kept(e.d) = Kept(a.d) /\ e.d.lib = a.d.lib /\ e.d.raw = a.d.raw
        /\ e.d.write = "WRITING" /\ e.d.sending /\ e.ret = "WANT_WRITE"
    BY DEF Memory, Data, Rest, Kept
  <2> HIDE DEF e
  <2>5. /\ b \in Memory /\ b.calls = Append(e.calls, Write) /\ b.d = e.d /\ b.ret = e.ret
        /\ b.layer = [e.layer EXCEPT !["tls"] = NextLayerState("push", @, "OK")]
        /\ Rest(b) = Rest(e)
    <3>1. "push" \in FunctionNames /\ "OK" \in Statuses BY DEF FunctionNames, Statuses
    <3>2. Queues(b, e, "tls", Write, NextLayerState("push", e.layer["tls"], "OK"))
      BY <2>3, <2>4, <3>1, Continues DEF Write
    <3> QED BY <3>2 DEF Queues
  <2>6. b.layer = a.layer
    <3>1. NextLayerState("push", e.layer["tls"], "OK") = e.layer["tls"] BY DEF NextLayerState
    <3>2. e.layer \in [{"io", "tls", "codec"} -> LayerStates] BY <2>4 DEF Memory
    <3> QED BY <2>4, <2>5, <3>1, <3>2
  <2> QED BY <2>1, <2>4, <2>5, <2>6 DEF Matched
<1>2. CASE a.d.sending /\ a.d.write # "WRITTEN"
  <2>1. a.d.write = "WRITING" BY <1>2 DEF Matched, Memory, Data
  <2>2. Check(a, a.d.write # "NONE", "send_waits") = a BY <2>1 DEF Check
  <2>3. b = [a EXCEPT !.ret = "WANT_WRITE"] BY <1>2, <2>2 DEF SendCallback
  <2> QED BY <2>1, <2>3 DEF Memory, Rest, Kept, Matched
<1>3. CASE a.d.sending /\ a.d.write = "WRITTEN"
  <2> DEFINE e == [a EXCEPT !.d.write = "NONE", !.d.sending = FALSE, !.ret = "OK"]
  <2>1. b = e BY <1>3 DEF SendCallback
  <2>2. e \in Memory BY DEF Memory, Data
  <2>3. e.calls = a.calls /\ e.layer = a.layer /\ Rest(e) = Rest(a) /\ e.ret = "OK"
    BY DEF Memory, Rest
  <2>4. /\ Kept(e.d) = Kept(a.d) /\ e.d.lib = a.d.lib /\ e.d.raw = a.d.raw
        /\ e.d.write = "NONE" /\ ~e.d.sending
    BY DEF Memory, Data, Kept
  <2> HIDE DEF e
  <2> QED BY <1>3, <2>1, <2>2, <2>3, <2>4 DEF Matched
<1> QED BY <1>1, <1>2, <1>3

(* The library: what it may do to the layer while it is called.             *)
LibKeeps(b, a) ==
  /\ b \in Memory /\ b.layer = a.layer /\ Rest(b) = Rest(a) /\ Kept(b.d) = Kept(a.d)
  /\ Matched(b.d)
  /\ \/ b.calls = a.calls /\ (a.d.write = "WRITING" => b.d.write = "WRITING")
     \/ b.calls = Append(a.calls, Write) /\ a.d.write # "WRITING" /\ b.d.write = "WRITING"

LEMMA LeastOne ==
  ASSUME NEW S \in SUBSET Nat, S # {}
  PROVE  Min(S) \in S /\ \A m \in S : Min(S) <= m
<1> DEFINE R == OpToRel(<, Nat)
<1>1. IsWellFoundedOn(R, Nat) BY NatLessThanWellFounded
<1>2. \A m, n \in Nat : m < n => <<m, n>> \in R BY DEF OpToRel
<1> HIDE DEF R
<1>3. PICK n \in S : \A m \in S : ~(<<m, n>> \in R) BY <1>1, WFMin
<1>4. \A m \in S : n <= m
  <2> SUFFICES ASSUME NEW m \in S, ~(n <= m) PROVE FALSE OBVIOUS
  <2>1. m < n /\ m \in Nat /\ n \in Nat OBVIOUS
  <2> QED BY <2>1, <1>2, <1>3
<1> QED BY <1>4 DEF Min

LEMMA ReadableUnits ==
  ASSUME NEW a \in Memory
  PROVE  /\ Readable(a) \in 0 .. a.d.raw
         /\ a.d.lib.step + Readable(a) \in 1 .. Len(Handshake) + 1
<1> DEFINE S == {n \in 0 .. a.d.raw : n = a.d.raw \/ ~Reads(a.d.lib.step + n)}
           n == Min(S)
<1>1. a.d.raw \in Nat /\ a.d.lib.step \in 1 .. Len(Handshake) + 1 /\ Len(Handshake) \in Nat
  BY TlsAssumption DEF Memory, Data, LibTypes
<1>2. S \in SUBSET Nat /\ a.d.raw \in S BY <1>1
<1> HIDE DEF n
<1>3. n \in S /\ \A m \in S : n <= m BY <1>2, LeastOne DEF n
<1>4. n \in 0 .. a.d.raw BY <1>3
<1>5. CASE n = 0 BY <1>1, <1>4, <1>5 DEF Readable, n
<1>6. CASE n # 0
  <2>1. n - 1 \in 0 .. a.d.raw /\ ~(n <= n - 1) BY <1>1, <1>4, <1>6
  <2>2. n - 1 \notin S BY <2>1, <1>3
  <2>3. Reads(a.d.lib.step + (n - 1)) BY <2>1, <2>2
  <2>4. a.d.lib.step + n \in 1 .. Len(Handshake) + 1 BY <2>3, <1>1, <1>4 DEF Reads
  <2> QED BY <2>4, <1>4 DEF Readable, n
<1> QED BY <1>5, <1>6

LEMMA Received ==
  ASSUME NEW a \in Memory, NEW n \in 0 .. a.d.raw, NEW b, b = RecvCallback(a, n)
  PROVE  /\ b \in Memory /\ b.calls = a.calls /\ b.layer = a.layer /\ Rest(b) = Rest(a)
         /\ Kept(b.d) = Kept(a.d) /\ b.d.lib = a.d.lib /\ b.d.raw = a.d.raw - n
         /\ b.d.write = a.d.write /\ b.d.sending = a.d.sending /\ b.ret = a.ret
<1> DEFINE e == [a EXCEPT !.d.raw = a.d.raw - n]
<1>1. a.d.raw - n \in Nat BY DEF Memory, Data
<1>2. e \in Memory BY <1>1 DEF Memory, Data
<1>3. e.calls = a.calls /\ e.layer = a.layer /\ Rest(e) = Rest(a) /\ e.ret = a.ret
  BY DEF Memory, Rest
<1>4. /\ Kept(e.d) = Kept(a.d) /\ e.d.lib = a.d.lib /\ e.d.raw = a.d.raw - n
      /\ e.d.write = a.d.write /\ e.d.sending = a.d.sending
  BY DEF Memory, Data, Kept
<1>5. b = e BY DEF RecvCallback
<1> HIDE DEF e
<1> QED BY <1>2, <1>3, <1>4, <1>5

LEMMA Refuses ==
  ASSUME NEW a \in Memory, Matched(a.d)
  PROVE  /\ LibKeeps(Refuse(a), a) /\ Refuse(a).d.lib.failed /\ Refuse(a).ret = "ERROR"
<1> DEFINE s == SendCallback(a)
           e == [s EXCEPT !.d.lib.failed = TRUE, !.ret = "ERROR"]
<1>1. /\ s \in Memory /\ s.layer = a.layer /\ Rest(s) = Rest(a) /\ Kept(s.d) = Kept(a.d)
      /\ Matched(s.d)
      /\ \/ s.calls = a.calls /\ (a.d.write = "WRITING" => s.d.write = "WRITING")
         \/ s.calls = Append(a.calls, Write) /\ a.d.write # "WRITING" /\ s.d.write = "WRITING"
  <2>1. a.d.write \in {"NONE", "WRITING", "WRITTEN"} BY DEF Memory, Data
  <2> QED BY <2>1, Sends
<1> HIDE DEF s
<1>2. e \in Memory BY <1>1 DEF Memory, Data, LibTypes
<1>3. e.calls = s.calls /\ e.layer = s.layer /\ Rest(e) = Rest(s) /\ e.ret = "ERROR"
  BY <1>1 DEF Memory, Rest
<1>4. /\ Kept(e.d) = Kept(s.d) /\ e.d.lib.failed
      /\ e.d.write = s.d.write /\ e.d.sending = s.d.sending
  BY <1>1 DEF Memory, Data, LibTypes, Kept
<1>5. Refuse(a) = e BY DEF Refuse, s
<1> HIDE DEF e
<1> QED BY <1>1, <1>2, <1>3, <1>4, <1>5 DEF LibKeeps, Matched

Stepped(b, a, k) ==
  /\ b \in Memory /\ b.calls = a.calls /\ b.layer = a.layer /\ Rest(b) = Rest(a)
  /\ Kept(b.d) = Kept(a.d) /\ b.d.lib.step = k
  /\ b.d.write = a.d.write /\ b.d.sending = a.d.sending

LEMMA Steps ==
  ASSUME NEW a \in Memory, NEW k \in 1 .. Len(Handshake) + 1
  PROVE  Stepped([a EXCEPT !.d.lib.step = k], a, k)
<1> DEFINE e == [a EXCEPT !.d.lib.step = k]
<1>1. e \in Memory BY DEF Memory, Data, LibTypes
<1>2. e.calls = a.calls /\ e.layer = a.layer /\ Rest(e) = Rest(a) BY DEF Memory, Rest
<1>3. /\ Kept(e.d) = Kept(a.d) /\ e.d.lib.step = k
      /\ e.d.write = a.d.write /\ e.d.sending = a.d.sending
  BY DEF Memory, Data, LibTypes, Kept
<1> HIDE DEF e
<1>4. Stepped(e, a, k) BY <1>1, <1>2, <1>3 DEF Stepped
<1> QED BY <1>4 DEF e

LEMMA Returns ==
  ASSUME NEW a \in Memory, NEW r \in {"OK", "WANT_READ", "WANT_WRITE", "ERROR"},
         NEW b, b = [a EXCEPT !.ret = r]
  PROVE  /\ b \in Memory /\ b.calls = a.calls /\ b.layer = a.layer /\ Rest(b) = Rest(a)
         /\ b.d = a.d /\ b.ret = r
<1> DEFINE e == [a EXCEPT !.ret = r]
<1>1. /\ e \in Memory /\ e.calls = a.calls /\ e.layer = a.layer /\ Rest(e) = Rest(a)
      /\ e.d = a.d /\ e.ret = r
  BY DEF Memory, Rest
<1>2. b = e OBVIOUS
<1> HIDE DEF e
<1> QED BY <1>1, <1>2

(* The handshake goes on: it has finished, or it waits for the buffer it    *)
(* has handed down, or for more to read.                                    *)
LEMMA ConnectsLib ==
  ASSUME NEW a \in Memory, Matched(a.d), a.d.sending /\ ~a.d.lib.failed => AtWrite(a),
         NEW bad \in BOOLEAN, NEW b, b = LibConnect(a, bad)
  PROVE  /\ LibKeeps(b, a)
         /\ b.d.sending /\ ~b.d.lib.failed => AtWrite(b)
         /\ b.ret = "OK" => ~b.d.sending /\ b.calls = a.calls /\ ~a.d.lib.failed
         /\ a.d.lib.failed \/ b.ret = "ERROR" => b.d.lib.failed
<1> DEFINE s       == SendCallback(a)
           written == IF AtWrite(a) THEN [s EXCEPT !.d.lib.step = @ + 1] ELSE a
           n       == Readable(written)
           got     == RecvCallback(written, n)
           read    == [got EXCEPT !.d.lib.step = @ + n]
           Plain(e) == /\ e \in Memory /\ e.layer = a.layer /\ Rest(e) = Rest(a)
                       /\ Kept(e.d) = Kept(a.d) /\ e.calls = a.calls
<1>0. /\ a.d.write \in {"NONE", "WRITING", "WRITTEN"} /\ a.d.sending \in BOOLEAN
      /\ a.d.lib.step \in 1 .. Len(Handshake) + 1 /\ Len(Handshake) \in Nat
  BY TlsAssumption DEF Memory, Data, LibTypes
<1>1. /\ LibKeeps(s, a) /\ s.d.lib = a.d.lib
      /\ s.ret = "OK" => a.d.write = "WRITTEN" /\ s.calls = a.calls /\ s.d.write = "NONE"
      /\ s.ret # "ERROR"
  BY <1>0, Sends DEF LibKeeps
<1>2. CASE a.d.lib.failed
  <2> DEFINE e == IF a.d.sending THEN s ELSE a
             r == IF bad THEN "ERROR" ELSE "WANT_READ"
  <2>1. b = [e EXCEPT !.ret = r] BY <1>2 DEF LibConnect
  <2>2. LibKeeps(e, a) /\ e \in Memory /\ e.d.lib.failed
    BY <1>1, <1>2 DEF LibKeeps
  <2>3. r \in {"OK", "WANT_READ", "WANT_WRITE", "ERROR"} /\ r # "OK" OBVIOUS
  <2> HIDE DEF e, r
  <2>4. /\ b \in Memory /\ b.calls = e.calls /\ b.layer = e.layer /\ Rest(b) = Rest(e)
        /\ b.d = e.d /\ b.ret = r
    BY <2>1, <2>2, <2>3, Returns
  <2> QED BY <2>2, <2>3, <2>4 DEF LibKeeps
<1>3. CASE ~a.d.lib.failed /\ AtWrite(a) /\ s.ret # "OK"
  <2>1. b = s BY <1>3 DEF LibConnect
  <2>2. AtWrite(s) BY <1>1, <1>3 DEF AtWrite
  <2> HIDE DEF s
  <2> QED BY <1>1, <1>3, <2>1, <2>2
<1>4. CASE ~a.d.lib.failed /\ ~(AtWrite(a) /\ s.ret # "OK")
  <2>1. Plain(written) /\ ~written.d.sending /\ Matched(written.d)
    <3>1. CASE AtWrite(a)
      <4> HIDE DEF s
      <4> DEFINE k == s.d.lib.step + 1
      <4>1. k \in 1 .. Len(Handshake) + 1 BY <1>0, <1>1, <3>1 DEF AtWrite
      <4>2. s \in Memory /\ s.ret = "OK" /\ s.d.write = "NONE" /\ Matched(s.d)
            /\ s.calls = a.calls
        BY <1>1, <1>4, <3>1 DEF LibKeeps
      <4>3. written = [s EXCEPT !.d.lib.step = k] BY <3>1
      <4> HIDE DEF written, k
      <4>4. Stepped(written, s, k) BY <4>1, <4>2, <4>3, Steps
      <4> QED BY <4>2, <4>4, <1>1 DEF LibKeeps, Matched, Stepped
    <3>2. CASE ~AtWrite(a)
      BY <3>2, <1>0, <1>4
    <3> QED BY <3>1, <3>2
  <2>2. n \in 0 .. written.d.raw /\ written.d.lib.step + n \in 1 .. Len(Handshake) + 1
    BY <2>1, ReadableUnits
  <2>3. CASE bad /\ n > 0
    <3> DEFINE e == RecvCallback(written, 1)
    <3>1. b = Refuse(e) BY <1>4, <2>3 DEF LibConnect
    <3>2. 1 \in 0 .. written.d.raw BY <2>1, <2>2, <2>3 DEF Memory, Data
    <3> HIDE DEF written, n
    <3>3. Plain(e) /\ Matched(e.d) /\ ~e.d.sending
      <4>1. /\ e \in Memory /\ e.calls = written.calls /\ e.layer = written.layer
            /\ Rest(e) = Rest(written) /\ Kept(e.d) = Kept(written.d)
            /\ e.d.write = written.d.write /\ e.d.sending = written.d.sending
        BY <2>1, <3>2, Received
      <4> QED BY <2>1, <4>1 DEF Matched
    <3> HIDE DEF e
    <3>4. LibKeeps(b, e) /\ b.d.lib.failed /\ b.ret = "ERROR" BY <3>1, <3>3, Refuses
    <3>5. e.d.write = "NONE" BY <3>3 DEF Matched
    <3>6. a.d.write # "WRITING"
      <4>1. a.d.sending => AtWrite(a) BY <1>4
      <4>2. AtWrite(a) => a.d.write = "WRITTEN" BY <1>1, <1>4
      <4> QED BY <4>1, <4>2, <1>0 DEF Matched
    <3> QED BY <3>3, <3>4, <3>5, <3>6 DEF LibKeeps
  <2>4. CASE ~(bad /\ n > 0)
    <3>1. /\ Plain(got) /\ ~got.d.sending /\ Matched(got.d)
          /\ got.d.lib = written.d.lib
      <4> HIDE DEF written, n
      <4>1. /\ got \in Memory /\ got.calls = written.calls /\ got.layer = written.layer
            /\ Rest(got) = Rest(written) /\ Kept(got.d) = Kept(written.d)
            /\ got.d.write = written.d.write /\ got.d.sending = written.d.sending
            /\ got.d.lib = written.d.lib
        BY <2>1, <2>2, Received
      <4> QED BY <2>1, <4>1 DEF Matched
    <3> DEFINE k == got.d.lib.step + n
    <3>2. k \in 1 .. Len(Handshake) + 1 BY <2>2, <3>1
    <3>3. /\ Plain(read) /\ ~read.d.sending /\ Matched(read.d) /\ read.d.lib.step = k
      <4>1. read = [got EXCEPT !.d.lib.step = k] OBVIOUS
      <4> HIDE DEF read, got, k
      <4>2. Stepped(read, got, k) BY <3>1, <3>2, <4>1, Steps
      <4> QED BY <3>1, <4>2 DEF Matched, Stepped
    <3>4. b = IF read.d.lib.step > Len(Handshake) THEN [read EXCEPT !.ret = "OK"]
              ELSE IF AtWrite(read) THEN SendCallback(read)
              ELSE [read EXCEPT !.ret = "WANT_READ"]
      BY <1>4, <2>4 DEF LibConnect
    <3> HIDE DEF read
    <3>5. a.d.write # "WRITING"
      <4>1. a.d.sending => AtWrite(a) BY <1>4
      <4>2. AtWrite(a) => a.d.write = "WRITTEN" BY <1>1, <1>4
      <4> QED BY <4>1, <4>2, <1>0 DEF Matched
    <3>6. read.d.write = "NONE" BY <3>3 DEF Matched
    <3>7. ASSUME NEW r \in {"OK", "WANT_READ"}, b = [read EXCEPT !.ret = r]
          PROVE  LibKeeps(b, a) /\ ~b.d.sending /\ b.calls = a.calls /\ b.ret # "ERROR"
      <4>1. /\ b \in Memory /\ b.calls = read.calls /\ b.layer = read.layer
            /\ Rest(b) = Rest(read) /\ b.d = read.d /\ b.ret = r
        BY <3>3, <3>7, Returns
      <4> QED BY <3>3, <3>5, <4>1 DEF LibKeeps
    <3>8. CASE b = SendCallback(read) /\ AtWrite(read)
      <4>1. /\ b \in Memory /\ b.layer = read.layer /\ Rest(b) = Rest(read)
            /\ Kept(b.d) = Kept(read.d) /\ Matched(b.d) /\ b.d.lib = read.d.lib
            /\ b.calls = Append(read.calls, Write) /\ b.d.write = "WRITING"
            /\ b.ret = "WANT_WRITE"
        BY <3>3, <3>6, <3>8, Sends
      <4>2. AtWrite(b) BY <3>8, <4>1 DEF AtWrite
      <4> QED BY <1>4, <3>3, <3>5, <4>1, <4>2 DEF LibKeeps
    <3> QED BY <1>4, <3>4, <3>7, <3>8
  <2> QED BY <2>3, <2>4
<1> QED BY <1>2, <1>3, <1>4

(* Changes inside the library that leave the rest alone.                    *)
Inside(b, a, r, p) ==
  /\ b \in Memory /\ b.calls = a.calls /\ b.layer = a.layer /\ Rest(b) = Rest(a)
  /\ Kept(b.d) = Kept(a.d) /\ b.d.write = a.d.write /\ b.d.sending = a.d.sending
  /\ b.d.raw = a.d.raw /\ b.ret = r /\ b.d.lib.pending = p

LEMMA WholeRecord ==
  ASSUME NEW a \in Memory, NEW u \in 0 .. RecordUnits - 1
  PROVE  Inside([a EXCEPT !.d.lib.units = u], a, a.ret, a.d.lib.pending)
<1> DEFINE e == [a EXCEPT !.d.lib.units = u]
<1>1. e \in Memory BY DEF Memory, Data, LibTypes
<1>2. e.calls = a.calls /\ e.layer = a.layer /\ Rest(e) = Rest(a) /\ e.ret = a.ret
  BY DEF Memory, Rest
<1>3. /\ Kept(e.d) = Kept(a.d) /\ e.d.write = a.d.write /\ e.d.sending = a.d.sending
      /\ e.d.raw = a.d.raw /\ e.d.lib.pending = a.d.lib.pending
  BY DEF Memory, Data, LibTypes, Kept
<1> HIDE DEF e
<1>4. Inside(e, a, a.ret, a.d.lib.pending) BY <1>1, <1>2, <1>3 DEF Inside
<1> QED BY <1>4 DEF e

LEMMA NextPiece ==
  ASSUME NEW a \in Memory, NEW p \in Nat,
         NEW r \in {"OK", "WANT_READ", "WANT_WRITE", "ERROR"}
  PROVE  Inside([a EXCEPT !.d.lib.pending = p, !.ret = r], a, r, p)
<1> DEFINE e == [a EXCEPT !.d.lib.pending = p, !.ret = r]
<1>1. e \in Memory BY DEF Memory, Data, LibTypes
<1>2. e.calls = a.calls /\ e.layer = a.layer /\ Rest(e) = Rest(a) /\ e.ret = r
  BY DEF Memory, Rest
<1>3. /\ Kept(e.d) = Kept(a.d) /\ e.d.write = a.d.write /\ e.d.sending = a.d.sending
      /\ e.d.raw = a.d.raw /\ e.d.lib.pending = p
  BY DEF Memory, Data, LibTypes, Kept
<1> HIDE DEF e
<1>4. Inside(e, a, r, p) BY <1>1, <1>2, <1>3 DEF Inside
<1> QED BY <1>4 DEF e

LEMMA PartOfRecord ==
  ASSUME NEW a \in Memory, NEW u \in 0 .. RecordUnits - 1,
         NEW r \in {"OK", "WANT_READ", "WANT_WRITE", "ERROR"}
  PROVE  Inside([a EXCEPT !.d.lib.units = u, !.ret = r], a, r, a.d.lib.pending)
<1> DEFINE e == [a EXCEPT !.d.lib.units = u, !.ret = r]
<1>1. e \in Memory BY DEF Memory, Data, LibTypes
<1>2. e.calls = a.calls /\ e.layer = a.layer /\ Rest(e) = Rest(a) /\ e.ret = r
  BY DEF Memory, Rest
<1>3. /\ Kept(e.d) = Kept(a.d) /\ e.d.write = a.d.write /\ e.d.sending = a.d.sending
      /\ e.d.raw = a.d.raw /\ e.d.lib.pending = a.d.lib.pending
  BY DEF Memory, Data, LibTypes, Kept
<1> HIDE DEF e
<1>4. Inside(e, a, r, a.d.lib.pending) BY <1>1, <1>2, <1>3 DEF Inside
<1> QED BY <1>4 DEF e

LEMMA ReadsLib ==
  ASSUME NEW a \in Memory, Matched(a.d), NEW bad \in BOOLEAN, NEW b, b = LibRead(a, bad)
  PROVE  /\ LibKeeps(b, a) /\ b.ret \in {"OK", "WANT_READ", "ERROR"}
         /\ b.ret # "ERROR" => /\ b.calls = a.calls /\ b.d.write = a.d.write
                               /\ b.d.sending = a.d.sending
         /\ b.ret = "WANT_READ" => ~Undecoded(b)
<1> DEFINE missing == RecordUnits - a.d.lib.units
           some  == RecvCallback(a, a.d.raw)
           got   == RecvCallback(a, missing)
           whole == [got EXCEPT !.d.lib.units = 0]
<1>0. /\ a.d.raw \in Nat /\ a.d.lib.units \in 0 .. RecordUnits - 1 /\ a.d.lib.pending \in Nat
      /\ RecordUnits \in Nat \ {0} /\ RecordPieces \in Nat \ {0} /\ missing \in Nat
      /\ 0 \in 0 .. RecordUnits - 1
  <2>1. RecordUnits \in Nat \ {0} /\ RecordPieces \in Nat \ {0} BY TlsAssumption
  <2>2. /\ a.d.raw \in Nat /\ a.d.lib.units \in 0 .. RecordUnits - 1
        /\ a.d.lib.pending \in Nat
    BY DEF Memory, Data, LibTypes
  <2> QED BY <2>1, <2>2
<1>1. ASSUME NEW e, NEW r, NEW p, Inside(b, e, r, p), e.calls = a.calls, e.layer = a.layer, Rest(e) = Rest(a),
             Kept(e.d) = Kept(a.d), e.d.write = a.d.write, e.d.sending = a.d.sending
      PROVE  LibKeeps(b, a) /\ b.calls = a.calls /\ b.d.write = a.d.write /\ b.d.sending = a.d.sending
  <2>1. /\ b \in Memory /\ b.calls = a.calls /\ b.layer = a.layer /\ Rest(b) = Rest(a)
        /\ Kept(b.d) = Kept(a.d) /\ b.d.write = a.d.write /\ b.d.sending = a.d.sending
    BY <1>1 DEF Inside
  <2>2. Matched(b.d) BY <2>1 DEF Matched
  <2> QED BY <2>1, <2>2 DEF LibKeeps
<1>2. CASE a.d.lib.pending > 0
  <2> DEFINE p == a.d.lib.pending - 1
  <2>1. b = [a EXCEPT !.d.lib.pending = p, !.ret = "OK"] BY <1>2 DEF LibRead
  <2>2. p \in Nat BY <1>0, <1>2
  <2> HIDE DEF p
  <2>3. Inside(b, a, "OK", p) BY <2>1, <2>2, NextPiece
  <2>4. b.ret = "OK" BY <2>3 DEF Inside
  <2> QED BY <1>1, <2>3, <2>4
<1>3. CASE ~(a.d.lib.pending > 0) /\ a.d.raw < missing
  <2> DEFINE u == some.d.lib.units + a.d.raw
  <2>1. b = [some EXCEPT !.d.lib.units = u, !.ret = "WANT_READ"] BY <1>3 DEF LibRead
  <2>2. /\ some \in Memory /\ some.calls = a.calls /\ some.layer = a.layer /\ Rest(some) = Rest(a)
        /\ Kept(some.d) = Kept(a.d) /\ some.d.lib = a.d.lib /\ some.d.raw = 0
        /\ some.d.write = a.d.write /\ some.d.sending = a.d.sending
    <3>1. a.d.raw \in 0 .. a.d.raw /\ a.d.raw - a.d.raw = 0 BY <1>0
    <3> QED BY <3>1, Received
  <2>3. u \in 0 .. RecordUnits - 1 BY <1>0, <1>3, <2>2
  <2> HIDE DEF some, u
  <2>4. Inside(b, some, "WANT_READ", some.d.lib.pending) BY <2>1, <2>2, <2>3, PartOfRecord
  <2>5. b.d.raw = 0 /\ b.d.lib.pending = 0 /\ b.ret = "WANT_READ"
    BY <1>0, <1>3, <2>2, <2>4 DEF Inside
  <2> QED BY <1>1, <2>2, <2>4, <2>5 DEF Undecoded
<1>4. CASE ~(a.d.lib.pending > 0) /\ ~(a.d.raw < missing)
  <2>1. missing \in 0 .. a.d.raw BY <1>0, <1>4
  <2>2. /\ got \in Memory /\ got.calls = a.calls /\ got.layer = a.layer /\ Rest(got) = Rest(a)
        /\ Kept(got.d) = Kept(a.d)
        /\ got.d.write = a.d.write /\ got.d.sending = a.d.sending
    <3> HIDE DEF missing
    <3> QED BY <2>1, Received
  <2>3. b = IF bad THEN Refuse(whole) ELSE [whole EXCEPT !.d.lib.pending = RecordPieces - 1, !.ret = "OK"]
    BY <1>4 DEF LibRead
  <2> HIDE DEF got
  <2>4. Inside(whole, got, got.ret, got.d.lib.pending) BY <1>0, <2>2, WholeRecord
  <2> HIDE DEF whole
  <2>5. whole \in Memory /\ Matched(whole.d) BY <2>2, <2>4 DEF Inside, Matched
  <2>6. CASE bad
    <3>1. LibKeeps(b, whole) /\ b.ret = "ERROR" BY <2>3, <2>5, <2>6, Refuses
    <3> QED BY <2>2, <2>4, <3>1 DEF Inside, LibKeeps
  <2>7. CASE ~bad
    <3> DEFINE p == RecordPieces - 1
    <3>1. p \in Nat BY <1>0
    <3>2. b = [whole EXCEPT !.d.lib.pending = p, !.ret = "OK"] BY <2>3, <2>7
    <3> HIDE DEF p
    <3>3. Inside(b, whole, "OK", p) BY <2>5, <3>1, <3>2, NextPiece
    <3>4. Inside(b, got, "OK", p) /\ b.ret = "OK" BY <2>4, <3>3 DEF Inside
    <3> QED BY <1>1, <2>2, <3>4
  <2> QED BY <2>6, <2>7
<1> QED BY <1>2, <1>3, <1>4

LEMMA WritesLib ==
  ASSUME NEW a \in Memory, Matched(a.d), NEW bad \in BOOLEAN, NEW b, b = LibWrite(a, bad)
  PROVE  /\ LibKeeps(b, a) /\ b.ret \in {"OK", "WANT_WRITE", "ERROR"}
         /\ b.d.lib = a.d.lib /\ b.d.raw = a.d.raw
         /\ b.ret # "WANT_WRITE" => b.calls = a.calls /\ ~b.d.sending
<1>0. a.d.write \in {"NONE", "WRITING", "WRITTEN"} BY DEF Memory, Data
<1>1. CASE bad /\ ~a.d.sending
  <2>1. b = [a EXCEPT !.ret = "ERROR"] BY <1>1 DEF LibWrite
  <2>2. /\ b \in Memory /\ b.calls = a.calls /\ b.layer = a.layer /\ Rest(b) = Rest(a)
        /\ b.d = a.d /\ b.ret = "ERROR"
    BY <2>1, Returns
  <2> QED BY <1>1, <2>2 DEF LibKeeps
<1>2. CASE ~(bad /\ ~a.d.sending)
  <2>1. b = SendCallback(a) BY <1>2 DEF LibWrite
  <2> QED BY <1>0, <2>1, Sends DEF LibKeeps, Matched
<1> QED BY <1>1, <1>2

-----------------------------------------------------------------------------
(* The initial state.                                                       *)
LEMMA NoDataType == NoData \in Data
<1>1. NoRm \in RmTypes BY DEF NoRm, RmTypes, Statuses
<1>2. NoLib \in LibTypes
  <2>1. RecordUnits \in Nat \ {0} BY TlsAssumption
  <2>2. Len(Handshake) \in Nat BY TlsAssumption
  <2> QED BY <2>1, <2>2 DEF NoLib, LibTypes
<1> QED BY <1>1, <1>2 DEF NoData, Data

LEMMA StartsRight == Init => Inv
<1> SUFFICES ASSUME Init PROVE Inv OBVIOUS
<1>1. /\ t.calls = <<>> /\ t.layer = [l \in {"io", "tls", "codec"} |-> "NONE"] /\ t.d = NoData
      /\ ~t.io_data /\ t.io = "idle" /\ t.event = "none" /\ ~t.file /\ t.broken = {}
      /\ up.state = "idle" /\ ~up.early /\ Tls = "NONE"
  BY DEF Init, Tls
<1>2. NoData \in Data BY NoDataType
<1>3. t \in Memory
  <2>1. <<>> \in Seq(Calls) OBVIOUS
  <2>2. [l \in {"io", "tls", "codec"} |-> "NONE"] \in [{"io", "tls", "codec"} -> LayerStates]
    BY DEF LayerStates
  <2> QED BY <1>2, <2>1, <2>2 DEF Init, Memory
<1>4. Types BY <1>3 DEF Types, Init, NoNet
<1>5. Rules
  <2>1. /\ ~t.d.there /\ t.d.rm = NoRm /\ ~t.d.rm.there /\ t.d.rm.open = FALSE /\ t.file = FALSE
    BY DEF Init, NoData, NoRm
  <2>2. LayerInv BY <1>1, <2>1 DEF LayerInv
  <2>3. ConnectingInv /\ StartInv BY <1>1, <2>1, QueueEmpty DEF ConnectingInv, StartInv
  <2>4. LoadInv /\ EndInv BY <1>1, <2>1, QueueEmpty DEF LoadInv, EndInv
  <2>5. TokenInv /\ PushInv BY <1>1, <2>1, QueueEmpty DEF TokenInv, PushInv
  <2>6. DataInv /\ EarlyInv BY <1>1, <2>1, QueueEmpty DEF DataInv, EarlyInv
  <2> QED BY <2>2, <2>3, <2>4, <2>5, <2>6 DEF Rules
<1> QED BY <1>4, <1>5 DEF Inv

(* Steps of the server touch nothing of the client.                         *)
LEMMA ServerRight ==
  ASSUME Inv, UNCHANGED <<t, up>>, net' \in [in: Nat, out: Nat, pos: Nat, sent: Nat]
  PROVE  Inv'
<1>1. Types' BY DEF Inv, Types
<1>2. Rules'
  BY DEF Inv, Rules, LayerInv, ConnectingInv, StartInv, LoadInv, EndInv, TokenInv, PushInv,
         DataInv, EarlyInv, Waits, Asked, Answered, Failed, Releasing, Tls, Undecoded, AtWrite
<1> QED BY <1>1, <1>2 DEF Inv

-----------------------------------------------------------------------------
(* Loading the certificate: whatever LoadInv admits is in order, for then   *)
(* nothing else goes on.                                                    *)
LEMMA Loading ==
  ASSUME t' \in Memory, t'.broken = {}, t'.file = t'.d.rm.open, t'.d.there, t'.d.rm.there,
         Tls' \in {"NONE", "CLOSED"}, ~t'.io_data, t'.io = "idle", t'.d.write = "NONE",
         ~up'.early, LoadInv'
  PROVE  Rules'
<1> DEFINE q == t'.calls
<1>1. q \in Seq(Calls) BY DEF Memory
<1> DEFINE Quiet == /\ ~Has(q, Starts) /\ ~Has(q, Kind("io", "init")) /\ ~Has(q, Told)
                    /\ ~Has(q, Tokens) /\ ~Has(q, Connected) /\ ~Has(q, Pulls)
                    /\ Has(q, Inits) => Only(q, Inits) /\ up'.state = "opening"
                    /\ up'.state \in {"opening", "failed", "closing"}
<1>2. ASSUME NEW S, Only(q, S) PROVE Shorter(q, Head(q), <<>>) /\ Head(q) \in S
  <2>1. q # <<>> BY <1>2 DEF Only
  <2>2. Shorter(q, Head(q), Tail(q)) BY <1>1, <2>1, QueueTail
  <2>3. Tail(q) = <<>> /\ Head(q) \in S BY <1>2, <2>2 DEF Shorter
  <2> QED BY <2>2, <2>3
<1>3. ASSUME q = <<>>, up'.state \in {"opening", "failed", "closing"} PROVE Quiet
  BY <1>3, QueueEmpty
<1>4. ASSUME NEW fn, Only(q, Kind("rm", fn)), up'.state \in {"opening", "closing"} PROVE Quiet
  <2>1. Shorter(q, Head(q), <<>>) /\ Head(q) \in Kind("rm", fn) BY <1>2, <1>4
  <2> QED BY <1>4, <2>1, QueueEmpty, KindsOf DEF Shorter
<1>5. ASSUME Only(q, With("tls", "init", "OK")), up'.state = "opening" PROVE Quiet
  <2>1. Shorter(q, Head(q), <<>>) /\ Head(q) \in With("tls", "init", "OK") BY <1>2, <1>5
  <2> QED BY <1>5, <2>1, QueueEmpty, KindsOf DEF Shorter
<1>6. ASSUME Only(q, Failures), up'.state = "opening" PROVE Quiet
  <2>1. Shorter(q, Head(q), <<>>) /\ Head(q) \in Failures BY <1>2, <1>6
  <2> QED BY <1>6, <2>1, QueueEmpty, KindsOf DEF Shorter
<1>7. ASSUME Only(q, Closes \cup Gone), up'.state = "closing" PROVE Quiet
  <2>1. Shorter(q, Head(q), <<>>) /\ Head(q) \in Closes \cup Gone BY <1>2, <1>7
  <2> QED BY <1>7, <2>1, QueueEmpty, KindsOf DEF Shorter
<1> HIDE DEF Quiet
<1>8. Quiet
  BY <1>3, <1>4, <1>5, <1>6, <1>7 DEF LoadInv, Asked, Answered, Failed, Releasing, Waits, Quiet
<1>9. ~t'.d.sending BY DEF LoadInv
<1>10. LayerInv' BY DEF LayerInv
<1>11. ConnectingInv' BY DEF ConnectingInv
<1>12. StartInv' BY <1>8 DEF StartInv, Quiet
<1>13. EndInv' BY <1>8 DEF EndInv, Quiet
<1>14. TokenInv' BY <1>8, <1>9, QueueWithout DEF TokenInv, Quiet
<1>15. PushInv' BY DEF PushInv
<1>16. DataInv' BY <1>8, QueueWithout DEF DataInv, Quiet
<1>17. EarlyInv' BY <1>8, QueueWithout DEF EarlyInv, Quiet
<1> QED BY <1>10, <1>11, <1>12, <1>13, <1>14, <1>15, <1>16, <1>17 DEF Rules

(* The resource manager: b is a with its context in state m, the queue q,   *)
(* waiting for the file event e, with the file f.                           *)
Fixed(a) == <<a.io_data, a.io, a.broken>>
Others(d) == <<d.there, d.conn_cs, d.handler, d.raw, d.write, d.sending, d.send, d.to_write, d.lib>>
RmBecomes(b, a, m, q, e, f) ==
  /\ b \in Memory /\ b.calls = q /\ b.event = e /\ b.file = f /\ b.layer = a.layer
  /\ Fixed(b) = Fixed(a) /\ b.d.rm = m /\ Others(b.d) = Others(a.d)

LEMMA FileAwaited ==
  ASSUME NEW a \in Memory, NEW e \in {"none", "stat", "open", "read", "close"}
  PROVE  RmBecomes([a EXCEPT !.event = e], a,
                   a.d.rm, a.calls, e, a.file)
<1> DEFINE b == [a EXCEPT !.event = e]
<1>1. b \in Memory BY DEF Memory, Data, RmTypes, Statuses
<1>2. /\ b.calls = a.calls /\ b.event = e /\ b.file = a.file /\ b.layer = a.layer
      /\ Fixed(b) = Fixed(a)
  BY DEF Memory, Fixed
<1>3. b.d.rm = a.d.rm /\ Others(b.d) = Others(a.d)
  BY DEF Memory, Data, RmTypes, Others
<1> HIDE DEF b
<1>4. RmBecomes(b, a, a.d.rm, a.calls, e, a.file)
  BY <1>1, <1>2, <1>3 DEF RmBecomes
<1> QED BY <1>4 DEF b

LEMMA FileOpened ==
  ASSUME NEW a \in Memory, NEW o \in BOOLEAN
  PROVE  RmBecomes([a EXCEPT !.d.rm.open = o, !.file = o], a,
                   [a.d.rm EXCEPT !.open = o], a.calls, a.event, o)
<1> DEFINE b == [a EXCEPT !.d.rm.open = o, !.file = o]
<1>1. b \in Memory BY DEF Memory, Data, RmTypes, Statuses
<1>2. /\ b.calls = a.calls /\ b.event = a.event /\ b.file = o /\ b.layer = a.layer
      /\ Fixed(b) = Fixed(a)
  BY DEF Memory, Fixed
<1>3. b.d.rm = [a.d.rm EXCEPT !.open = o] /\ Others(b.d) = Others(a.d)
  BY DEF Memory, Data, RmTypes, Others
<1> HIDE DEF b
<1>4. RmBecomes(b, a, [a.d.rm EXCEPT !.open = o], a.calls, a.event, o)
  BY <1>1, <1>2, <1>3 DEF RmBecomes
<1> QED BY <1>4 DEF b

LEMMA BufferMade ==
  ASSUME NEW a \in Memory
  PROVE  RmBecomes([a EXCEPT !.d.rm.buffer = TRUE], a,
                   [a.d.rm EXCEPT !.buffer = TRUE], a.calls, a.event, a.file)
<1> DEFINE b == [a EXCEPT !.d.rm.buffer = TRUE]
<1>1. b \in Memory BY DEF Memory, Data, RmTypes, Statuses
<1>2. /\ b.calls = a.calls /\ b.event = a.event /\ b.file = a.file /\ b.layer = a.layer
      /\ Fixed(b) = Fixed(a)
  BY DEF Memory, Fixed
<1>3. b.d.rm = [a.d.rm EXCEPT !.buffer = TRUE] /\ Others(b.d) = Others(a.d)
  BY DEF Memory, Data, RmTypes, Others
<1> HIDE DEF b
<1>4. RmBecomes(b, a, [a.d.rm EXCEPT !.buffer = TRUE], a.calls, a.event, a.file)
  BY <1>1, <1>2, <1>3 DEF RmBecomes
<1> QED BY <1>4 DEF b

LEMMA BufferAwaits ==
  ASSUME NEW a \in Memory
  PROVE  RmBecomes([a EXCEPT !.event = "read", !.d.rm.buffer = TRUE], a,
                   [a.d.rm EXCEPT !.buffer = TRUE], a.calls, "read", a.file)
<1> DEFINE b == [a EXCEPT !.event = "read", !.d.rm.buffer = TRUE]
<1>1. b \in Memory BY DEF Memory, Data, RmTypes, Statuses
<1>2. /\ b.calls = a.calls /\ b.event = "read" /\ b.file = a.file /\ b.layer = a.layer
      /\ Fixed(b) = Fixed(a)
  BY DEF Memory, Fixed
<1>3. b.d.rm = [a.d.rm EXCEPT !.buffer = TRUE] /\ Others(b.d) = Others(a.d)
  BY DEF Memory, Data, RmTypes, Others
<1> HIDE DEF b
<1>4. RmBecomes(b, a, [a.d.rm EXCEPT !.buffer = TRUE], a.calls, "read", a.file)
  BY <1>1, <1>2, <1>3 DEF RmBecomes
<1> QED BY <1>4 DEF b

LEMMA CallbackCleared ==
  ASSUME NEW a \in Memory
  PROVE  RmBecomes([a EXCEPT !.d.rm.callback = "none"], a,
                   [a.d.rm EXCEPT !.callback = "none"], a.calls, a.event, a.file)
<1> DEFINE b == [a EXCEPT !.d.rm.callback = "none"]
<1>1. b \in Memory BY DEF Memory, Data, RmTypes, Statuses
<1>2. /\ b.calls = a.calls /\ b.event = a.event /\ b.file = a.file /\ b.layer = a.layer
      /\ Fixed(b) = Fixed(a)
  BY DEF Memory, Fixed
<1>3. b.d.rm = [a.d.rm EXCEPT !.callback = "none"] /\ Others(b.d) = Others(a.d)
  BY DEF Memory, Data, RmTypes, Others
<1> HIDE DEF b
<1>4. RmBecomes(b, a, [a.d.rm EXCEPT !.callback = "none"], a.calls, a.event, a.file)
  BY <1>1, <1>2, <1>3 DEF RmBecomes
<1> QED BY <1>4 DEF b

LEMMA CalledBack ==
  ASSUME NEW a \in Memory, NEW x \in Calls
  PROVE  RmBecomes([a EXCEPT !.d.rm.callback = "none", !.calls = Append(a.calls, x)], a,
                   [a.d.rm EXCEPT !.callback = "none"], Append(a.calls, x), a.event, a.file)
<1> DEFINE b == [a EXCEPT !.d.rm.callback = "none", !.calls = Append(a.calls, x)]
<1>0. Append(a.calls, x) \in Seq(Calls) BY DEF Memory
<1>1. b \in Memory BY <1>0 DEF Memory, Data, RmTypes, Statuses
<1>2. /\ b.calls = Append(a.calls, x) /\ b.event = a.event /\ b.file = a.file /\ b.layer = a.layer
      /\ Fixed(b) = Fixed(a)
  BY DEF Memory, Fixed
<1>3. b.d.rm = [a.d.rm EXCEPT !.callback = "none"] /\ Others(b.d) = Others(a.d)
  BY DEF Memory, Data, RmTypes, Others
<1> HIDE DEF b
<1>4. RmBecomes(b, a, [a.d.rm EXCEPT !.callback = "none"], Append(a.calls, x), a.event, a.file)
  BY <1>1, <1>2, <1>3 DEF RmBecomes
<1> QED BY <1>4 DEF b

LEMMA CallbackSet ==
  ASSUME NEW a \in Memory, NEW x \in Calls,
         NEW c \in {"init", "close_externally"}, NEW st \in Statuses
  PROVE  RmBecomes([a EXCEPT !.d.rm.callback = c, !.d.rm.st = st, !.calls = Append(a.calls, x)], a,
                   [a.d.rm EXCEPT !.callback = c, !.st = st], Append(a.calls, x), a.event, a.file)
<1> DEFINE b == [a EXCEPT !.d.rm.callback = c, !.d.rm.st = st, !.calls = Append(a.calls, x)]
<1>0. Append(a.calls, x) \in Seq(Calls) BY DEF Memory
<1>1. b \in Memory BY <1>0 DEF Memory, Data, RmTypes, Statuses
<1>2. /\ b.calls = Append(a.calls, x) /\ b.event = a.event /\ b.file = a.file /\ b.layer = a.layer
      /\ Fixed(b) = Fixed(a)
  BY DEF Memory, Fixed
<1>3. b.d.rm = [a.d.rm EXCEPT !.callback = c, !.st = st] /\ Others(b.d) = Others(a.d)
  BY DEF Memory, Data, RmTypes, Others
<1> HIDE DEF b
<1>4. RmBecomes(b, a, [a.d.rm EXCEPT !.callback = c, !.st = st], Append(a.calls, x), a.event, a.file)
  BY <1>1, <1>2, <1>3 DEF RmBecomes
<1> QED BY <1>4 DEF b


\* The certificate is being loaded, and the step ends in b.
LEMMA LoadingStep ==
  ASSUME Inv, t.d.rm.there, NEW b \in Memory, Becomes(b), up' = up,
         b.layer["tls"] \in {"NONE", "CLOSED"}, Fixed(b) = Fixed(t), b.file = b.d.rm.open,
         b.d.there, b.d.rm.there, b.d.write = "NONE", LoadInv'
  PROVE  t' \in Memory /\ Rules'
<1>1. /\ t' \in Memory /\ t'.calls = b.calls /\ t'.layer = b.layer /\ t'.d = b.d
      /\ Rest(t') = Rest(b)
  BY Become
<1>2. t'.broken = t.broken /\ t'.io_data = t.io_data /\ t'.io = t.io /\ t'.file = b.file
  BY <1>1 DEF Rest, Fixed
<1>3. t.broken = {} /\ ~t.io_data /\ t.io = "idle" /\ ~up.early
  BY DEF Inv, Rules, LayerInv, EarlyInv
<1>4. Tls' \in {"NONE", "CLOSED"} BY <1>1 DEF Tls
<1> QED BY <1>1, <1>2, <1>3, <1>4, Loading

\* What is called or comes from the file system is what was asked for.
Serves(fn) ==
  \/ Called("rm", fn)
  \/ t.calls = <<>> /\ t.event \in (IF fn = "open" THEN {"stat", "open"} ELSE {fn})

Entered(a) ==
  /\ a \in Memory /\ a.calls = <<>> /\ a.event = "none" /\ a.layer = t.layer /\ a.d = t.d
  /\ Fixed(a) = Fixed(t) /\ a.file = t.file

LEMMA Served ==
  ASSUME Inv, NEW fn \in {"open", "read", "close"}, Serves(fn)
  PROVE  /\ t.d.there /\ t.d.rm.there /\ t.d.write = "NONE" /\ Tls \in {"NONE", "CLOSED"}
         /\ t.file = t.d.rm.open /\ t.broken = {}
         /\ fn = "open" => Asked("opening", "open") /\ ~t.d.rm.open
         /\ fn = "read" => Asked("reading", "read") /\ t.d.rm.open
         /\ fn = "close" => \/ /\ Asked("releasing", "close") /\ t.d.rm.open /\ t.d.rm.buffer
                               /\ t.d.lib.there
                            \/ Releasing
         /\ Called("rm", fn) => Popped.calls = <<>> /\ t.event = "none"
<1>1. t.d.rm.there
  <2>1. CASE Called("rm", fn)
    <3>1. Call \in Requests /\ Shorter(t.calls, Call, Popped.calls)
      BY <2>1, Pop, KindsOf DEF Called, Inv, Taken
    <3> QED BY <3>1 DEF Shorter, Inv, Rules, StartInv
  <2>2. CASE t.calls = <<>> /\ t.event # "none"
    BY <2>2 DEF Inv, Rules, LayerInv
  <2> QED BY <2>1, <2>2 DEF Serves
<1>2. /\ t.d.there /\ t.d.write = "NONE" /\ Tls \in {"NONE", "CLOSED"} /\ t.file = t.d.rm.open
      /\ t.broken = {}
  BY <1>1 DEF Inv, Rules, LayerInv, LoadInv, TokenInv
<1>3. CASE Called("rm", fn)
  <2>1. /\ Call \in Calls /\ Call.layer = "rm" /\ Call.fn = fn
        /\ Shorter(t.calls, Call, Popped.calls)
    BY <1>3, Pop DEF Called, Inv, Taken
  <2>2. t.calls # <<>> BY <1>3 DEF Called
  <2>3. \A S : Only(t.calls, S) <=> Popped.calls = <<>> /\ Call \in S BY <2>1 DEF Shorter
  <2> QED
    BY <1>1, <1>2, <2>1, <2>2, <2>3, KindsOf
    DEF Inv, Rules, LoadInv, Asked, Answered, Failed, Releasing, Waits
<1>4. CASE t.calls = <<>> /\ t.event \in (IF fn = "open" THEN {"stat", "open"} ELSE {fn})
  BY <1>1, <1>2, <1>4, QueueEmpty
  DEF Called, Inv, Rules, LoadInv, Asked, Answered, Failed, Releasing, Waits
<1> QED BY <1>3, <1>4 DEF Serves

LEMMA Enters ==
  ASSUME Inv, NEW fn \in {"open", "read", "close"}, Serves(fn)
  PROVE  /\ Called("rm", fn) => Entered(RmEntered(Popped))
         /\ t.calls = <<>> => Entered(RmEntered([t EXCEPT !.event = "none"]))
<1>1. t.d.rm.there BY Served
<1>2. ASSUME Called("rm", fn) PROVE Entered(RmEntered(Popped))
  <2>1. Taken(Popped) /\ Popped.calls = <<>> /\ t.event = "none"
    BY <1>2, Served, Pop DEF Called, Inv
  <2>2. RmEntered(Popped) = Popped BY <1>1, <2>1 DEF RmEntered, Check, Taken
  <2> QED BY <2>1, <2>2 DEF Entered, Taken, Rest, Fixed
<1>3. ASSUME t.calls = <<>> PROVE Entered(RmEntered([t EXCEPT !.event = "none"]))
  <2> DEFINE a == [t EXCEPT !.event = "none"]
  <2>1. t \in Memory BY DEF Inv, Types
  <2>2. RmBecomes(a, t, t.d.rm, t.calls, "none", t.file) BY <2>1, FileAwaited
  <2>3. a.d = t.d BY <2>1 DEF Memory
  <2> HIDE DEF a
  <2>4. RmEntered(a) = a BY <1>1, <2>3 DEF RmEntered, Check
  <2>5. Entered(a) BY <1>3, <2>2, <2>3 DEF Entered, RmBecomes
  <2> QED BY <2>4, <2>5 DEF a
<1> QED BY <1>2, <1>3

\* The file system has no answer yet.
LEMMA LoadWaits ==
  ASSUME Inv, NEW fn \in {"open", "read", "close"}, Serves(fn), NEW a, Entered(a), NEW b, NEW m,
         NEW e \in {"stat", "open", "read", "close"},
         e \in (IF fn = "open" THEN {"stat", "open"} ELSE {fn}),
         RmBecomes(b, a, m, a.calls, e, a.file), Becomes(b), up' = up,
         m.there = t.d.rm.there, m.open = t.d.rm.open, m.callback = t.d.rm.callback,
         m.st = t.d.rm.st, t.d.rm.buffer => m.buffer
  PROVE  t' \in Memory /\ Rules'
<1>1. /\ b \in Memory /\ b.calls = <<>> /\ b.event = e /\ b.file = t.file /\ b.layer = t.layer
      /\ Fixed(b) = Fixed(t) /\ b.d.rm = m /\ Others(b.d) = Others(t.d)
  BY DEF Entered, RmBecomes
<1>2. /\ t'.calls = <<>> /\ t'.event = e /\ t'.d = b.d
  BY <1>1, Become DEF Rest
<1>3. LoadInv'
  BY <1>1, <1>2, Served
  DEF LoadInv, Asked, Answered, Failed, Releasing, Waits, Others, Inv, Rules
<1> QED BY <1>1, <1>3, Served, LoadingStep DEF Others, Tls

\* It has answered: the coroutine that asked is called back.
LEMMA LoadAnswered ==
  ASSUME Inv, NEW fn \in {"open", "read", "close"}, Serves(fn), NEW a, Entered(a), NEW b, NEW m,
         NEW f \in BOOLEAN, RmBecomes(b, a, m, a.calls, "none", f),
         Becomes(RmSucceeded(b)), up' = up,
         m.there = t.d.rm.there, m.callback = t.d.rm.callback, m.st = t.d.rm.st, m.open = f,
         f <=> fn # "close", fn = "read" => m.buffer
  PROVE  t' \in Memory /\ Rules'
<1> DEFINE x == [layer |-> "tls", fn |-> m.callback, arg |-> 0, st |-> CallbackState(b, "OK")]
           c == RmSucceeded(b)
           n == [m EXCEPT !.callback = "none"]
<1>1. /\ b \in Memory /\ b.calls = <<>> /\ b.event = "none" /\ b.file = f /\ b.layer = t.layer
      /\ Fixed(b) = Fixed(t) /\ b.d.rm = m /\ Others(b.d) = Others(t.d)
  BY DEF Entered, RmBecomes
<1>2. m.callback \in {"init", "close_externally"} /\ m.st \in Statuses /\ m \in RmTypes
  BY <1>1, Served DEF Memory, Data, RmTypes, Asked, Releasing
<1>3. x \in Calls
  BY <1>1, <1>2, CallType DEF CallbackState, Statuses, FunctionNames
<1>4. c = [b EXCEPT !.d.rm.callback = "none", !.calls = Append(b.calls, x)]
  BY <1>1 DEF RmSucceeded
<1>5. m.callback = "init" => x \in With("tls", "init", "OK")
  <2>1. m.callback = "init" => m.st = "OK" BY Served DEF Asked, Releasing
  <2> QED BY <1>1, <1>3, <2>1, KindsOf DEF CallbackState
<1>6. m.callback = "close_externally" => x \in Gone BY <1>3, KindsOf
<1> HIDE DEF c, x
<1>7. RmBecomes(c, b, [b.d.rm EXCEPT !.callback = "none"], Append(b.calls, x), b.event, b.file)
  BY <1>1, <1>3, <1>4, CalledBack
<1>8. /\ c \in Memory /\ c.calls = Append(<<>>, x) /\ c.event = "none" /\ c.file = f
      /\ c.layer = t.layer /\ Fixed(c) = Fixed(t) /\ c.d.rm = n /\ Others(c.d) = Others(t.d)
  BY <1>1, <1>7 DEF RmBecomes
<1>9. /\ n.there = t.d.rm.there /\ n.callback = "none" /\ n.open = f /\ n.buffer = m.buffer
  BY <1>2 DEF RmTypes
<1>10. \A S : Only(c.calls, S) <=> x \in S
  <2>1. <<>> \in Seq(Calls) OBVIOUS
  <2>2. Longer(c.calls, <<>>, x) BY <1>3, <1>8, <2>1, QueueAppend
  <2> QED BY <2>2 DEF Longer
<1>11. t'.calls = c.calls /\ t'.event = "none" /\ t'.d = c.d
  BY <1>8, Become DEF Rest, c
<1> HIDE DEF n
<1>12. LoadInv'
  <2>1. /\ ~t.d.sending /\ ~t.d.send /\ ~t.d.to_write
    BY Served DEF Inv, Rules, LoadInv
  <2>2. /\ ~t'.d.sending /\ ~t'.d.send /\ ~t'.d.to_write
        /\ t'.d.conn_cs = t.d.conn_cs /\ t'.d.lib = t.d.lib
        /\ t'.d.rm.callback = "none" /\ (t'.d.rm.open <=> fn # "close")
        /\ t'.event = "none" /\ (fn = "read" => t'.d.rm.buffer)
        /\ \A S : Only(t'.calls, S) <=> x \in S
    BY <2>1, <1>8, <1>9, <1>10, <1>11 DEF Others
  <2>3. CASE fn = "open" BY <1>5, <2>2, <2>3, Served DEF LoadInv, Asked, Answered
  <2>4. CASE fn = "read" BY <1>5, <2>2, <2>4, Served DEF LoadInv, Asked, Answered
  <2>5. CASE fn = "close"
    <3>1. CASE Asked("releasing", "close") /\ t.d.lib.there
      BY <1>5, <2>2, <2>5, <3>1 DEF LoadInv, Asked, Answered
    <3>2. CASE Releasing
      BY <1>6, <2>2, <2>5, <3>2 DEF LoadInv, Releasing, Failed
    <3> QED BY <2>5, <3>1, <3>2, Served
  <2> QED BY <2>3, <2>4, <2>5
<1>13. Becomes(c) BY DEF c
<1> QED BY <1>8, <1>9, <1>12, <1>13, Served, LoadingStep DEF Others, Tls

\* Loading fails: the layers above are told, the file stays as it is.
Still(d) == <<d.there, d.handler, d.raw, d.write, d.sending, d.send, d.to_write, d.rm>>
FailsTo(b, a) ==
  /\ b \in Memory /\ b.layer["tls"] = "CLOSED" /\ Rest(b) = Rest(a) /\ Still(b.d) = Still(a.d)
  /\ b.d.conn_cs = "start"
  /\ \E x \in With("tls", "connect", "ERR") : b.calls = Append(a.calls, x)

LEMMA InitFailing ==
  ASSUME NEW a \in Memory
  PROVE  FailsTo(InitFails(a), a)
<1> DEFINE e == [a EXCEPT !.d.conn_cs = "start", !.d.lib = NoLib]
           b == InitFails(a)
           x == [layer |-> "tls", fn |-> "connect", arg |-> 0, st |-> "ERR"]
<1>0. NoLib \in LibTypes
  <2>1. RecordUnits \in Nat \ {0} /\ Len(Handshake) \in Nat BY TlsAssumption
  <2> QED BY <2>1 DEF NoLib, LibTypes
<1>1. e \in Memory BY <1>0 DEF Memory, Data
<1>2. e.calls = a.calls /\ e.layer = a.layer /\ Rest(e) = Rest(a) BY DEF Memory, Rest
<1>3. Still(e.d) = Still(a.d) /\ e.d.conn_cs = "start" BY DEF Memory, Data, Still
<1>4. "connect" \in FunctionNames /\ "ERR" \in Statuses BY DEF FunctionNames, Statuses
<1>5. b = ContinueWith(e, "tls", "connect", "tls", 0, "ERR") BY DEF InitFails, Itself, OnThis
<1> HIDE DEF e, b
<1>6. Queues(b, e, "tls", x, NextLayerState("connect", e.layer["tls"], "ERR"))
  BY <1>1, <1>4, <1>5, Continues
<1>7. x \in With("tls", "connect", "ERR") BY <1>4, CallType, KindsOf
<1> HIDE DEF x
<1>8. NextLayerState("connect", e.layer["tls"], "ERR") = "CLOSED" BY DEF NextLayerState
<1>9. e.layer \in [{"io", "tls", "codec"} -> LayerStates] BY <1>1 DEF Memory
<1>10. FailsTo(b, a) BY <1>2, <1>3, <1>6, <1>7, <1>8, <1>9 DEF Queues, FailsTo
<1> QED BY <1>10 DEF b

LEMMA LoadFailed ==
  ASSUME Inv, t.d.rm.there, up.state = "opening", NEW a \in Memory, a.calls = <<>>,
         a.event = "none", Fixed(a) = Fixed(t), a.file = a.d.rm.open, a.d.there, a.d.rm.there,
         a.d.rm.callback = "none", a.d.rm.open => a.d.rm.buffer, a.d.write = "NONE",
         ~a.d.sending, ~a.d.send, ~a.d.to_write, Becomes(InitFails(a)), up' = up
  PROVE  t' \in Memory /\ Rules'
<1> DEFINE b == InitFails(a)
<1>1. FailsTo(b, a) BY InitFailing
<1>2. Becomes(b) OBVIOUS
<1> HIDE DEF b
<1>3. PICK x \in With("tls", "connect", "ERR") : b.calls = Append(<<>>, x) BY <1>1 DEF FailsTo
<1>4. /\ b \in Memory /\ b.layer["tls"] = "CLOSED" /\ Still(b.d) = Still(a.d)
      /\ b.d.conn_cs = "start" /\ Fixed(b) = Fixed(t) /\ b.event = "none" /\ b.file = a.file
  BY <1>1 DEF FailsTo, Rest, Fixed
<1>5. /\ t'.calls = b.calls /\ t'.event = "none" /\ t'.d = b.d
  BY <1>2, <1>4, Become DEF Rest
<1>6. Only(t'.calls, Failures)
  <2>1. <<>> \in Seq(Calls) /\ x \in Calls BY DEF With, Kind
  <2>2. Longer(b.calls, <<>>, x) BY <1>3, <2>1, QueueAppend
  <2>3. x \in Failures BY DEF Failures
  <2> QED BY <1>5, <2>2, <2>3 DEF Longer
<1>7. LoadInv' BY <1>4, <1>5, <1>6 DEF LoadInv, Failed, Still
<1> QED BY <1>2, <1>4, <1>7, LoadingStep DEF Still

\* The file cannot be opened, or not be closed.
LEMMA LoadRefused ==
  ASSUME Inv, NEW fn \in {"open", "close"}, Serves(fn), NEW a, Entered(a),
         Becomes(RmFailed(a)), up' = up
  PROVE  t' \in Memory /\ Rules'
<1> DEFINE b  == [a EXCEPT !.d.rm.callback = "none"]
           st == CallbackState(a, "ERR")
           n  == [a.d.rm EXCEPT !.callback = "none"]
<1>1. /\ a \in Memory /\ a.calls = <<>> /\ a.event = "none" /\ a.layer = t.layer /\ a.d = t.d
      /\ Fixed(a) = Fixed(t) /\ a.file = t.file
  BY DEF Entered
<1>2. /\ a.d.rm \in RmTypes /\ a.d.rm.st \in Statuses
  BY <1>1 DEF Memory, Data, RmTypes
<1>3. RmBecomes(b, a, n, a.calls, a.event, a.file) BY <1>1, CallbackCleared
<1>4. st \in Statuses /\ st # "OK" BY <1>2 DEF CallbackState, Statuses
<1>5. /\ n.there = a.d.rm.there /\ n.open = a.d.rm.open /\ n.buffer = a.d.rm.buffer
      /\ n.callback = "none" /\ n.st = a.d.rm.st
  BY <1>2 DEF RmTypes
<1>6. RmFailed(a) = IF a.d.rm.callback = "init" THEN InitHandler(b, st, FALSE)
                    ELSE CloseExternallyHandler(b, st)
  BY DEF RmFailed
<1> HIDE DEF b, st, n
<1>7. /\ b \in Memory /\ b.calls = <<>> /\ b.event = "none" /\ b.file = t.file /\ b.layer = t.layer
      /\ Fixed(b) = Fixed(t) /\ b.d.rm = n /\ Others(b.d) = Others(t.d)
  BY <1>1, <1>3 DEF RmBecomes
<1>8. CASE t.d.rm.callback = "init"
  <2>1. /\ up.state = "opening" /\ t.d.conn_cs \in {"opening", "releasing"}
        /\ t.d.rm.open => t.d.rm.buffer
    BY <1>8, Served DEF Asked, Releasing
  <2>2. InitHandler(b, st, FALSE) = InitFails(b)
    <3>1. b.d.there /\ b.d.conn_cs \in {"opening", "releasing"}
      BY <1>7, <2>1, Served DEF Others
    <3> QED BY <1>4, <3>1 DEF InitHandler
  <2>3. Becomes(InitFails(b)) BY <1>1, <1>6, <1>8, <2>2
  <2>4. ~t.d.sending /\ ~t.d.send /\ ~t.d.to_write BY Served DEF Inv, Rules, LoadInv
  <2> QED BY <1>1, <1>5, <1>7, <2>1, <2>3, <2>4, Served, LoadFailed DEF Others
<1>9. CASE t.d.rm.callback # "init"
  <2>1. fn = "close" /\ Releasing BY <1>9, Served DEF Asked
  <2> DEFINE x == [layer |-> "rm", fn |-> "close", arg |-> 0, st |-> "OK"]
             c == RmRequest(b, "close", "close_externally", st)
             m == [b.d.rm EXCEPT !.callback = "close_externally", !.st = st]
  <2>2. CloseExternallyHandler(b, st) = c
    BY <1>1, <1>5, <1>7, <2>1, Served DEF CloseExternallyHandler, RmAllowed, Releasing
  <2>3. Becomes(c) BY <1>1, <1>6, <1>9, <2>2
  <2>4. x \in Calls /\ x \in Kind("rm", "close")
    <3>1. "close" \in FunctionNames /\ "OK" \in Statuses BY DEF FunctionNames, Statuses
    <3> QED BY <3>1, CallType, KindsOf
  <2>5. RmBecomes(c, b, m, Append(b.calls, x), b.event, b.file)
    <3>1. c = [b EXCEPT !.d.rm.callback = "close_externally", !.d.rm.st = st,
                        !.calls = Append(b.calls, x)]
      BY DEF RmRequest
    <3> HIDE DEF c, x
    <3> QED BY <1>4, <1>7, <2>4, <3>1, CallbackSet
  <2>6. b.d.rm \in RmTypes BY <1>7 DEF Memory, Data
  <2>7. /\ m.there = t.d.rm.there /\ m.open = t.d.rm.open /\ m.buffer = t.d.rm.buffer
        /\ m.callback = "close_externally"
    BY <1>1, <1>5, <1>7, <2>6 DEF RmTypes
  <2> HIDE DEF c, x, m
  <2>8. /\ c \in Memory /\ c.calls = Append(<<>>, x) /\ c.event = "none" /\ c.file = t.file
        /\ c.layer = t.layer /\ Fixed(c) = Fixed(t) /\ c.d.rm = m /\ Others(c.d) = Others(t.d)
    BY <1>7, <2>5 DEF RmBecomes
  <2>9. /\ t'.calls = c.calls /\ t'.event = "none" /\ t'.d = c.d
    BY <2>3, <2>8, Become DEF Rest
  <2>10. Only(t'.calls, Kind("rm", "close"))
    <3>1. <<>> \in Seq(Calls) OBVIOUS
    <3>2. Longer(c.calls, <<>>, x) BY <2>4, <2>8, <3>1, QueueAppend
    <3> QED BY <2>4, <2>9, <3>2 DEF Longer
  <2>11. LoadInv'
    <3>1. ~t.d.sending /\ ~t.d.send /\ ~t.d.to_write BY Served DEF Inv, Rules, LoadInv
    <3> QED BY <2>1, <2>7, <2>8, <2>9, <2>10, <3>1 DEF LoadInv, Releasing, Waits, Others
  <2> QED BY <2>3, <2>7, <2>8, <2>11, Served, LoadingStep DEF Others, Tls
<1> QED BY <1>8, <1>9

\* The coroutines, entered again by a call or by a file event.
LEMMA OpenGoesOn ==
  ASSUME Inv, Serves("open"), NEW a, Entered(a), NEW o \in FsAnswers,
         Becomes(OpenResource(a, o)), up' = up
  PROVE  t' \in Memory /\ Rules'
<1>1. a \in Memory /\ a.event = "none" /\ a.d = t.d BY DEF Entered
<1>2. CASE o = "WAIT"
  <2> DEFINE b == [a EXCEPT !.event = "open"]
  <2>1. RmBecomes(b, a, a.d.rm, a.calls, "open", a.file) BY <1>1, FileAwaited
  <2>2. Becomes(b) BY <1>2 DEF OpenResource
  <2> HIDE DEF b
  <2> QED BY <1>1, <2>1, <2>2, LoadWaits
<1>3. CASE o = "ERR" BY <1>3, LoadRefused DEF OpenResource
<1>4. CASE o = "OK"
  <2> DEFINE b == [a EXCEPT !.d.rm.open = TRUE, !.file = TRUE]
             m == [a.d.rm EXCEPT !.open = TRUE]
  <2>1. RmBecomes(b, a, m, a.calls, "none", TRUE) BY <1>1, FileOpened
  <2>2. Becomes(RmSucceeded(b)) BY <1>4 DEF OpenResource
  <2>3. a.d.rm \in RmTypes BY <1>1 DEF Memory, Data
  <2>4. m.there = t.d.rm.there /\ m.callback = t.d.rm.callback /\ m.st = t.d.rm.st /\ m.open = TRUE
    BY <1>1, <2>3 DEF RmTypes
  <2> HIDE DEF b, m
  <2> QED BY <2>1, <2>2, <2>4, LoadAnswered
<1> QED BY <1>2, <1>3, <1>4 DEF FsAnswers

LEMMA StatGoesOn ==
  ASSUME Inv, Serves("open"), NEW a, Entered(a), StatAndOpen(a), up' = up
  PROVE  t' \in Memory /\ Rules'
<1>1. a \in Memory /\ a.event = "none" /\ a.d = t.d BY DEF Entered
<1>2. CASE Becomes(StatResource(a, "WAIT", "OK"))
  <2> DEFINE b == [a EXCEPT !.event = "stat"]
  <2>1. RmBecomes(b, a, a.d.rm, a.calls, "stat", a.file) BY <1>1, FileAwaited
  <2>2. Becomes(b) BY <1>2 DEF StatResource
  <2> HIDE DEF b
  <2> QED BY <1>1, <2>1, <2>2, LoadWaits
<1>3. CASE Becomes(StatResource(a, "ERR", "OK")) BY <1>3, LoadRefused DEF StatResource
<1>4. ASSUME NEW o \in FsAnswers, Becomes(StatResource(a, "OK", o)) PROVE t' \in Memory /\ Rules'
  <2>1. Becomes(OpenResource(a, o)) BY <1>4 DEF StatResource
  <2> QED BY <2>1, OpenGoesOn
<1> QED BY <1>2, <1>3, <1>4 DEF StatAndOpen

LEMMA ReadGoesOn ==
  ASSUME Inv, Serves("read"), NEW a, Entered(a), NEW o \in FsAnswers,
         Becomes(ReadResource(a, o)), up' = up
  PROVE  t' \in Memory /\ Rules'
<1> DEFINE m == [a.d.rm EXCEPT !.buffer = TRUE]
<1>1. a \in Memory /\ a.event = "none" /\ a.d = t.d BY DEF Entered
<1>2. a.d.rm \in RmTypes BY <1>1 DEF Memory, Data
<1>3. /\ m.there = t.d.rm.there /\ m.callback = t.d.rm.callback /\ m.st = t.d.rm.st
      /\ m.open = t.d.rm.open /\ m.buffer
  BY <1>1, <1>2 DEF RmTypes
<1>4. t.d.rm.open = TRUE /\ a.file = TRUE
  BY <1>1, <1>2, Served DEF Entered, RmTypes
<1>5. CASE o = "WAIT"
  <2> DEFINE b == [a EXCEPT !.event = "read", !.d.rm.buffer = TRUE]
  <2>1. RmBecomes(b, a, m, a.calls, "read", a.file) BY <1>1, BufferAwaits
  <2>2. Becomes(b) BY <1>5 DEF ReadResource
  <2> HIDE DEF b, m
  <2> QED BY <1>1, <1>3, <2>1, <2>2, LoadWaits
<1>6. CASE o = "ERR"
  <2> DEFINE b == [a EXCEPT !.event = "read"]
  <2>1. RmBecomes(b, a, a.d.rm, a.calls, "read", a.file) BY <1>1, FileAwaited
  <2>2. Becomes(b) BY <1>6 DEF ReadResource
  <2> HIDE DEF b
  <2> QED BY <1>1, <2>1, <2>2, LoadWaits
<1>7. CASE o = "OK"
  <2> DEFINE b == [a EXCEPT !.d.rm.buffer = TRUE]
  <2>1. RmBecomes(b, a, m, a.calls, "none", TRUE) BY <1>1, <1>4, BufferMade
  <2>2. Becomes(RmSucceeded(b)) BY <1>7 DEF ReadResource
  <2> HIDE DEF b, m
  <2> QED BY <1>3, <1>4, <2>1, <2>2, LoadAnswered
<1> QED BY <1>5, <1>6, <1>7 DEF FsAnswers

LEMMA CloseGoesOn ==
  ASSUME Inv, Serves("close"), NEW a, Entered(a), NEW o \in FsAnswers,
         Becomes(CloseResource(a, o)), up' = up
  PROVE  t' \in Memory /\ Rules'
<1>1. a \in Memory /\ a.event = "none" /\ a.d = t.d BY DEF Entered
<1>2. CASE o = "WAIT"
  <2> DEFINE b == [a EXCEPT !.event = "close"]
  <2>1. RmBecomes(b, a, a.d.rm, a.calls, "close", a.file) BY <1>1, FileAwaited
  <2>2. Becomes(b) BY <1>2 DEF CloseResource
  <2> HIDE DEF b
  <2> QED BY <1>1, <2>1, <2>2, LoadWaits
<1>3. CASE o = "ERR" BY <1>3, LoadRefused DEF CloseResource
<1>4. CASE o = "OK"
  <2> DEFINE b == [a EXCEPT !.d.rm.open = FALSE, !.file = FALSE]
             m == [a.d.rm EXCEPT !.open = FALSE]
  <2>1. RmBecomes(b, a, m, a.calls, "none", FALSE) BY <1>1, FileOpened
  <2>2. Becomes(RmSucceeded(b))
    <3>1. Check(a, a.d.rm.buffer, "close_buffer") = a BY <1>1, Served DEF Check, Releasing
    <3> QED BY <1>4, <3>1 DEF CloseResource
  <2>3. a.d.rm \in RmTypes BY <1>1 DEF Memory, Data
  <2>4. m.there = t.d.rm.there /\ m.callback = t.d.rm.callback /\ m.st = t.d.rm.st /\ m.open = FALSE
    BY <1>1, <2>3 DEF RmTypes
  <2> HIDE DEF b, m
  <2> QED BY <2>1, <2>2, <2>4, LoadAnswered
<1> QED BY <1>2, <1>3, <1>4 DEF FsAnswers

LEMMA RmRight ==
  ASSUME Inv, RmOpen \/ RmRead \/ RmClose \/ FileEvent
  PROVE  t' \in Memory /\ Rules'
<1>1. up' = up BY DEF RmOpen, RmRead, RmClose, FileEvent
<1>2. CASE RmOpen
  <2>1. Serves("open") /\ Called("rm", "open") BY <1>2 DEF RmOpen, Serves
  <2>2. Entered(RmEntered(Popped)) BY <2>1, Enters
  <2> QED BY <1>1, <1>2, <2>1, <2>2, StatGoesOn DEF RmOpen
<1>3. CASE RmRead
  <2>1. Serves("read") /\ Called("rm", "read") BY <1>3 DEF RmRead, Serves
  <2>2. Entered(RmEntered(Popped)) BY <2>1, Enters
  <2> QED BY <1>1, <1>3, <2>1, <2>2, ReadGoesOn DEF RmRead
<1>4. CASE RmClose
  <2>1. Serves("close") /\ Called("rm", "close") BY <1>4 DEF RmClose, Serves
  <2>2. Entered(RmEntered(Popped)) BY <2>1, Enters
  <2> QED BY <1>1, <1>4, <2>1, <2>2, CloseGoesOn DEF RmClose
<1>5. CASE FileEvent
  <2> DEFINE a == RmEntered([t EXCEPT !.event = "none"])
  <2>1. t.event \in {"stat", "open", "read", "close"} /\ t.calls = <<>>
    BY <1>5 DEF FileEvent, Inv, Types, Memory
  <2>2. /\ t.event = "stat" => StatAndOpen(a)
        /\ t.event = "open" => \E o \in FsAnswers : Answers(o) /\ Becomes(OpenResource(a, o))
        /\ t.event = "read" => \E o \in FsAnswers : Answers(o) /\ Becomes(ReadResource(a, o))
        /\ t.event = "close" => \E o \in FsAnswers : Answers(o) /\ Becomes(CloseResource(a, o))
    BY <1>5 DEF FileEvent
  <2> HIDE DEF a
  <2>3. ASSUME NEW fn \in {"open", "read", "close"}, Serves(fn) PROVE Entered(a)
    BY <2>1, <2>3, Enters DEF a
  <2>4. CASE t.event \in {"stat", "open"}
    <3>1. Serves("open") BY <2>1, <2>4 DEF Serves
    <3> QED BY <1>1, <2>2, <2>3, <2>4, <3>1, StatGoesOn, OpenGoesOn
  <2>5. CASE t.event = "read"
    <3>1. Serves("read") BY <2>1, <2>5 DEF Serves
    <3> QED BY <1>1, <2>2, <2>3, <2>5, <3>1, ReadGoesOn
  <2>6. CASE t.event = "close"
    <3>1. Serves("close") BY <2>1, <2>6 DEF Serves
    <3> QED BY <1>1, <2>2, <2>3, <2>6, <3>1, CloseGoesOn
  <2> QED BY <2>1, <2>4, <2>5, <2>6
<1> QED BY <1>2, <1>3, <1>4, <1>5

\* The next request of the coroutine, and the place where it waits.
Yields(b, a, fn, cs) ==
  /\ b \in Memory /\ b.layer = a.layer /\ Rest(b) = Rest(a)
  /\ \E x \in Kind("rm", fn) : b.calls = Append(a.calls, x)
  /\ b.d.conn_cs = cs /\ b.d.rm.callback = "init" /\ b.d.rm.st = "OK"
  /\ b.d.rm.there = a.d.rm.there /\ b.d.rm.open = a.d.rm.open /\ b.d.rm.buffer = a.d.rm.buffer
  /\ b.d.there = a.d.there /\ b.d.lib = a.d.lib /\ b.d.write = a.d.write
  /\ b.d.sending = a.d.sending /\ b.d.send = a.d.send /\ b.d.to_write = a.d.to_write

LEMMA Yielding ==
  ASSUME NEW a \in Memory, NEW fn \in {"open", "read", "close"},
         NEW cs \in {"opening", "reading", "releasing"}
  PROVE  Yields([RmRequest(a, fn, "init", "OK") EXCEPT !.d.conn_cs = cs], a, fn, cs)
<1> DEFINE x == [layer |-> "rm", fn |-> fn, arg |-> 0, st |-> "OK"]
           c == RmRequest(a, fn, "init", "OK")
           m == [a.d.rm EXCEPT !.callback = "init", !.st = "OK"]
           b == [c EXCEPT !.d.conn_cs = cs]
<1>1. "OK" \in Statuses /\ fn \in FunctionNames BY DEF Statuses, FunctionNames
<1>2. x \in Calls /\ x \in Kind("rm", fn) BY <1>1, CallType, KindsOf
<1>3. RmBecomes(c, a, m, Append(a.calls, x), a.event, a.file)
  <2>1. c = [a EXCEPT !.d.rm.callback = "init", !.d.rm.st = "OK", !.calls = Append(a.calls, x)]
    BY DEF RmRequest
  <2> HIDE DEF c, x
  <2> QED BY <1>1, <1>2, <2>1, CallbackSet
<1>4. a.d.rm \in RmTypes BY DEF Memory, Data
<1>5. /\ m.there = a.d.rm.there /\ m.open = a.d.rm.open /\ m.buffer = a.d.rm.buffer
      /\ m.callback = "init" /\ m.st = "OK"
  BY <1>4 DEF RmTypes
<1> HIDE DEF c, x, m
<1>6. c \in Memory BY <1>3 DEF RmBecomes
<1>7. b \in Memory BY <1>6 DEF Memory, Data
<1>8. b.calls = c.calls /\ b.layer = c.layer /\ Rest(b) = Rest(c) BY <1>6 DEF Memory, Rest
<1>9. /\ b.d.conn_cs = cs /\ b.d.rm = c.d.rm /\ b.d.there = c.d.there /\ b.d.lib = c.d.lib
      /\ b.d.write = c.d.write /\ b.d.sending = c.d.sending /\ b.d.send = c.d.send
      /\ b.d.to_write = c.d.to_write
  BY <1>6 DEF Memory, Data
<1> HIDE DEF b
<1>10. Yields(b, a, fn, cs)
  BY <1>2, <1>3, <1>5, <1>7, <1>8, <1>9 DEF Yields, RmBecomes, Rest, Fixed, Others
<1> QED BY <1>10 DEF b, c

\* A request of the coroutine after an answer keeps everything in order.
LEMMA LoadAsks ==
  ASSUME Inv, NEW a \in Memory, a.calls = <<>>, a.event = "none", a.layer = t.layer,
         Tls \in {"NONE", "CLOSED"}, a.io_data = FALSE, a.io = "idle", a.broken = {},
         a.file = a.d.rm.open, a.d.there, a.d.rm.there, a.d.write = "NONE", ~a.d.sending,
         ~a.d.send, ~a.d.to_write, up.state = "opening",
         NEW b, NEW fn, NEW cs, Yields(b, a, fn, cs), Becomes(b), up' = up,
         \/ fn = "open" /\ cs = "opening" /\ ~a.d.rm.open
         \/ fn = "read" /\ cs = "reading" /\ a.d.rm.open
         \/ fn = "close" /\ cs = "releasing" /\ a.d.rm.open /\ a.d.rm.buffer /\ a.d.lib.there
  PROVE  t' \in Memory /\ Rules'
<1>1. /\ t' \in Memory /\ t'.calls = b.calls /\ t'.layer = b.layer /\ t'.d = b.d
      /\ Rest(t') = Rest(b)
  BY Become DEF Yields
<1>2. /\ t'.broken = {} /\ t'.io_data = FALSE /\ t'.io = "idle" /\ t'.file = t'.d.rm.open
      /\ t'.event = "none"
  BY <1>1 DEF Rest, Yields
<1>3. PICK x \in Kind("rm", fn) : b.calls = Append(<<>>, x) BY DEF Yields
<1>4. Only(t'.calls, Kind("rm", fn))
  <2>1. <<>> \in Seq(Calls) /\ x \in Calls BY DEF Kind
  <2>2. Longer(b.calls, <<>>, x) BY <1>3, <2>1, QueueAppend
  <2> QED BY <1>1, <2>2 DEF Longer
<1>5. LoadInv' BY <1>1, <1>2, <1>4 DEF Yields, LoadInv, Asked, Waits
<1>6. Tls' \in {"NONE", "CLOSED"} BY <1>1 DEF Yields, Tls
<1>7. ~up'.early BY DEF Inv, Rules, EarlyInv
<1> QED BY <1>1, <1>2, <1>5, <1>6, <1>7, Loading DEF Yields

\* The certificate is loaded: the io layer below is initialised.
LEMMA LoadEnds ==
  ASSUME Inv, NEW a, Taken(a), a.calls = <<>>, t.d.there, t.d.rm.there, t.event = "none",
         ~t.d.rm.open, t.d.lib.there, up.state = "opening",
         Becomes(Downwards([a EXCEPT !.d.rm = NoRm, !.d.handler = "connect"], "init", "OK")),
         up' = up
  PROVE  t' \in Memory /\ Rules'
<1> DEFINE b == [a EXCEPT !.d.rm = NoRm, !.d.handler = "connect"]
           c == Downwards(b, "init", "OK")
           x == [layer |-> "io", fn |-> "init", arg |-> 0, st |-> "OK"]
<1>0. a \in Memory /\ a.layer = t.layer /\ a.d = t.d /\ Rest(a) = Rest(t) BY DEF Taken
<1>1. NoRm \in RmTypes BY DEF NoRm, RmTypes, Statuses
<1>2. b \in Memory BY <1>0, <1>1 DEF Memory, Data
<1>3. b.calls = <<>> /\ b.layer = t.layer /\ Rest(b) = Rest(t) BY <1>0 DEF Memory, Rest
<1>4. /\ b.d.rm = NoRm /\ b.d.handler = "connect" /\ b.d.there = t.d.there /\ b.d.lib = t.d.lib
      /\ b.d.write = t.d.write /\ b.d.sending = t.d.sending /\ b.d.send = t.d.send
      /\ b.d.to_write = t.d.to_write
  BY <1>0 DEF Memory, Data
<1>5. "init" \in FunctionNames /\ "OK" \in Statuses BY DEF FunctionNames, Statuses
<1>6. x \in Calls /\ x \in Kind("io", "init")
  <2>1. x \in Calls BY <1>5, CallType
  <2> QED BY <2>1 DEF Kind
<1> HIDE DEF b
<1>7. Queues(c, b, "tls", x, "CONNECTING")
  <2>1. c = ContinueWith(b, "tls", "init", "io", 0, "OK") BY DEF Downwards
  <2>2. NextLayerState("init", b.layer["tls"], "OK") = "CONNECTING" BY DEF NextLayerState
  <2> HIDE DEF c
  <2>3. Queues(c, b, "tls", x, NextLayerState("init", b.layer["tls"], "OK"))
    BY <1>2, <1>5, <2>1, Continues
  <2> QED BY <2>2, <2>3
<1>8. Becomes(c) BY DEF b
<1> HIDE DEF c, x
<1>9. /\ t' \in Memory /\ t'.calls = Append(<<>>, x) /\ t'.d = b.d /\ Rest(t') = Rest(t)
      /\ t'.layer = [t.layer EXCEPT !["tls"] = "CONNECTING"]
  BY <1>3, <1>7, <1>8, Become DEF Queues
<1>10. Tls' = "CONNECTING"
  <2>1. t.layer \in [{"io", "tls", "codec"} -> LayerStates] BY DEF Inv, Types, Memory
  <2> QED BY <1>9, <2>1 DEF Tls
<1>11. /\ t'.io_data = t.io_data /\ t'.io = t.io /\ t'.event = t.event /\ t'.file = t.file
       /\ t'.broken = t.broken
  BY <1>9 DEF Rest
<1>12. Longer(t'.calls, <<>>, x)
  <2>1. <<>> \in Seq(Calls) OBVIOUS
  <2> QED BY <1>6, <1>9, <2>1, QueueAppend
<1>13. /\ t.broken = {} /\ ~t.io_data /\ t.io = "idle" /\ ~t.file /\ t.d.write = "NONE"
       /\ ~t.d.sending /\ ~t.d.send /\ ~t.d.to_write /\ ~up.early /\ t.file = t.d.rm.open
  BY DEF Inv, Rules, LayerInv, LoadInv, TokenInv, EarlyInv
<1>14. NoRm.there = FALSE /\ NoRm.open = FALSE BY DEF NoRm
<1>15. t'.file = NoRm.open
  <2>1. t.file \in BOOLEAN BY DEF Inv, Types, Memory
  <2> QED BY <1>11, <1>13, <1>14, <2>1
<1> HIDE DEF x
<1>20. LayerInv' BY <1>4, <1>9, <1>10, <1>11, <1>13, <1>14, <1>15 DEF LayerInv
<1>21. ConnectingInv'
  BY <1>4, <1>6, <1>9, <1>10, <1>12, <1>13, QueueEmpty, KindsOf DEF ConnectingInv, Longer
<1>22. StartInv'
  BY <1>6, <1>10, <1>11, <1>12, <1>13, QueueEmpty, KindsOf DEF StartInv, Longer
<1>23. LoadInv' BY <1>4, <1>9, <1>14 DEF LoadInv
<1>24. EndInv' BY <1>6, <1>12, QueueEmpty, KindsOf DEF EndInv, Longer
<1>25. TokenInv'
  BY <1>4, <1>6, <1>9, <1>11, <1>12, <1>13, QueueEmpty, KindsOf DEF TokenInv, Longer
<1>26. PushInv' BY <1>10 DEF PushInv
<1>27. DataInv' BY <1>6, <1>10, <1>12, QueueEmpty, KindsOf DEF DataInv, Longer
<1>28. EarlyInv' BY <1>6, <1>10, <1>12, <1>13, QueueEmpty, KindsOf DEF EarlyInv, Longer
<1> QED
  BY <1>9, <1>20, <1>21, <1>22, <1>23, <1>24, <1>25, <1>26, <1>27, <1>28 DEF Rules

LEMMA InitRight ==
  ASSUME Inv, TlsInit
  PROVE  t' \in Memory /\ Rules'
<1>1. /\ Called("tls", "init") /\ t.calls # <<>> /\ Call.layer = "tls" /\ Call.fn = "init"
      /\ up' = up
  BY DEF TlsInit, Called
<1>2. PICK bad \in BOOLEAN : Becomes(InitHandler(Popped, Call.st, bad)) BY DEF TlsInit
<1>3. /\ t \in Memory /\ Taken(Popped) /\ Call \in Calls /\ Call.st \in Statuses
  BY <1>1, Pop DEF Inv
<1>4. /\ Only(t.calls, Inits) /\ up.state = "opening" /\ Popped.calls = <<>>
      /\ t.d.there => t.d.rm.there
      /\ \A S : Only(t.calls, S) <=> Call \in S
  <2>1. Shorter(t.calls, Call, Popped.calls) BY <1>3 DEF Taken
  <2>2. Call \in Inits BY <1>1, <1>3, KindsOf
  <2>3. Only(t.calls, Inits) /\ up.state = "opening" /\ (t.d.there => t.d.rm.there)
    BY <2>1, <2>2 DEF Shorter, Inv, Rules, StartInv
  <2> QED BY <2>1, <2>3 DEF Shorter
<1> DEFINE a == Popped
<1>5. /\ a \in Memory /\ a.layer = t.layer /\ a.d = t.d /\ Rest(a) = Rest(t) /\ a.calls = <<>>
      /\ a.io_data = t.io_data /\ a.io = t.io /\ a.event = t.event /\ a.file = t.file
      /\ a.broken = t.broken
  BY <1>3, <1>4 DEF Taken, Rest
<1> HIDE DEF a
<1>6. CASE ~t.d.there
  <2> DEFINE b    == [a EXCEPT !.d = [NoData EXCEPT !.there = TRUE]]
             made == [b EXCEPT !.d.rm = [NoRm EXCEPT !.there = TRUE]]
             c    == [RmRequest(made, "open", "init", "OK") EXCEPT !.d.conn_cs = "opening"]
  <2>1. /\ t.d = NoData /\ Tls \in {"NONE", "CLOSED"} /\ ~t.io_data /\ t.io = "idle"
        /\ t.event = "none" /\ t.broken = {} /\ t.file = t.d.rm.open
    BY <1>6 DEF Inv, Rules, LayerInv, NoData, NoRm
  <2>2. [NoData EXCEPT !.there = TRUE] \in Data
    <3>1. NoData \in Data BY <1>3, <2>1 DEF Memory
    <3> QED BY <3>1 DEF Data
  <2>3. [NoRm EXCEPT !.there = TRUE] \in RmTypes BY DEF NoRm, RmTypes, Statuses
  <2>4. b \in Memory BY <1>5, <2>2 DEF Memory
  <2>5. b.calls = <<>> /\ b.layer = t.layer /\ Rest(b) = Rest(t) BY <1>5 DEF Memory, Rest
  <2>6. /\ b.d.there /\ b.d.conn_cs = "start" /\ b.d.rm = NoRm /\ b.d.write = "NONE"
        /\ ~b.d.sending /\ ~b.d.send /\ ~b.d.to_write
    BY <1>5 DEF Memory, NoData
  <2> HIDE DEF b
  <2>7. made \in Memory BY <2>3, <2>4 DEF Memory, Data
  <2>8. made.calls = <<>> /\ made.layer = t.layer /\ Rest(made) = Rest(t)
    BY <2>4, <2>5 DEF Memory, Rest
  <2>9. /\ made.d.there /\ made.d.rm = [NoRm EXCEPT !.there = TRUE] /\ made.d.write = "NONE"
        /\ ~made.d.sending /\ ~made.d.send /\ ~made.d.to_write
    BY <2>4, <2>6 DEF Memory, Data
  <2>10. made.d.rm.there /\ made.d.rm.open = FALSE BY <2>9 DEF NoRm
  <2>11. InitHandler(a, Call.st, bad) = c
    BY <1>5, <1>6, <2>6 DEF InitHandler, b, NoRm
  <2>12. Becomes(c) BY <1>2, <2>11 DEF a
  <2>13. made.io_data = t.io_data /\ made.io = t.io /\ made.event = t.event /\ made.file = t.file
         /\ made.broken = t.broken
    BY <2>8 DEF Rest
  <2>14. t.file = FALSE /\ t.io_data = FALSE
    <3>1. t.file \in BOOLEAN /\ t.io_data \in BOOLEAN BY <1>3 DEF Memory
    <3>2. t.d.rm.open = FALSE BY <2>1 DEF NoData, NoRm
    <3> QED BY <2>1, <3>1, <3>2
  <2> HIDE DEF made
  <2>15. Yields(c, made, "open", "opening") BY <2>7, Yielding
  <2> HIDE DEF c
  <2> QED BY <1>1, <1>4, <2>1, <2>7, <2>8, <2>9, <2>10, <2>12, <2>13, <2>14, <2>15, LoadAsks
<1>7. CASE t.d.there
  <2>1. t.d.rm.there BY <1>4, <1>7
  <2>2. /\ Tls \in {"NONE", "CLOSED"} /\ ~t.io_data /\ t.io = "idle" /\ t.broken = {}
        /\ t.file = t.d.rm.open /\ t.d.write = "NONE" /\ ~t.d.sending /\ ~t.d.send
        /\ ~t.d.to_write
    BY <1>7, <2>1 DEF Inv, Rules, LayerInv, LoadInv, TokenInv
  <2>3. t.io_data = FALSE
    <3>1. t.io_data \in BOOLEAN BY <1>3 DEF Memory
    <3> QED BY <2>2, <3>1
  <2>4. /\ t.event = "none" /\ t.d.rm.callback = "none" /\ Call.st = "OK"
        /\ \/ t.d.conn_cs = "opening" /\ t.d.rm.open
           \/ t.d.conn_cs = "reading" /\ t.d.rm.open /\ t.d.rm.buffer
           \/ t.d.conn_cs = "releasing" /\ ~t.d.rm.open /\ t.d.lib.there
    BY <1>1, <1>3, <1>4, <2>1, KindsOf
    DEF Inv, Rules, LoadInv, Asked, Answered, Failed, Releasing, Waits
  <2>5. CASE t.d.conn_cs = "opening" /\ t.d.rm.open
    <3> DEFINE c == [RmRequest(a, "read", "init", "OK") EXCEPT !.d.conn_cs = "reading"]
    <3>1. InitHandler(a, Call.st, bad) = c BY <1>5, <1>7, <2>4, <2>5 DEF InitHandler
    <3>2. Becomes(c) BY <1>2, <3>1 DEF a
    <3>3. Yields(c, a, "read", "reading") BY <1>5, Yielding
    <3> HIDE DEF c
    <3> QED BY <1>1, <1>4, <1>5, <1>7, <2>1, <2>2, <2>3, <2>4, <2>5, <3>2, <3>3, LoadAsks
  <2>6. CASE t.d.conn_cs = "reading" /\ t.d.rm.open /\ t.d.rm.buffer
    <3>1. CASE bad
      <4>1. InitHandler(a, Call.st, bad) = InitFails(a)
        BY <1>5, <1>7, <2>4, <2>6, <3>1 DEF InitHandler
      <4>2. Becomes(InitFails(a)) BY <1>2, <4>1 DEF a
      <4> QED BY <1>1, <1>4, <1>5, <1>7, <2>1, <2>2, <2>4, <2>6, <4>2, LoadFailed DEF Fixed
    <3>2. CASE ~bad
      <4> DEFINE e == LibInit(a)
                 c == [RmRequest(e, "close", "init", "OK") EXCEPT !.d.conn_cs = "releasing"]
      <4>1. InitHandler(a, Call.st, bad) = c
        <5>1. Check(e, a.d.rm.buffer, "certificate") = e BY <1>5, <2>6 DEF Check
        <5> QED BY <1>5, <1>7, <2>4, <2>6, <3>2, <5>1 DEF InitHandler
      <4>2. Becomes(c) BY <1>2, <4>1 DEF a
      <4>3. [NoLib EXCEPT !.there = TRUE] \in LibTypes
        <5>1. RecordUnits \in Nat \ {0} /\ Len(Handshake) \in Nat BY TlsAssumption
        <5>2. NoLib \in LibTypes BY <5>1 DEF NoLib, LibTypes
        <5> QED BY <5>2 DEF LibTypes
      <4>4. e \in Memory BY <1>5, <4>3 DEF LibInit, Memory, Data
      <4>5. e.calls = <<>> /\ e.layer = t.layer /\ Rest(e) = Rest(t)
        BY <1>5 DEF LibInit, Memory, Rest
      <4>6. /\ e.d.lib = [NoLib EXCEPT !.there = TRUE] /\ e.d.rm = t.d.rm /\ e.d.there
            /\ e.d.write = "NONE" /\ ~e.d.sending /\ ~e.d.send /\ ~e.d.to_write
        BY <1>5, <1>7, <2>2 DEF LibInit, Memory, Data
      <4>7. e.d.lib.there BY <4>6 DEF NoLib
      <4> HIDE DEF e
      <4>8. Yields(c, e, "close", "releasing") BY <4>4, Yielding
      <4> HIDE DEF c
      <4>9. e.io_data = FALSE /\ e.io = "idle" /\ e.event = "none" /\ e.broken = {}
            /\ e.file = e.d.rm.open
        BY <2>2, <2>3, <2>4, <4>5, <4>6 DEF Rest
      <4> QED BY <1>1, <1>4, <2>1, <2>2, <2>6, <4>2, <4>4, <4>5, <4>6, <4>7, <4>8, <4>9, LoadAsks
    <3> QED BY <3>1, <3>2
  <2>7. CASE t.d.conn_cs = "releasing" /\ ~t.d.rm.open /\ t.d.lib.there
    <3>1. InitHandler(a, Call.st, bad)
            = Downwards([a EXCEPT !.d.rm = NoRm, !.d.handler = "connect"], "init", "OK")
      BY <1>5, <1>7, <2>4, <2>7 DEF InitHandler
    <3>2. Becomes(Downwards([a EXCEPT !.d.rm = NoRm, !.d.handler = "connect"], "init", "OK"))
      BY <1>2, <3>1 DEF a
    <3>3. Taken(a) BY <1>3 DEF a
    <3> QED BY <1>1, <1>4, <1>5, <1>7, <2>1, <2>4, <2>7, <3>2, <3>3, LoadEnds
  <2> QED BY <2>4, <2>5, <2>6, <2>7
<1> QED BY <1>6, <1>7

-----------------------------------------------------------------------------
(* Calls and events that are handed on: the step ends with the call x put   *)
(* at the end of the queue by a layer that goes over to state s.            *)
PassedOn(a, l, x, s) ==
  /\ t' \in Memory /\ x \in Calls /\ Longer(t'.calls, a.calls, x)
  /\ Tls' = (IF l = "tls" THEN s ELSE a.layer["tls"])
  /\ t'.d = a.d /\ t'.io_data = a.io_data /\ t'.io = a.io /\ t'.event = a.event
  /\ t'.file = a.file /\ t'.broken = a.broken

LEMMA PassesOn ==
  ASSUME NEW a \in Memory, NEW l \in {"io", "tls", "codec"}, NEW to \in {"io", "tls", "codec"},
         NEW fn \in FunctionNames, NEW n \in Nat, NEW st \in Statuses,
         Becomes(ContinueWith(a, l, fn, to, n, st))
  PROVE  PassedOn(a, l, [layer |-> to, fn |-> fn, arg |-> n, st |-> st],
                  NextLayerState(fn, a.layer[l], st))
<1> DEFINE x == [layer |-> to, fn |-> fn, arg |-> n, st |-> st]
           s == NextLayerState(fn, a.layer[l], st)
           b == ContinueWith(a, l, fn, to, n, st)
<1>1. x \in Calls BY CallType
<1>2. Queues(b, a, l, x, s) BY Continues
<1>3. Becomes(b) OBVIOUS
<1>4. a.calls \in Seq(Calls) /\ a.layer \in [{"io", "tls", "codec"} -> LayerStates]
  BY DEF Memory
<1> HIDE DEF x, s, b
<1>5. /\ t' \in Memory /\ t'.calls = Append(a.calls, x) /\ t'.layer = [a.layer EXCEPT ![l] = s]
      /\ t'.d = a.d /\ Rest(t') = Rest(a)
  BY <1>2, <1>3, Become DEF Queues
<1>6. Longer(t'.calls, a.calls, x) BY <1>1, <1>4, <1>5, QueueAppend
<1>7. Tls' = IF l = "tls" THEN s ELSE a.layer["tls"] BY <1>4, <1>5 DEF Tls
<1>8. PassedOn(a, l, x, s) BY <1>1, <1>5, <1>6, <1>7 DEF PassedOn, Rest
<1> QED BY <1>8 DEF x, s

\* A call is taken from the queue: what is known of it and of what is left.
Taking(a, l, fn) ==
  /\ t \in Memory /\ a \in Memory /\ Shorter(t.calls, Call, a.calls) /\ a.layer["tls"] = Tls
  /\ a.layer = t.layer /\ a.d = t.d /\ a.io_data = t.io_data /\ a.io = t.io
  /\ a.event = t.event /\ a.file = t.file /\ a.broken = t.broken
  /\ t.calls # <<>> /\ Call \in Calls /\ Call.layer = l /\ Call.fn = fn
  /\ Call.arg \in Nat /\ Call.st \in Statuses

LEMMA Takes ==
  ASSUME Inv, NEW l, NEW fn, Called(l, fn)
  PROVE  Taking(Popped, l, fn)
<1>1. /\ t \in Memory /\ Taken(Popped) /\ Call \in Calls /\ Call.arg \in Nat
      /\ Call.st \in Statuses
  BY Pop DEF Called, Inv
<1>2. t.calls # <<>> /\ Call.layer = l /\ Call.fn = fn BY DEF Called
<1> QED BY <1>1, <1>2 DEF Taking, Taken, Rest, Tls

LEMMA TlsCloseRight ==
  ASSUME Inv, TlsClose
  PROVE  t' \in Memory /\ Rules'
<1> DEFINE a == Popped
<1>1. Called("tls", "close") /\ up' = up /\ Becomes(CloseHandler(a, Call.st)) BY DEF TlsClose
<1>2. Taking(a, "tls", "close") BY <1>1, Takes
<1>3. {"close", "close_externally"} \subseteq FunctionNames BY DEF FunctionNames
<1>4. \E x, s : /\ PassedOn(a, "tls", x, s)
                /\ \/ t.d.there /\ x.layer = "io" /\ x.fn = "close"
                      /\ s = NextLayerState("close", Tls, Call.st)
                   \/ ~t.d.there /\ x.layer = "tls" /\ x.fn = "close_externally" /\ s = "CLOSED"
  <2>1. CASE t.d.there
    <3>1. Becomes(ContinueWith(a, "tls", "close", "io", 0, Call.st))
      BY <1>1, <1>2, <2>1 DEF CloseHandler, Downwards, Taking
    <3>2. PassedOn(a, "tls", [layer |-> "io", fn |-> "close", arg |-> 0, st |-> Call.st],
                   NextLayerState("close", Tls, Call.st))
      BY <1>2, <1>3, <3>1, PassesOn DEF Taking
    <3> QED BY <2>1, <3>2
  <2>2. CASE ~t.d.there
    <3>1. Becomes(ContinueWith(a, "tls", "close_externally", "tls", 0, Call.st))
      BY <1>1, <1>2, <2>2 DEF CloseHandler, Itself, OnThis, Taking
    <3>2. PassedOn(a, "tls", [layer |-> "tls", fn |-> "close_externally", arg |-> 0,
                              st |-> Call.st],
                   NextLayerState("close_externally", Tls, Call.st))
      BY <1>2, <1>3, <3>1, PassesOn DEF Taking
    <3> QED BY <2>2, <3>2 DEF NextLayerState
  <2> QED BY <2>1, <2>2
<1>5. PICK x, s : /\ PassedOn(a, "tls", x, s)
                  /\ \/ t.d.there /\ x.layer = "io" /\ x.fn = "close"
                        /\ s \in {Tls, "CLOSING"} /\ (s = Tls \/ Tls = "CONNECTED")
                     \/ ~t.d.there /\ x.layer = "tls" /\ x.fn = "close_externally" /\ s = "CLOSED"
  BY <1>4 DEF NextLayerState
<1> HIDE DEF a
<1>10. LayerInv' BY <1>2, <1>5 DEF Taking, PassedOn, Inv, Rules, LayerInv
<1>11. ConnectingInv'
  BY <1>1, <1>2, <1>5, KindsOf
  DEF Taking, PassedOn, Shorter, Longer, Inv, Rules, LayerInv, ConnectingInv, AtWrite
<1>12. StartInv'
  BY <1>1, <1>2, <1>5, KindsOf
  DEF Taking, PassedOn, Shorter, Longer, Inv, Rules, LayerInv, StartInv
<1>13. LoadInv'
  BY <1>1, <1>2, <1>5, KindsOf
  DEF Taking, PassedOn, Shorter, Longer, Inv, Rules, LayerInv, LoadInv, Asked, Answered, Failed,
      Releasing, Waits
<1>14. EndInv'
  BY <1>1, <1>2, <1>5, KindsOf
  DEF Taking, PassedOn, Shorter, Longer, Inv, Rules, LayerInv, EndInv, StartInv
<1>15. TokenInv'
  BY <1>1, <1>2, <1>5, KindsOf
  DEF Taking, PassedOn, Shorter, Longer, Inv, Rules, LayerInv, TokenInv
<1>16. PushInv'
  BY <1>1, <1>2, <1>5, KindsOf
  DEF Taking, PassedOn, Shorter, Longer, Inv, Rules, LayerInv, PushInv
<1>17. DataInv'
  BY <1>1, <1>2, <1>5, KindsOf
  DEF Taking, PassedOn, Shorter, Longer, Inv, Rules, LayerInv, ConnectingInv, DataInv, Undecoded
<1>18. EarlyInv'
  BY <1>1, <1>2, <1>5, KindsOf
  DEF Taking, PassedOn, Shorter, Longer, Inv, Rules, LayerInv, EarlyInv
<1> QED BY <1>5, <1>10, <1>11, <1>12, <1>13, <1>14, <1>15, <1>16, <1>17, <1>18
        DEF PassedOn, Rules

LEMMA IoCloseRight ==
  ASSUME Inv, IoClose
  PROVE  t' \in Memory /\ Rules'
<1> DEFINE a == Popped
<1>1. /\ Called("io", "close") /\ up' = up
      /\ Becomes(ContinueWith(a, "io", "close_externally", "io", 0, Call.st))
  BY DEF IoClose, OnThis
<1>2. Taking(a, "io", "close") BY <1>1, Takes
<1>3. PICK x, s : PassedOn(a, "io", x, s) /\ x.layer = "io" /\ x.fn = "close_externally"
  <2>1. "close_externally" \in FunctionNames BY DEF FunctionNames
  <2>2. PassedOn(a, "io", [layer |-> "io", fn |-> "close_externally", arg |-> 0, st |-> Call.st],
                 NextLayerState("close_externally", a.layer["io"], Call.st))
    BY <1>1, <1>2, <2>1, PassesOn DEF Taking
  <2> QED BY <2>2
<1> HIDE DEF a
<1>10. LayerInv'
  BY <1>1, <1>2, <1>3, KindsOf
  DEF Taking, PassedOn, Shorter, Longer, Inv, Rules, LayerInv
<1>11. ConnectingInv'
  BY <1>1, <1>2, <1>3, KindsOf
  DEF Taking, PassedOn, Shorter, Longer, Inv, Rules, LayerInv, ConnectingInv, AtWrite
<1>12. StartInv'
  BY <1>1, <1>2, <1>3, KindsOf
  DEF Taking, PassedOn, Shorter, Longer, Inv, Rules, LayerInv, StartInv
<1>13. LoadInv'
  BY <1>1, <1>2, <1>3, KindsOf
  DEF Taking, PassedOn, Shorter, Longer, Inv, Rules, LayerInv, LoadInv, Asked, Answered,
      Failed, Releasing, Waits
<1>14. EndInv'
  BY <1>1, <1>2, <1>3, KindsOf
  DEF Taking, PassedOn, Shorter, Longer, Inv, Rules, LayerInv, StartInv, EndInv
<1>15. TokenInv'
  BY <1>1, <1>2, <1>3, KindsOf
  DEF Taking, PassedOn, Shorter, Longer, Inv, Rules, LayerInv, TokenInv
<1>16. PushInv'
  BY <1>1, <1>2, <1>3, KindsOf
  DEF Taking, PassedOn, Shorter, Longer, Inv, Rules, LayerInv, PushInv
<1>17. DataInv'
  BY <1>1, <1>2, <1>3, KindsOf
  DEF Taking, PassedOn, Shorter, Longer, Inv, Rules, LayerInv, ConnectingInv, DataInv,
      Undecoded
<1>18. EarlyInv'
  BY <1>1, <1>2, <1>3, KindsOf
  DEF Taking, PassedOn, Shorter, Longer, Inv, Rules, LayerInv, EarlyInv
<1> QED BY <1>3, <1>10, <1>11, <1>12, <1>13, <1>14, <1>15, <1>16, <1>17, <1>18
       DEF PassedOn, Rules

LEMMA IoCloseExternallyRight ==
  ASSUME Inv, IoCloseExternally
  PROVE  t' \in Memory /\ Rules'
<1> DEFINE a == Popped
           b == [a EXCEPT !.io_data = FALSE, !.io = "idle"]
<1>1. /\ Called("io", "close_externally") /\ up' = up
      /\ Becomes(ContinueWith(b, "io", "close_externally", "tls", 0, Call.st))
  BY DEF IoCloseExternally, FromIo
<1>2. Taking(a, "io", "close_externally") BY <1>1, Takes
<1>3. /\ b \in Memory /\ b.calls = a.calls /\ b.layer = t.layer /\ b.layer["tls"] = Tls
      /\ b.d = t.d /\ b.io_data = FALSE /\ b.io = "idle" /\ b.event = t.event
      /\ b.file = t.file /\ b.broken = t.broken
  BY <1>2 DEF Taking, Memory
<1> HIDE DEF a, b
<1>4. PICK x, s : PassedOn(b, "io", x, s) /\ x.layer = "tls" /\ x.fn = "close_externally"
  <2>1. "close_externally" \in FunctionNames BY DEF FunctionNames
  <2>2. PassedOn(b, "io", [layer |-> "tls", fn |-> "close_externally", arg |-> 0, st |-> Call.st],
                 NextLayerState("close_externally", b.layer["io"], Call.st))
    BY <1>1, <1>2, <1>3, <2>1, PassesOn DEF Taking
  <2> QED BY <2>2
<1>10. LayerInv'
  BY <1>1, <1>2, <1>3, <1>4, KindsOf
  DEF Taking, PassedOn, Shorter, Longer, Inv, Rules, LayerInv
<1>11. ConnectingInv'
  BY <1>1, <1>2, <1>3, <1>4, KindsOf
  DEF Taking, PassedOn, Shorter, Longer, Inv, Rules, LayerInv, ConnectingInv, AtWrite
<1>12. StartInv'
  BY <1>1, <1>2, <1>3, <1>4, KindsOf
  DEF Taking, PassedOn, Shorter, Longer, Inv, Rules, LayerInv, StartInv
<1>13. LoadInv'
  BY <1>1, <1>2, <1>3, <1>4, KindsOf
  DEF Taking, PassedOn, Shorter, Longer, Inv, Rules, LayerInv, LoadInv, Asked, Answered,
      Failed, Releasing, Waits
<1>14. EndInv'
  BY <1>1, <1>2, <1>3, <1>4, KindsOf
  DEF Taking, PassedOn, Shorter, Longer, Inv, Rules, LayerInv, StartInv, EndInv
<1>15. TokenInv'
  BY <1>1, <1>2, <1>3, <1>4, KindsOf
  DEF Taking, PassedOn, Shorter, Longer, Inv, Rules, LayerInv, TokenInv
<1>16. PushInv'
  BY <1>1, <1>2, <1>3, <1>4, KindsOf
  DEF Taking, PassedOn, Shorter, Longer, Inv, Rules, LayerInv, PushInv
<1>17. DataInv'
  BY <1>1, <1>2, <1>3, <1>4, KindsOf
  DEF Taking, PassedOn, Shorter, Longer, Inv, Rules, LayerInv, ConnectingInv, DataInv,
      Undecoded
<1>18. EarlyInv'
  BY <1>1, <1>2, <1>3, <1>4, KindsOf
  DEF Taking, PassedOn, Shorter, Longer, Inv, Rules, LayerInv, EarlyInv
<1> QED BY <1>4, <1>10, <1>11, <1>12, <1>13, <1>14, <1>15, <1>16, <1>17, <1>18
       DEF PassedOn, Rules


\* A step that ends without a call: b is what the client's memory becomes.
Ended(b) ==
  /\ t' \in Memory /\ t'.calls = b.calls /\ Tls' = b.layer["tls"] /\ t'.d = b.d
  /\ t'.io_data = b.io_data /\ t'.io = b.io /\ t'.event = b.event /\ t'.file = b.file
  /\ t'.broken = b.broken

LEMMA EndsIn ==
  ASSUME NEW b \in Memory, Becomes(b)
  PROVE  Ended(b)
<1>1. /\ t' \in Memory /\ t'.calls = b.calls /\ t'.layer = b.layer /\ t'.d = b.d
      /\ Rest(t') = Rest(b)
  BY Become
<1> QED BY <1>1 DEF Ended, Rest, Tls

\* The io layer writes a buffer: the one of the call it takes, or the one the
\* socket would not take before.
Writes(a) ==
  \/ Taking(a, "io", "push") /\ t.io # "connecting"
  \/ a = t /\ t \in Memory /\ t.calls = <<>> /\ t.io = "blocked"

LEMMA WritingTo ==
  ASSUME Inv, t.io_data, NEW a, Writes(a), IoWrite(a)
  PROVE  \E b : /\ b \in Memory /\ b.calls = a.calls /\ b.layer["tls"] = Tls /\ b.d = t.d
                /\ b.io_data = t.io_data /\ b.event = t.event /\ b.file = t.file
                /\ b.broken = t.broken
                /\ \/ /\ b.io = "idle"
                      /\ \E x, s : /\ PassedOn(b, "io", x, s)
                                   /\ \/ x.layer = "tls" /\ x.fn = "push" /\ x.st = "WRITTEN"
                                      \/ x.layer = "io" /\ x.fn = "close_externally"
                   \/ b.io = "blocked" /\ Ended(b)
<1> DEFINE c == [a EXCEPT !.io = "idle"]
           e == [c EXCEPT !.io = "blocked"]
<1>1. /\ a \in Memory /\ a.layer = t.layer /\ a.d = t.d /\ a.io_data = t.io_data
      /\ a.event = t.event /\ a.file = t.file /\ a.broken = t.broken /\ t \in Memory
  BY DEF Writes, Taking
<1>2. /\ c \in Memory /\ c.calls = a.calls /\ c.layer["tls"] = Tls /\ c.d = t.d
      /\ c.io_data = t.io_data /\ c.event = t.event /\ c.file = t.file
      /\ c.broken = t.broken /\ c.io = "idle"
  BY <1>1 DEF Memory, Tls
<1>3. t.d.lib.there BY DEF Inv, Rules, LayerInv
<1>4. Check(c, a.d.lib.there, "shared_buffer") = c BY <1>1, <1>3 DEF Check
<1> HIDE DEF c
<1>5. /\ e \in Memory /\ e.calls = a.calls /\ e.layer["tls"] = Tls /\ e.d = t.d
      /\ e.io_data = t.io_data /\ e.event = t.event /\ e.file = t.file
      /\ e.broken = t.broken /\ e.io = "blocked"
  BY <1>2 DEF Memory
<1>6. \/ Becomes(ContinueWith(c, "io", "push", "tls", 0, "WRITTEN"))
      \/ Becomes(e)
      \/ Becomes(ContinueWith(c, "io", "close_externally", "io", 0, "ERR"))
  BY <1>4 DEF IoWrite, FromIo, OnThis, c
<1>7. /\ {"push", "close_externally"} \subseteq FunctionNames
      /\ {"WRITTEN", "ERR"} \subseteq Statuses
  BY DEF FunctionNames, Statuses
<1>8. CASE Becomes(ContinueWith(c, "io", "push", "tls", 0, "WRITTEN"))
  <2>1. PassedOn(c, "io", [layer |-> "tls", fn |-> "push", arg |-> 0, st |-> "WRITTEN"],
                 NextLayerState("push", c.layer["io"], "WRITTEN"))
    BY <1>2, <1>7, <1>8, PassesOn
  <2>2. \E x, s : /\ PassedOn(c, "io", x, s)
                  /\ x.layer = "tls" /\ x.fn = "push" /\ x.st = "WRITTEN"
    BY <2>1
  <2> QED BY <1>2, <2>2
<1>9. CASE Becomes(e)
  <2> HIDE DEF e
  <2>1. Ended(e) BY <1>5, <1>9, EndsIn
  <2> QED BY <1>5, <2>1
<1>10. CASE Becomes(ContinueWith(c, "io", "close_externally", "io", 0, "ERR"))
  <2>1. PassedOn(c, "io", [layer |-> "io", fn |-> "close_externally", arg |-> 0, st |-> "ERR"],
                 NextLayerState("close_externally", c.layer["io"], "ERR"))
    BY <1>2, <1>7, <1>10, PassesOn
  <2>2. \E x, s : /\ PassedOn(c, "io", x, s)
                  /\ x.layer = "io" /\ x.fn = "close_externally"
    BY <2>1
  <2> QED BY <1>2, <2>2
<1> QED BY <1>6, <1>8, <1>9, <1>10

LEMMA WriteRight ==
  ASSUME Inv, t.io_data, NEW a, Writes(a), IoWrite(a), up' = up
  PROVE  t' \in Memory /\ Rules'
<1>1. PICK b : /\ b \in Memory /\ b.calls = a.calls /\ b.layer["tls"] = Tls /\ b.d = t.d
               /\ b.io_data = t.io_data /\ b.event = t.event /\ b.file = t.file
               /\ b.broken = t.broken
               /\ \/ /\ b.io = "idle"
                     /\ \E x, s : /\ PassedOn(b, "io", x, s)
                                  /\ \/ x.layer = "tls" /\ x.fn = "push" /\ x.st = "WRITTEN"
                                     \/ x.layer = "io" /\ x.fn = "close_externally"
                  \/ b.io = "blocked" /\ Ended(b)
  BY WritingTo
<1>2. /\ t' \in Memory /\ Tls' = Tls /\ t'.d = t.d /\ t'.io_data = t.io_data
      /\ t'.event = t.event /\ t'.file = t.file /\ t'.broken = t.broken
      /\ t'.io \in {"idle", "blocked"}
  BY <1>1 DEF PassedOn, Ended
<1>3. \/ /\ Shorter(t.calls, Call, a.calls) /\ Call \in Calls /\ Call.layer = "io"
         /\ Call.fn = "push" /\ t.calls # <<>>
      \/ t.calls = <<>> /\ a.calls = <<>> /\ t.io = "blocked"
  BY DEF Writes, Taking
<1>4. \/ /\ t'.io = "idle"
         /\ \E x \in Calls : /\ Longer(t'.calls, a.calls, x)
                             /\ \/ x.layer = "tls" /\ x.fn = "push" /\ x.st = "WRITTEN"
                                \/ x.layer = "io" /\ x.fn = "close_externally"
      \/ t'.io = "blocked" /\ t'.calls = a.calls
  BY <1>1 DEF PassedOn, Ended
<1>10. LayerInv'
  BY <1>2, <1>3, <1>4, KindsOf, QueueEmpty
  DEF Shorter, Longer, Inv, Rules, LayerInv
<1>11. ConnectingInv'
  BY <1>2, <1>3, <1>4, KindsOf, QueueEmpty
  DEF Shorter, Longer, Inv, Rules, LayerInv, ConnectingInv, AtWrite
<1>12. StartInv'
  BY <1>2, <1>3, <1>4, KindsOf, QueueEmpty
  DEF Shorter, Longer, Inv, Rules, LayerInv, StartInv
<1>13. LoadInv'
  BY <1>2, <1>3, <1>4, KindsOf, QueueEmpty
  DEF Shorter, Longer, Inv, Rules, LayerInv, LoadInv, Asked, Answered, Failed, Releasing,
      Waits
<1>14. EndInv'
  BY <1>2, <1>3, <1>4, KindsOf, QueueEmpty
  DEF Shorter, Longer, Inv, Rules, LayerInv, StartInv, EndInv
<1>15. TokenInv'
  BY <1>2, <1>3, <1>4, KindsOf, QueueEmpty
  DEF Shorter, Longer, Inv, Rules, LayerInv, TokenInv
<1>16. PushInv'
  BY <1>2, <1>3, <1>4, KindsOf, QueueEmpty
  DEF Shorter, Longer, Inv, Rules, LayerInv, PushInv
<1>17. DataInv'
  BY <1>2, <1>3, <1>4, KindsOf, QueueEmpty
  DEF Shorter, Longer, Inv, Rules, LayerInv, ConnectingInv, DataInv, Undecoded
<1>18. EarlyInv'
  BY <1>2, <1>3, <1>4, KindsOf, QueueEmpty
  DEF Shorter, Longer, Inv, Rules, LayerInv, EarlyInv
<1> QED BY <1>2, <1>10, <1>11, <1>12, <1>13, <1>14, <1>15, <1>16, <1>17, <1>18
       DEF Rules

\* A call to write that comes too late is dropped.
LEMMA DroppedRight ==
  ASSUME Inv, NEW l, Taking(Popped, l, "push"), Ended(Popped), up' = up,
         l = "io" \/ (l = "tls" /\ (Tls \in {"CLOSING", "CLOSED"} \/ ~t.d.there))
  PROVE  t' \in Memory /\ Rules'
<1>1. /\ t' \in Memory /\ Tls' = Tls /\ t'.d = t.d /\ t'.io_data = t.io_data /\ t'.io = t.io
      /\ t'.event = t.event /\ t'.file = t.file /\ t'.broken = t.broken
      /\ Shorter(t.calls, Call, t'.calls) /\ Call \in Calls /\ Call.layer = l /\ Call.fn = "push"
      /\ t.calls # <<>>
  BY DEF Taking, Ended
<1>10. LayerInv'
  BY <1>1, KindsOf, QueueEmpty
  DEF Shorter, Inv, Rules, LayerInv
<1>11. ConnectingInv'
  BY <1>1, KindsOf, QueueEmpty
  DEF Shorter, Inv, Rules, LayerInv, ConnectingInv, AtWrite
<1>12. StartInv'
  BY <1>1, KindsOf, QueueEmpty
  DEF Shorter, Inv, Rules, LayerInv, StartInv
<1>13. LoadInv'
  BY <1>1, KindsOf, QueueEmpty
  DEF Shorter, Inv, Rules, LayerInv, LoadInv, Asked, Answered, Failed, Releasing, Waits
<1>14. EndInv'
  BY <1>1, KindsOf, QueueEmpty
  DEF Shorter, Inv, Rules, LayerInv, StartInv, EndInv
<1>15. TokenInv'
  BY <1>1, KindsOf, QueueEmpty
  DEF Shorter, Inv, Rules, LayerInv, TokenInv
<1>16. PushInv'
  BY <1>1, KindsOf, QueueEmpty
  DEF Shorter, Inv, Rules, LayerInv, PushInv
<1>17. DataInv'
  BY <1>1, KindsOf, QueueEmpty
  DEF Shorter, Inv, Rules, LayerInv, ConnectingInv, DataInv, Undecoded
<1>18. EarlyInv'
  BY <1>1, KindsOf, QueueEmpty
  DEF Shorter, Inv, Rules, LayerInv, EarlyInv
<1> QED BY <1>1, <1>10, <1>11, <1>12, <1>13, <1>14, <1>15, <1>16, <1>17, <1>18
       DEF Rules

LEMMA IoPushRight ==
  ASSUME Inv, IoPush \/ SocketWritable
  PROVE  t' \in Memory /\ Rules'
<1>1. CASE SocketWritable
  <2>1. Writes(t) /\ t.io_data /\ IoWrite(t) /\ up' = up
    BY <1>1 DEF SocketWritable, Polled, Writes, Inv, Types
  <2> QED BY <2>1, WriteRight
<1>2. CASE IoPush
  <2>1. Called("io", "push") /\ up' = up BY <1>2 DEF IoPush
  <2>2. Taking(Popped, "io", "push") BY <2>1, Takes
  <2>3. CASE ~(NotOperational(t, "io") \/ ~t.io_data)
    <3>1. t.io # "connecting" BY <2>2 DEF Taking, Inv, Rules, StartInv
    <3> QED BY <1>2, <2>1, <2>2, <2>3, <3>1, WriteRight DEF IoPush, Writes
  <2>4. CASE NotOperational(t, "io") \/ ~t.io_data
    <3>1. Becomes(Popped) BY <1>2, <2>4 DEF IoPush
    <3>2. Ended(Popped) BY <2>2, <3>1, EndsIn DEF Taking
    <3> QED BY <2>1, <2>2, <3>2, DroppedRight
  <2> QED BY <2>3, <2>4
<1> QED BY <1>1, <1>2


\* The io layer and the socket start.
LEMMA IoInitRight ==
  ASSUME Inv, IoInit
  PROVE  t' \in Memory /\ Rules'
<1> DEFINE a == Popped
<1>1. Called("io", "init") /\ up' = up BY DEF IoInit
<1>2. Taking(a, "io", "init") BY <1>1, Takes
<1>3. ~t.io_data /\ Tls = "CONNECTING" /\ a.calls = <<>> /\ t.d.there /\ ~t.d.rm.there
  BY <1>2, KindsOf DEF Taking, Shorter, Inv, Rules, StartInv, LayerInv
<1>4. PICK bad \in BOOLEAN :
        Becomes(ContinueWith([a EXCEPT !.io_data = ~bad], "io", "connect", "io", 0,
                             IF bad THEN "ERR" ELSE "OK"))
  BY <1>3 DEF IoInit, OnThis
<1> DEFINE b == [a EXCEPT !.io_data = ~bad]
           st == IF bad THEN "ERR" ELSE "OK"
<1>5. /\ b \in Memory /\ b.calls = <<>> /\ b.layer = t.layer /\ b.layer["tls"] = Tls
      /\ b.d = t.d /\ b.io = t.io /\ b.event = t.event
      /\ b.file = t.file /\ b.broken = t.broken
  BY <1>2, <1>3 DEF Taking, Memory
<1>6. "connect" \in FunctionNames /\ st \in Statuses BY DEF FunctionNames, Statuses
<1>7. Becomes(ContinueWith(b, "io", "connect", "io", 0, st)) BY <1>4
<1> HIDE DEF a, b, st
<1>8. PICK x, s : PassedOn(b, "io", x, s) /\ x.layer = "io" /\ x.fn = "connect"
  <2>1. PassedOn(b, "io", [layer |-> "io", fn |-> "connect", arg |-> 0, st |-> st],
                 NextLayerState("connect", b.layer["io"], st))
    BY <1>5, <1>6, <1>7, PassesOn
  <2> QED BY <2>1
<1>10. LayerInv'
  BY <1>1, <1>2, <1>3, <1>5, <1>8, KindsOf, QueueEmpty
  DEF Taking, PassedOn, Shorter, Longer, Inv, Rules, LayerInv
<1>11. ConnectingInv'
  BY <1>1, <1>2, <1>3, <1>5, <1>8, KindsOf, QueueEmpty
  DEF Taking, PassedOn, Shorter, Longer, Inv, Rules, LayerInv, ConnectingInv, AtWrite
<1>12. StartInv'
  BY <1>1, <1>2, <1>3, <1>5, <1>8, KindsOf, QueueEmpty
  DEF Taking, PassedOn, Shorter, Longer, Inv, Rules, LayerInv, StartInv
<1>13. LoadInv'
  BY <1>1, <1>2, <1>3, <1>5, <1>8, KindsOf, QueueEmpty
  DEF Taking, PassedOn, Shorter, Longer, Inv, Rules, LayerInv, LoadInv, Asked, Answered,
      Failed, Releasing, Waits
<1>14. EndInv'
  BY <1>1, <1>2, <1>3, <1>5, <1>8, KindsOf, QueueEmpty
  DEF Taking, PassedOn, Shorter, Longer, Inv, Rules, LayerInv, StartInv, EndInv
<1>15. TokenInv'
  BY <1>1, <1>2, <1>3, <1>5, <1>8, KindsOf, QueueEmpty
  DEF Taking, PassedOn, Shorter, Longer, Inv, Rules, LayerInv, TokenInv
<1>16. PushInv'
  BY <1>1, <1>2, <1>3, <1>5, <1>8, KindsOf, QueueEmpty
  DEF Taking, PassedOn, Shorter, Longer, Inv, Rules, LayerInv, PushInv
<1>17. DataInv'
  BY <1>1, <1>2, <1>3, <1>5, <1>8, KindsOf, QueueEmpty
  DEF Taking, PassedOn, Shorter, Longer, Inv, Rules, LayerInv, ConnectingInv, DataInv,
      Undecoded
<1>18. EarlyInv'
  BY <1>1, <1>2, <1>3, <1>5, <1>8, KindsOf, QueueEmpty
  DEF Taking, PassedOn, Shorter, Longer, Inv, Rules, LayerInv, EarlyInv
<1> QED BY <1>8, <1>10, <1>11, <1>12, <1>13, <1>14, <1>15, <1>16, <1>17, <1>18
       DEF PassedOn, Rules

LEMMA IoConnectRight ==
  ASSUME Inv, IoConnect
  PROVE  t' \in Memory /\ Rules'
<1> DEFINE a == Popped
           b == [a EXCEPT !.io = "connecting"]
<1>1. Called("io", "connect") /\ up' = up BY DEF IoConnect
<1>2. Taking(a, "io", "connect") BY <1>1, Takes
<1>3. Tls = "CONNECTING" /\ a.calls = <<>>
  BY <1>2, KindsOf DEF Taking, Shorter, Inv, Rules, StartInv
<1>4. \/ Becomes(ContinueWith(a, "io", "connect", "tls", 0, "ERR"))
      \/ t.io_data /\ Becomes(b)
  BY DEF IoConnect, FromIo
<1>5. "connect" \in FunctionNames /\ "ERR" \in Statuses BY DEF FunctionNames, Statuses
<1>6. \/ /\ t'.io = t.io
         /\ \E x \in Calls : Longer(t'.calls, <<>>, x) /\ x.layer = "tls" /\ x.fn = "connect"
      \/ t.io_data /\ t'.io = "connecting" /\ t'.calls = <<>>
  <2>1. CASE Becomes(ContinueWith(a, "io", "connect", "tls", 0, "ERR"))
    <3>1. PassedOn(a, "io", [layer |-> "tls", fn |-> "connect", arg |-> 0, st |-> "ERR"],
                   NextLayerState("connect", a.layer["io"], "ERR"))
      BY <1>2, <1>5, <2>1, PassesOn DEF Taking
    <3> QED BY <1>2, <1>3, <3>1 DEF PassedOn, Taking
  <2>2. CASE t.io_data /\ Becomes(b)
    <3>1. b \in Memory /\ b.calls = <<>> /\ b.io = "connecting"
      BY <1>2, <1>3 DEF Taking, Memory
    <3> HIDE DEF b
    <3> QED BY <2>2, <3>1, EndsIn DEF Ended
  <2> QED BY <1>4, <2>1, <2>2
<1>7. /\ t' \in Memory /\ Tls' = Tls /\ t'.d = t.d /\ t'.io_data = t.io_data
      /\ t'.event = t.event /\ t'.file = t.file /\ t'.broken = t.broken
  <2>1. CASE Becomes(ContinueWith(a, "io", "connect", "tls", 0, "ERR"))
    <3>1. PassedOn(a, "io", [layer |-> "tls", fn |-> "connect", arg |-> 0, st |-> "ERR"],
                   NextLayerState("connect", a.layer["io"], "ERR"))
      BY <1>2, <1>5, <2>1, PassesOn DEF Taking
    <3> QED BY <1>2, <3>1 DEF PassedOn, Taking
  <2>2. CASE Becomes(b)
    <3>1. /\ b \in Memory /\ b.layer["tls"] = Tls /\ b.d = t.d /\ b.io_data = t.io_data
          /\ b.event = t.event /\ b.file = t.file /\ b.broken = t.broken
      BY <1>2 DEF Taking, Memory
    <3> HIDE DEF b
    <3> QED BY <2>2, <3>1, EndsIn DEF Ended
  <2> QED BY <1>4, <2>1, <2>2
<1> HIDE DEF a, b
<1>10. LayerInv'
  BY <1>1, <1>2, <1>3, <1>6, <1>7, KindsOf, QueueEmpty
  DEF Taking, Shorter, Longer, Inv, Rules, LayerInv
<1>11. ConnectingInv'
  BY <1>1, <1>2, <1>3, <1>6, <1>7, KindsOf, QueueEmpty
  DEF Taking, Shorter, Longer, Inv, Rules, LayerInv, ConnectingInv, AtWrite
<1>12. StartInv'
  BY <1>1, <1>2, <1>3, <1>6, <1>7, KindsOf, QueueEmpty
  DEF Taking, Shorter, Longer, Inv, Rules, LayerInv, StartInv
<1>13. LoadInv'
  BY <1>1, <1>2, <1>3, <1>6, <1>7, KindsOf, QueueEmpty
  DEF Taking, Shorter, Longer, Inv, Rules, LayerInv, LoadInv, Asked, Answered, Failed,
      Releasing, Waits
<1>14. EndInv'
  BY <1>1, <1>2, <1>3, <1>6, <1>7, KindsOf, QueueEmpty
  DEF Taking, Shorter, Longer, Inv, Rules, LayerInv, StartInv, EndInv
<1>15. TokenInv'
  BY <1>1, <1>2, <1>3, <1>6, <1>7, KindsOf, QueueEmpty
  DEF Taking, Shorter, Longer, Inv, Rules, LayerInv, TokenInv
<1>16. PushInv'
  BY <1>1, <1>2, <1>3, <1>6, <1>7, KindsOf, QueueEmpty
  DEF Taking, Shorter, Longer, Inv, Rules, LayerInv, PushInv
<1>17. DataInv'
  BY <1>1, <1>2, <1>3, <1>6, <1>7, KindsOf, QueueEmpty
  DEF Taking, Shorter, Longer, Inv, Rules, LayerInv, ConnectingInv, DataInv, Undecoded
<1>18. EarlyInv'
  BY <1>1, <1>2, <1>3, <1>6, <1>7, KindsOf, QueueEmpty
  DEF Taking, Shorter, Longer, Inv, Rules, LayerInv, EarlyInv
<1> QED BY <1>7, <1>10, <1>11, <1>12, <1>13, <1>14, <1>15, <1>16, <1>17, <1>18
       DEF Rules

\* Events of the socket come when nothing is queued.
LEMMA SocketConnectedRight ==
  ASSUME Inv, SocketConnected
  PROVE  t' \in Memory /\ Rules'
<1>1. t.calls = <<>> /\ t.io_data /\ t.io = "connecting" /\ up' = up /\ t \in Memory
  BY DEF SocketConnected, Polled, Inv, Types
<1>2. Tls = "CONNECTING" BY <1>1 DEF Inv, Rules, StartInv
<1> DEFINE a == [t EXCEPT !.io = "idle"]
<1>3. PICK st \in {"OK", "ERR"} : Becomes(ContinueWith(a, "io", "connect", "tls", 0, st))
  BY DEF SocketConnected, FromIo
<1>4. /\ a \in Memory /\ a.calls = <<>> /\ a.layer = t.layer /\ a.layer["tls"] = Tls
      /\ a.d = t.d /\ a.io_data = t.io_data /\ a.io = "idle" /\ a.event = t.event
      /\ a.file = t.file /\ a.broken = t.broken
  BY <1>1 DEF Memory, Tls
<1>5. "connect" \in FunctionNames /\ st \in Statuses BY DEF FunctionNames, Statuses
<1> HIDE DEF a
<1>6. PICK x, s : PassedOn(a, "io", x, s) /\ x.layer = "tls" /\ x.fn = "connect"
  <2>1. PassedOn(a, "io", [layer |-> "tls", fn |-> "connect", arg |-> 0, st |-> st],
                 NextLayerState("connect", a.layer["io"], st))
    BY <1>3, <1>4, <1>5, PassesOn
  <2> QED BY <2>1
<1>10. LayerInv'
  BY <1>1, <1>2, <1>4, <1>6, KindsOf, QueueEmpty
  DEF PassedOn, Longer, Inv, Rules, LayerInv
<1>11. ConnectingInv'
  BY <1>1, <1>2, <1>4, <1>6, KindsOf, QueueEmpty
  DEF PassedOn, Longer, Inv, Rules, LayerInv, ConnectingInv, AtWrite
<1>12. StartInv'
  BY <1>1, <1>2, <1>4, <1>6, KindsOf, QueueEmpty
  DEF PassedOn, Longer, Inv, Rules, LayerInv, StartInv
<1>13. LoadInv'
  BY <1>1, <1>2, <1>4, <1>6, KindsOf, QueueEmpty
  DEF PassedOn, Longer, Inv, Rules, LayerInv, LoadInv, Asked, Answered, Failed, Releasing,
      Waits
<1>14. EndInv'
  BY <1>1, <1>2, <1>4, <1>6, KindsOf, QueueEmpty
  DEF PassedOn, Longer, Inv, Rules, LayerInv, StartInv, EndInv
<1>15. TokenInv'
  BY <1>1, <1>2, <1>4, <1>6, KindsOf, QueueEmpty
  DEF PassedOn, Longer, Inv, Rules, LayerInv, TokenInv
<1>16. PushInv'
  BY <1>1, <1>2, <1>4, <1>6, KindsOf, QueueEmpty
  DEF PassedOn, Longer, Inv, Rules, LayerInv, PushInv
<1>17. DataInv'
  BY <1>1, <1>2, <1>4, <1>6, KindsOf, QueueEmpty
  DEF PassedOn, Longer, Inv, Rules, LayerInv, ConnectingInv, DataInv, Undecoded
<1>18. EarlyInv'
  BY <1>1, <1>2, <1>4, <1>6, KindsOf, QueueEmpty
  DEF PassedOn, Longer, Inv, Rules, LayerInv, EarlyInv
<1> QED BY <1>6, <1>10, <1>11, <1>12, <1>13, <1>14, <1>15, <1>16, <1>17, <1>18
       DEF PassedOn, Rules

LEMMA SocketSpeaksRight ==
  ASSUME Inv, SocketReadable \/ SocketReset
  PROVE  t' \in Memory /\ Rules'
<1>1. t.calls = <<>> /\ t.io_data /\ t.io = "idle" /\ up' = up /\ t \in Memory
  BY DEF SocketReadable, SocketReset, Polled, Inv, Types
<1>2. {"pull", "close_externally"} \subseteq FunctionNames /\ {"OK", "ERR"} \subseteq Statuses
  BY DEF FunctionNames, Statuses
<1>3. PICK x, s : /\ PassedOn(t, "io", x, s)
                  /\ \/ x.layer = "tls" /\ x.fn = "pull"
                     \/ x.layer = "io" /\ x.fn = "close_externally"
  <2>1. CASE SocketReadable
    <3>1. PICK n \in 1 .. net.in : Becomes(ContinueWith(t, "io", "pull", "tls", n, "OK"))
      BY <2>1 DEF SocketReadable, FromIo
    <3>2. n \in Nat BY DEF Inv, Types
    <3>3. PassedOn(t, "io", [layer |-> "tls", fn |-> "pull", arg |-> n, st |-> "OK"],
                   NextLayerState("pull", t.layer["io"], "OK"))
      BY <1>1, <1>2, <3>1, <3>2, PassesOn
    <3> QED BY <3>3
  <2>2. CASE SocketReset
    <3>1. Becomes(ContinueWith(t, "io", "close_externally", "io", 0, "ERR"))
      BY <2>2 DEF SocketReset, OnThis
    <3>2. PassedOn(t, "io", [layer |-> "io", fn |-> "close_externally", arg |-> 0, st |-> "ERR"],
                   NextLayerState("close_externally", t.layer["io"], "ERR"))
      BY <1>1, <1>2, <3>1, PassesOn
    <3> QED BY <3>2
  <2> QED BY <2>1, <2>2
<1>10. LayerInv'
  BY <1>1, <1>3, KindsOf, QueueEmpty
  DEF PassedOn, Longer, Tls, Inv, Rules, LayerInv
<1>11. ConnectingInv'
  BY <1>1, <1>3, KindsOf, QueueEmpty
  DEF PassedOn, Longer, Tls, Inv, Rules, LayerInv, ConnectingInv, AtWrite
<1>12. StartInv'
  BY <1>1, <1>3, KindsOf, QueueEmpty
  DEF PassedOn, Longer, Tls, Inv, Rules, LayerInv, StartInv
<1>13. LoadInv'
  BY <1>1, <1>3, KindsOf, QueueEmpty
  DEF PassedOn, Longer, Tls, Inv, Rules, LayerInv, LoadInv, Asked, Answered, Failed,
      Releasing, Waits
<1>14. EndInv'
  BY <1>1, <1>3, KindsOf, QueueEmpty
  DEF PassedOn, Longer, Tls, Inv, Rules, LayerInv, StartInv, EndInv
<1>15. TokenInv'
  BY <1>1, <1>3, KindsOf, QueueEmpty
  DEF PassedOn, Longer, Tls, Inv, Rules, LayerInv, TokenInv
<1>16. PushInv'
  BY <1>1, <1>3, KindsOf, QueueEmpty
  DEF PassedOn, Longer, Tls, Inv, Rules, LayerInv, PushInv
<1>17. DataInv'
  BY <1>1, <1>3, KindsOf, QueueEmpty
  DEF PassedOn, Longer, Tls, Inv, Rules, LayerInv, ConnectingInv, DataInv, Undecoded
<1>18. EarlyInv'
  BY <1>1, <1>3, KindsOf, QueueEmpty
  DEF PassedOn, Longer, Tls, Inv, Rules, LayerInv, EarlyInv
<1> QED BY <1>3, <1>10, <1>11, <1>12, <1>13, <1>14, <1>15, <1>16, <1>17, <1>18
       DEF PassedOn, Rules


-----------------------------------------------------------------------------
(* The layers above.                                                        *)
UpTypes == [state: {"idle", "opening", "open", "failed", "closing"}, pushing: BOOLEAN,
            received: Nat, early: BOOLEAN]

LEMMA Requested ==
  ASSUME Types, NEW fn \in FunctionNames, NEW st \in Statuses, Request(fn, st)
  PROVE  /\ up \in UpTypes /\ t \in Memory
         /\ \E x, s : /\ PassedOn(t, "codec", x, s)
                      /\ x.layer = "tls" /\ x.fn = fn /\ x.st = st
<1> DEFINE x == [layer |-> "tls", fn |-> fn, arg |-> 0, st |-> st]
           s == NextLayerState(fn, t.layer["codec"], st)
<1>1. t \in Memory /\ up \in UpTypes BY DEF Types, UpTypes
<1>2. t' = ContinueWith(t, "codec", fn, "tls", 0, st) BY DEF Request
<1>3. Queues(t', t, "codec", x, s) BY <1>1, <1>2, Continues
<1>4. x \in Calls BY CallType
<1>5. x.layer = "tls" /\ x.fn = fn /\ x.st = st OBVIOUS
<1>6. t.calls \in Seq(Calls) /\ t.layer \in [{"io", "tls", "codec"} -> LayerStates]
  BY <1>1 DEF Memory
<1> HIDE DEF x, s
<1>7. Longer(t'.calls, t.calls, x) BY <1>3, <1>4, <1>6, QueueAppend DEF Queues
<1>8. Tls' = t.layer["tls"] BY <1>3, <1>6 DEF Queues, Tls
<1>9. PassedOn(t, "codec", x, s) BY <1>3, <1>4, <1>7, <1>8 DEF PassedOn, Queues, Rest
<1> QED BY <1>1, <1>5, <1>9

LEMMA UpperInitRight ==
  ASSUME Inv, UpperInit
  PROVE  t' \in Memory /\ Rules'
<1>1. /\ up.state = "idle" /\ t.calls = <<>> /\ Request("init", "OK")
      /\ up' = [up EXCEPT !.state = "opening", !.received = 0]
  BY DEF UpperInit
<1>2. "init" \in FunctionNames /\ "OK" \in Statuses BY DEF FunctionNames, Statuses
<1>3. PICK x, s : /\ PassedOn(t, "codec", x, s)
                  /\ x.layer = "tls" /\ x.fn = "init" /\ x.st = "OK"
  BY <1>1, <1>2, Requested DEF Inv
<1>4. up'.state = "opening" /\ up'.pushing = up.pushing /\ up'.early = up.early
  BY <1>1, <1>2, Requested DEF UpTypes, Inv
<1>5. ~t.d.there /\ ~t.io_data /\ t.io = "idle" /\ Tls \in {"NONE", "CLOSED"} /\ ~t.d.rm.there
  BY <1>1 DEF Inv, Rules, LayerInv, EndInv
<1>10. LayerInv'
  BY <1>1, <1>3, <1>4, <1>5, KindsOf, QueueEmpty
  DEF PassedOn, Longer, Tls, Inv, Rules, LayerInv
<1>11. ConnectingInv'
  BY <1>1, <1>3, <1>4, <1>5, KindsOf, QueueEmpty
  DEF PassedOn, Longer, Tls, Inv, Rules, LayerInv, ConnectingInv, AtWrite
<1>12. StartInv'
  BY <1>1, <1>3, <1>4, <1>5, KindsOf, QueueEmpty
  DEF PassedOn, Longer, Tls, Inv, Rules, LayerInv, StartInv
<1>13. LoadInv'
  BY <1>1, <1>3, <1>4, <1>5, KindsOf, QueueEmpty
  DEF PassedOn, Longer, Tls, Inv, Rules, LayerInv, LoadInv, Asked, Answered, Failed,
      Releasing, Waits
<1>14. EndInv'
  BY <1>1, <1>3, <1>4, <1>5, KindsOf, QueueEmpty
  DEF PassedOn, Longer, Tls, Inv, Rules, LayerInv, StartInv, EndInv
<1>15. TokenInv'
  BY <1>1, <1>3, <1>4, <1>5, KindsOf, QueueEmpty
  DEF PassedOn, Longer, Tls, Inv, Rules, LayerInv, TokenInv
<1>16. PushInv'
  BY <1>1, <1>3, <1>4, <1>5, KindsOf, QueueEmpty
  DEF PassedOn, Longer, Tls, Inv, Rules, LayerInv, PushInv
<1>17. DataInv'
  BY <1>1, <1>3, <1>4, <1>5, KindsOf, QueueEmpty
  DEF PassedOn, Longer, Tls, Inv, Rules, LayerInv, ConnectingInv, DataInv, Undecoded
<1>18. EarlyInv'
  BY <1>1, <1>3, <1>4, <1>5, KindsOf, QueueEmpty
  DEF PassedOn, Longer, Tls, Inv, Rules, LayerInv, EarlyInv
<1> QED BY <1>3, <1>10, <1>11, <1>12, <1>13, <1>14, <1>15, <1>16, <1>17, <1>18
       DEF PassedOn, Rules

LEMMA UpperPushRight ==
  ASSUME Inv, UpperPush
  PROVE  t' \in Memory /\ Rules'
<1>1. /\ up.state = "open" /\ ~up.pushing /\ Request("push", "OK")
      /\ up' = [up EXCEPT !.pushing = TRUE]
  BY DEF UpperPush
<1>2. "push" \in FunctionNames /\ "OK" \in Statuses BY DEF FunctionNames, Statuses
<1>3. PICK x, s : /\ PassedOn(t, "codec", x, s)
                  /\ x.layer = "tls" /\ x.fn = "push" /\ x.st = "OK"
  BY <1>1, <1>2, Requested DEF Inv
<1>4. up'.state = "open" /\ up'.pushing /\ up'.early = up.early
  BY <1>1, <1>2, Requested DEF UpTypes, Inv
<1>5. ~t.d.rm.there /\ t.io # "connecting"
  BY <1>1
  DEF Inv, Rules, LoadInv, Asked, Answered, Failed, Releasing, StartInv, ConnectingInv
<1>10. LayerInv'
  BY <1>1, <1>3, <1>4, <1>5, KindsOf, QueueEmpty
  DEF PassedOn, Longer, Tls, Inv, Rules, LayerInv
<1>11. ConnectingInv'
  BY <1>1, <1>3, <1>4, <1>5, KindsOf, QueueEmpty
  DEF PassedOn, Longer, Tls, Inv, Rules, LayerInv, ConnectingInv, AtWrite
<1>12. StartInv'
  BY <1>1, <1>3, <1>4, <1>5, KindsOf, QueueEmpty
  DEF PassedOn, Longer, Tls, Inv, Rules, LayerInv, StartInv, ConnectingInv
<1>13. LoadInv'
  BY <1>1, <1>3, <1>4, <1>5, KindsOf, QueueEmpty
  DEF PassedOn, Longer, Tls, Inv, Rules, LayerInv, LoadInv, Asked, Answered, Failed,
      Releasing, Waits
<1>14. EndInv'
  BY <1>1, <1>3, <1>4, <1>5, KindsOf, QueueEmpty
  DEF PassedOn, Longer, Tls, Inv, Rules, LayerInv, StartInv, EndInv
<1>15. TokenInv'
  BY <1>1, <1>3, <1>4, <1>5, KindsOf, QueueEmpty
  DEF PassedOn, Longer, Tls, Inv, Rules, LayerInv, TokenInv
<1>16. PushInv'
  BY <1>1, <1>3, <1>4, <1>5, KindsOf, QueueEmpty
  DEF PassedOn, Longer, Tls, Inv, Rules, LayerInv, PushInv
<1>17. DataInv'
  BY <1>1, <1>3, <1>4, <1>5, KindsOf, QueueEmpty
  DEF PassedOn, Longer, Tls, Inv, Rules, LayerInv, ConnectingInv, DataInv, Undecoded
<1>18. EarlyInv'
  BY <1>1, <1>3, <1>4, <1>5, KindsOf, QueueEmpty
  DEF PassedOn, Longer, Tls, Inv, Rules, LayerInv, EarlyInv
<1> QED BY <1>3, <1>10, <1>11, <1>12, <1>13, <1>14, <1>15, <1>16, <1>17, <1>18
       DEF PassedOn, Rules

LEMMA UpperClosesRight ==
  ASSUME Inv, UpperGivesUp \/ UpperCloses
  PROVE  t' \in Memory /\ Rules'
<1>1. PICK st \in {"OK", "ERR"} :
        up.state \in {"open", "failed"} /\ Request("close", st)
        /\ up' = [up EXCEPT !.state = "closing"]
  BY DEF UpperGivesUp, UpperCloses, UpperClose
<1>2. "close" \in FunctionNames /\ st \in Statuses BY DEF FunctionNames, Statuses
<1>3. PICK x, s : PassedOn(t, "codec", x, s) /\ x.layer = "tls" /\ x.fn = "close"
  BY <1>1, <1>2, Requested DEF Inv
<1>4. up'.state = "closing" /\ up'.pushing = up.pushing /\ up'.early = up.early
  BY <1>1, <1>2, Requested DEF UpTypes, Inv
<1>5. t.io # "connecting" /\ Tls # "CONNECTING"
  BY <1>1 DEF Inv, Rules, StartInv, ConnectingInv
<1>10. LayerInv'
  BY <1>1, <1>3, <1>4, <1>5, KindsOf, QueueEmpty
  DEF PassedOn, Longer, Tls, Inv, Rules, LayerInv
<1>11. ConnectingInv'
  BY <1>1, <1>3, <1>4, <1>5, KindsOf, QueueEmpty
  DEF PassedOn, Longer, Tls, Inv, Rules, LayerInv, ConnectingInv, AtWrite
<1>12. StartInv'
  BY <1>1, <1>3, <1>4, <1>5, KindsOf, QueueEmpty
  DEF PassedOn, Longer, Tls, Inv, Rules, LayerInv, StartInv
<1>13. LoadInv'
  BY <1>1, <1>3, <1>4, <1>5, KindsOf, QueueEmpty
  DEF PassedOn, Longer, Tls, Inv, Rules, LayerInv, LoadInv, Asked, Answered, Failed,
      Releasing, Waits
<1>14. EndInv'
  BY <1>1, <1>3, <1>4, <1>5, KindsOf, QueueEmpty
  DEF PassedOn, Longer, Tls, Inv, Rules, LayerInv, StartInv, EndInv
<1>15. TokenInv'
  BY <1>1, <1>3, <1>4, <1>5, KindsOf, QueueEmpty
  DEF PassedOn, Longer, Tls, Inv, Rules, LayerInv, TokenInv
<1>16. PushInv'
  BY <1>1, <1>3, <1>4, <1>5, KindsOf, QueueEmpty
  DEF PassedOn, Longer, Tls, Inv, Rules, LayerInv, PushInv
<1>17. DataInv'
  BY <1>1, <1>3, <1>4, <1>5, KindsOf, QueueEmpty
  DEF PassedOn, Longer, Tls, Inv, Rules, LayerInv, ConnectingInv, DataInv, Undecoded
<1>18. EarlyInv'
  BY <1>1, <1>3, <1>4, <1>5, KindsOf, QueueEmpty
  DEF PassedOn, Longer, Tls, Inv, Rules, LayerInv, EarlyInv
<1> QED BY <1>3, <1>10, <1>11, <1>12, <1>13, <1>14, <1>15, <1>16, <1>17, <1>18
       DEF PassedOn, Rules

\* The layers above are called: what they make of it.
LEMMA CodecCalledRight ==
  ASSUME Inv, CodecCalled
  PROVE  t' \in Memory /\ Rules'
<1>1. t.calls # <<>> /\ Call.layer = "codec" /\ t' = Popped BY DEF CodecCalled
<1>2. Taking(Popped, "codec", Call.fn) BY <1>1, Takes DEF Called
<1>3. up \in UpTypes BY DEF Inv, Types, UpTypes
<1>4. /\ Call.fn = "connect" /\ Call.st = "OK" /\ up.state = "opening"
         => up' = [up EXCEPT !.state = "open"]
      /\ Call.fn = "connect" /\ Call.st # "OK" /\ up.state # "idle"
         => up' = [up EXCEPT !.state = "failed"]
      /\ Call.fn = "connect" /\ Call.st = "OK" /\ up.state # "opening" => up' = up
      /\ Call.fn = "connect" /\ Call.st # "OK" /\ up.state = "idle" => up' = up
      /\ Call.fn = "push" => up' = [up EXCEPT !.pushing = FALSE]
      /\ Call.fn = "pull" => up' = [up EXCEPT !.received = @ + 1,
                                              !.early = @ \/ up.state = "opening"]
      /\ Call.fn = "close_externally" => up' = [up EXCEPT !.state = "idle", !.pushing = FALSE]
      /\ Call.fn \notin {"connect", "push", "pull", "close_externally"} => up' = up
  BY DEF CodecCalled
<1>5. /\ t' \in Memory /\ Tls' = Tls /\ t'.d = t.d /\ t'.io_data = t.io_data /\ t'.io = t.io
      /\ t'.event = t.event /\ t'.file = t.file /\ t'.broken = t.broken
      /\ Shorter(t.calls, Call, t'.calls) /\ Call \in Calls
  BY <1>1, <1>2 DEF Taking, Tls
<1>6. /\ up'.state = IF Call.fn = "connect" /\ Call.st = "OK" /\ up.state = "opening" THEN "open"
                     ELSE IF Call.fn = "connect" /\ Call.st # "OK" /\ up.state # "idle"
                     THEN "failed"
                     ELSE IF Call.fn = "close_externally" THEN "idle" ELSE up.state
      /\ up.pushing /\ Call.fn \notin {"push", "close_externally"} => up'.pushing
      /\ up'.early => up.early \/ (Call.fn = "pull" /\ up.state = "opening")
  <2>1. CASE Call.fn = "connect" BY <1>3, <1>4, <2>1 DEF UpTypes
  <2>2. CASE Call.fn = "push" BY <1>3, <1>4, <2>2 DEF UpTypes
  <2>3. CASE Call.fn = "pull" BY <1>3, <1>4, <2>3 DEF UpTypes
  <2>4. CASE Call.fn = "close_externally" BY <1>3, <1>4, <2>4 DEF UpTypes
  <2>5. CASE Call.fn \notin {"connect", "push", "pull", "close_externally"}
    BY <1>4, <2>5
  <2> QED BY <2>1, <2>2, <2>3, <2>4, <2>5
<1>10. LayerInv'
  BY <1>1, <1>5, <1>6, KindsOf, QueueEmpty
  DEF Shorter, Inv, Rules, LayerInv
<1>11. ConnectingInv'
  BY <1>1, <1>5, <1>6, KindsOf, QueueEmpty
  DEF Shorter, Inv, Rules, LayerInv, ConnectingInv, EndInv,
      AtWrite
<1>12. StartInv'
  BY <1>1, <1>5, <1>6, KindsOf, QueueEmpty
  DEF Shorter, Inv, Rules, LayerInv, StartInv
<1>13. LoadInv'
  BY <1>1, <1>5, <1>6, KindsOf, QueueEmpty
  DEF Shorter, Inv, Rules, LayerInv, LoadInv, Asked, Answered, Failed, Releasing, Waits
<1>14. EndInv'
  BY <1>1, <1>5, <1>6, KindsOf, QueueEmpty
  DEF Shorter, Inv, Rules, LayerInv, StartInv, EndInv
<1>15. TokenInv'
  BY <1>1, <1>5, <1>6, KindsOf, QueueEmpty
  DEF Shorter, Inv, Rules, LayerInv, TokenInv
<1>16. PushInv'
  BY <1>1, <1>5, <1>6, KindsOf, QueueEmpty
  DEF Shorter, Inv, Rules, LayerInv, EndInv, PushInv
<1>17. DataInv'
  <2>1. /\ Call \in Ends => Call \in Told
        /\ Call \in Again => FALSE
        /\ up'.state = "open" => Call \notin Told /\ (up.state = "open" \/ Call \in Connected)
    BY <1>1, <1>5, <1>6, KindsOf
  <2>2. /\ Tls = "CONNECTED" /\ Undecoded(t) => Has(t.calls, Again)
        /\ up.state = "open" \/ Has(t.calls, Connected) => Tls = "CONNECTED" \/ Has(t.calls, Ends)
        /\ Late(t.calls)
    BY DEF Inv, Rules, DataInv
  <2>3. Tls' = "CONNECTED" /\ Undecoded(t)' => Has(t'.calls, Again)
    BY <1>5, <2>1, <2>2 DEF Shorter, Undecoded
  <2>4. up'.state = "open" \/ Has(t'.calls, Connected) => Tls' = "CONNECTED" \/ Has(t'.calls, Ends)
    BY <1>5, <2>1, <2>2 DEF Shorter
  <2>5. Late(t'.calls) BY <1>5, <2>2 DEF Shorter
  <2> QED BY <2>3, <2>4, <2>5 DEF DataInv
<1>18. EarlyInv'
  BY <1>1, <1>5, <1>6, KindsOf, QueueEmpty
  DEF Shorter, Inv, Rules, LayerInv, EarlyInv
<1> QED BY <1>5, <1>10, <1>11, <1>12, <1>13, <1>14, <1>15, <1>16, <1>17, <1>18
       DEF Rules


-----------------------------------------------------------------------------
(* The end of the layer: an open file is closed first.                      *)
LEMMA ReleaseAsks ==
  ASSUME Inv, NEW a, Taking(a, "tls", "close_externally"), t.d.rm.there, t.d.rm.open,
         Becomes(CloseExternallyHandler(a, Call.st)), up' = up
  PROVE  t' \in Memory /\ Rules'
<1> DEFINE x == [layer |-> "rm", fn |-> "close", arg |-> 0, st |-> "OK"]
           c == RmRequest(a, "close", "close_externally", Call.st)
           m == [a.d.rm EXCEPT !.callback = "close_externally", !.st = Call.st]
<1>1. Failed /\ up.state = "closing" /\ a.calls = <<>>
  BY KindsOf
  DEF Taking, Shorter, Inv, Rules, LoadInv, Asked, Answered, Failed, Releasing, Waits
<1>2. CloseExternallyHandler(a, Call.st) = c
  BY <1>1 DEF Taking, CloseExternallyHandler, RmAllowed, Failed
<1>3. Becomes(c) BY <1>2
<1>4. x \in Calls /\ x \in Kind("rm", "close")
  <2>1. "close" \in FunctionNames /\ "OK" \in Statuses BY DEF FunctionNames, Statuses
  <2>2. x \in Calls BY <2>1, CallType
  <2> QED BY <2>2 DEF Kind
<1>5. RmBecomes(c, a, m, Append(a.calls, x), a.event, a.file)
  <2>1. c = [a EXCEPT !.d.rm.callback = "close_externally", !.d.rm.st = Call.st,
                      !.calls = Append(a.calls, x)]
    BY DEF RmRequest
  <2> HIDE DEF c, x
  <2> QED BY <1>4, <2>1, CallbackSet DEF Taking
<1>6. a.d.rm \in RmTypes BY DEF Taking, Memory, Data
<1>7. /\ m.there = t.d.rm.there /\ m.open = t.d.rm.open /\ m.buffer = t.d.rm.buffer
      /\ m.callback = "close_externally"
  BY <1>6 DEF Taking, RmTypes
<1> HIDE DEF c, x, m
<1>8. /\ c \in Memory /\ c.calls = Append(<<>>, x) /\ c.event = "none" /\ c.file = t.file
      /\ c.layer["tls"] = Tls /\ Fixed(c) = Fixed(t) /\ c.d.rm = m /\ Others(c.d) = Others(t.d)
  BY <1>1, <1>5 DEF RmBecomes, Taking, Failed, Fixed
<1>9. t'.calls = c.calls /\ t'.event = "none" /\ t'.d = c.d
  BY <1>3, <1>8, Become DEF Rest
<1>10. Only(t'.calls, Kind("rm", "close"))
  <2>1. <<>> \in Seq(Calls) OBVIOUS
  <2>2. Longer(c.calls, <<>>, x) BY <1>4, <1>8, <2>1, QueueAppend
  <2> QED BY <1>4, <1>9, <2>2 DEF Longer
<1>11. LoadInv'
  <2>1. ~t.d.sending /\ ~t.d.send /\ ~t.d.to_write BY DEF Inv, Rules, LoadInv
  <2> QED BY <1>1, <1>7, <1>8, <1>9, <1>10, <2>1 DEF LoadInv, Releasing, Failed, Waits, Others
<1>12. /\ t.d.there /\ Tls \in {"NONE", "CLOSED"} /\ t.file = t.d.rm.open
       /\ t.d.write = "NONE"
  BY DEF Inv, Rules, LayerInv, LoadInv, TokenInv
<1> QED BY <1>3, <1>7, <1>8, <1>11, <1>12, LoadingStep DEF Others

LEMMA ReleaseEnds ==
  ASSUME Inv, TlsCloseExternally, ~(t.d.rm.there /\ t.d.rm.open)
  PROVE  t' \in Memory /\ Rules'
<1> DEFINE a == Popped
           b == [a EXCEPT !.d = NoData]
<1>1. /\ Called("tls", "close_externally") /\ up' = up
      /\ Becomes(CloseExternallyHandler(a, Call.st))
  BY DEF TlsCloseExternally
<1>2. Taking(a, "tls", "close_externally") BY <1>1, Takes
<1>3. ~t.d.rm.open /\ t.event = "none" /\ ~t.io_data /\ t.io = "idle" /\ ~RmAllowed(a, "close")
  <2>1. CASE t.d.rm.there
    <3>1. ~t.d.rm.open BY <2>1
    <3>2. Failed
      BY <1>2, <2>1, KindsOf
      DEF Taking, Shorter, Inv, Rules, LoadInv, Asked, Answered, Failed, Releasing, Waits
    <3> QED BY <1>2, <2>1, <3>1, <3>2 DEF Taking, Failed, Inv, Rules, LayerInv, RmAllowed
  <2>2. CASE ~t.d.rm.there
    <3>1. t.d.rm = NoRm /\ t.event = "none" /\ ~t.io_data /\ t.io = "idle"
      BY <1>2, <2>2, KindsOf DEF Taking, Shorter, Inv, Rules, LayerInv, EndInv
    <3> QED BY <1>2, <2>2, <3>1 DEF NoRm, RmAllowed, Taking
  <2> QED BY <2>1, <2>2
<1>4. b \in Memory /\ b.calls = a.calls /\ b.layer = a.layer /\ b.d = NoData
      /\ b.io_data = a.io_data /\ b.io = a.io /\ b.event = a.event /\ b.file = a.file
      /\ b.broken = a.broken
  <2>1. NoData \in Data BY NoDataType
  <2> QED BY <1>2, <2>1 DEF Taking, Memory
<1>5. Becomes(IF Call.st # "OK" /\ Tls = "CONNECTING"
              THEN ContinueWith(b, "tls", "connect", "tls", 0, Call.st)
              ELSE ContinueWith(b, "tls", "close_externally", "codec", 0, Call.st))
  BY <1>1, <1>2, <1>3
  DEF CloseExternallyHandler, Released, Itself, OnThis, Upwards, Taking
<1> HIDE DEF a, b
<1>6. {"connect", "close_externally"} \subseteq FunctionNames BY DEF FunctionNames
<1>7. PICK x, s : /\ PassedOn(b, "tls", x, s) /\ s = "CLOSED"
                  /\ \/ /\ Tls = "CONNECTING"
                        /\ x.layer = "tls" /\ x.fn = "connect" /\ x.st # "OK"
                     \/ x.layer = "codec" /\ x.fn = "close_externally"
  <2>1. CASE Call.st # "OK" /\ Tls = "CONNECTING"
    <3>1. Becomes(ContinueWith(b, "tls", "connect", "tls", 0, Call.st)) BY <1>5, <2>1
    <3>2. PassedOn(b, "tls", [layer |-> "tls", fn |-> "connect", arg |-> 0, st |-> Call.st],
                   NextLayerState("connect", b.layer["tls"], Call.st))
      BY <1>2, <1>4, <1>6, <3>1, PassesOn DEF Taking
    <3> QED BY <2>1, <3>2 DEF NextLayerState
  <2>2. CASE ~(Call.st # "OK" /\ Tls = "CONNECTING")
    <3>1. Becomes(ContinueWith(b, "tls", "close_externally", "codec", 0, Call.st))
      BY <1>5, <2>2
    <3>2. PassedOn(b, "tls", [layer |-> "codec", fn |-> "close_externally", arg |-> 0,
                              st |-> Call.st],
                   NextLayerState("close_externally", b.layer["tls"], Call.st))
      BY <1>2, <1>4, <1>6, <3>1, PassesOn DEF Taking
    <3> QED BY <3>2 DEF NextLayerState
  <2> QED BY <2>1, <2>2
<1>8. /\ ~NoData.there /\ NoData.rm = NoRm /\ ~NoRm.there /\ NoRm.open = FALSE
  BY DEF NoData, NoRm
<1>9. t.file = FALSE
  <2>1. t.file = t.d.rm.open BY DEF Inv, Rules, LayerInv
  <2>2. t.file \in BOOLEAN BY <1>2 DEF Taking, Memory
  <2> QED BY <1>3, <2>1, <2>2
<1>10. ~Has(a.calls, Requests)
  <2>1. CASE t.d.rm.there
    <3>1. a.calls = <<>>
      BY <1>2, <2>1, KindsOf
      DEF Taking, Shorter, Inv, Rules, LoadInv, Asked, Answered, Failed, Releasing, Waits
    <3> QED BY <3>1, QueueEmpty
  <2>2. CASE ~t.d.rm.there BY <1>2, <2>2 DEF Taking, Shorter, Inv, Rules, StartInv
  <2> QED BY <2>1, <2>2
<1>11. /\ t' \in Memory /\ Tls' = "CLOSED" /\ t'.d = NoData /\ ~t'.d.there /\ t'.d.rm = NoRm
       /\ ~t'.d.rm.there /\ t'.d.rm.open = FALSE /\ ~t'.io_data /\ t'.io = "idle"
       /\ t'.event = "none" /\ t'.file = FALSE /\ t'.broken = t.broken
       /\ Longer(t'.calls, a.calls, x) /\ x \in Calls
  BY <1>2, <1>3, <1>4, <1>7, <1>8, <1>9 DEF PassedOn, Taking
<1>12. /\ Shorter(t.calls, Call, a.calls) /\ Call \in Calls /\ Call.layer = "tls"
       /\ Call.fn = "close_externally"
  BY <1>2 DEF Taking
<1>13. \/ Tls = "CONNECTING" /\ x.layer = "tls" /\ x.fn = "connect" /\ x.st # "OK"
       \/ x.layer = "codec" /\ x.fn = "close_externally"
  BY <1>7
<1>20. LayerInv'
  BY <1>1, <1>10, <1>11, <1>12, <1>13, KindsOf
  DEF Shorter, Longer, Inv, Rules, LayerInv
<1>21. ConnectingInv'
  BY <1>1, <1>10, <1>11, <1>12, <1>13, KindsOf
  DEF Shorter, Longer, Inv, Rules, LayerInv, ConnectingInv, AtWrite
<1>22. StartInv'
  BY <1>1, <1>10, <1>11, <1>12, <1>13, KindsOf
  DEF Shorter, Longer, Inv, Rules, LayerInv, StartInv
<1>23. LoadInv'
  BY <1>1, <1>10, <1>11, <1>12, <1>13, KindsOf
  DEF Shorter, Longer, Inv, Rules, LayerInv, LoadInv, Asked, Answered, Failed, Releasing,
      Waits
<1>24. EndInv'
  BY <1>1, <1>10, <1>11, <1>12, <1>13, KindsOf
  DEF Shorter, Longer, Inv, Rules, LayerInv, StartInv, EndInv
<1>25. TokenInv'
  BY <1>1, <1>10, <1>11, <1>12, <1>13, KindsOf
  DEF Shorter, Longer, Inv, Rules, LayerInv, TokenInv
<1>26. PushInv'
  BY <1>1, <1>10, <1>11, <1>12, <1>13, KindsOf
  DEF Shorter, Longer, Inv, Rules, LayerInv, PushInv
<1>27. DataInv'
  <2>1. Has(t.calls, Connected) => Has(t.calls, Connects)
    BY DEF Has, Connected, Connects, With, Kind
  <2>2. Has(t'.calls, Ends) \/ (up'.state # "open" /\ ~Has(t'.calls, Connected))
    <3>1. CASE x.layer = "codec" /\ x.fn = "close_externally"
      <4>1. x \in Ends BY <1>11, <3>1 DEF Ends, Told, Kind
      <4> QED BY <4>1, <1>11 DEF Longer
    <3>2. CASE Tls = "CONNECTING" /\ x.layer = "tls"
      <4>1. up.state = "opening" /\ ~Has(t.calls, Connects)
        BY <3>2 DEF Inv, Rules, ConnectingInv
      <4>2. x \notin Connected BY <1>11, <3>2, KindsOf
      <4>3. ~Has(a.calls, Connected) BY <2>1, <4>1, <1>12 DEF Shorter
      <4> QED BY <4>1, <4>2, <4>3, <1>1, <1>11 DEF Longer
    <3> QED BY <1>13, <3>1, <3>2
  <2>3. Late(t'.calls)
    BY <1>11, <1>12, <1>13, KindsOf DEF Shorter, Longer, Inv, Rules, DataInv
  <2> QED BY <1>11, <2>2, <2>3 DEF DataInv
<1>28. EarlyInv'
  BY <1>1, <1>10, <1>11, <1>12, <1>13, KindsOf
  DEF Shorter, Longer, Inv, Rules, LayerInv, EarlyInv
<1> QED BY <1>11, <1>20, <1>21, <1>22, <1>23, <1>24, <1>25, <1>26, <1>27, <1>28
       DEF Rules

LEMMA ReleaseRight ==
  ASSUME Inv, TlsCloseExternally
  PROVE  t' \in Memory /\ Rules'
<1>1. /\ Called("tls", "close_externally") /\ up' = up
      /\ Becomes(CloseExternallyHandler(Popped, Call.st))
  BY DEF TlsCloseExternally
<1>2. Taking(Popped, "tls", "close_externally") BY <1>1, Takes
<1> QED BY <1>1, <1>2, ReleaseAsks, ReleaseEnds


-----------------------------------------------------------------------------
(* The handlers that call the library.  What they leave of the memory a     *)
(* they work on: m is the queue, with the buffer the library may have       *)
(* handed to the io layer.                                                  *)
Handed(d, a, m) ==
  /\ m \in Seq(Calls) /\ Matched(d)
  /\ \/ m = a.calls /\ (a.d.write = "WRITING" => d.write = "WRITING")
     \/ /\ \E w \in Calls : w.layer = "io" /\ w.fn = "push" /\ Longer(m, a.calls, w)
        /\ a.d.write # "WRITING" /\ d.write = "WRITING"

LEMMA HandedDown ==
  ASSUME NEW a \in Memory, NEW b, LibKeeps(b, a)
  PROVE  Handed(b.d, a, b.calls)
<1>1. Write \in Calls
  <2>1. "push" \in FunctionNames /\ "OK" \in Statuses BY DEF FunctionNames, Statuses
  <2> QED BY <2>1, CallType DEF Write
<1>2. Write.layer = "io" /\ Write.fn = "push" BY DEF Write
<1>3. b.calls \in Seq(Calls) /\ a.calls \in Seq(Calls) BY DEF LibKeeps, Memory
<1>4. Longer(Append(a.calls, Write), a.calls, Write) BY <1>1, <1>3, QueueAppend
<1> HIDE DEF Write
<1> QED BY <1>1, <1>2, <1>3, <1>4 DEF LibKeeps, Handed

\* The step keeps what a handler of the layer leaves alone.
Stays(a) ==
  /\ t' \in Memory /\ t'.io_data = a.io_data /\ t'.io = a.io /\ t'.event = a.event
  /\ t'.file = a.file /\ t'.broken = a.broken
  /\ t'.d.there = a.d.there /\ t'.d.rm = a.d.rm /\ t'.d.lib.there = a.d.lib.there

\* Some call of layer l's function fn is put at the end of the queue q.
Calling(q, l, fn) == \E x \in Calls : x.layer = l /\ x.fn = fn /\ Longer(t'.calls, q, x)

ConnectWaits(a) ==
  /\ Tls' = a.layer["tls"] /\ t'.d.handler = a.d.handler
  /\ \E m : Handed(t'.d, a, m) /\ t'.calls = m
ConnectFails(a) ==
  /\ Tls' = a.layer["tls"] /\ t'.d.handler = a.d.handler /\ t'.d.lib.failed
  /\ \E m : Handed(t'.d, a, m) /\ Calling(m, "tls", "close")
ConnectSucceeds(a) ==
  /\ Tls' = "CONNECTED" /\ t'.d.handler = "data" /\ ~t'.d.sending /\ ~a.d.lib.failed
  /\ Handed(t'.d, a, a.calls)
  /\ \E k, x : /\ x \in Connected /\ Longer(t'.calls, k, x)
               /\ \/ k = a.calls /\ ~Undecoded(t')
                  \/ \E p \in Again : Longer(k, a.calls, p)

LEMMA HandlesConnect ==
  ASSUME NEW a \in Memory, Matched(a.d), a.d.sending /\ ~a.d.lib.failed => AtWrite(a),
         a.d.there, a.layer["tls"] = "CONNECTING", NEW bad \in BOOLEAN,
         Becomes(ConnectHandler(a, bad))
  PROVE  /\ Stays(a) /\ t'.d.send = a.d.send /\ t'.d.to_write = a.d.to_write
         /\ t'.d.sending /\ ~t'.d.lib.failed => AtWrite(t')
         /\ a.d.lib.failed => t'.d.lib.failed
         /\ ConnectWaits(a) \/ ConnectFails(a) \/ ConnectSucceeds(a)
<1> DEFINE b == LibConnect(a, bad)
           c == [b EXCEPT !.d.conn_cs = "start"]
           d == [b EXCEPT !.d.handler = "data", !.d.conn_cs = "start"]
           e == IF Undecoded(d) THEN Itself(d, "pull", "WANT_READ") ELSE d
           w == [b EXCEPT !.d.conn_cs = "handshake"]
<1>1. ~NotUsable(a) BY DEF NotUsable, NotOperational
<1>2. Becomes(IF b.ret = "ERROR" THEN Itself(c, "close", "ERR")
              ELSE IF b.ret = "OK" THEN Upwards(e, "connect", 0, "OK") ELSE w)
  BY <1>1 DEF ConnectHandler
<1>3. /\ LibKeeps(b, a)
      /\ b.d.sending /\ ~b.d.lib.failed => AtWrite(b)
      /\ b.ret = "OK" => ~b.d.sending /\ b.calls = a.calls /\ ~a.d.lib.failed
      /\ a.d.lib.failed \/ b.ret = "ERROR" => b.d.lib.failed
  <2> HIDE DEF b
  <2>1. b = LibConnect(a, bad) BY DEF b
  <2> QED BY <2>1, ConnectsLib
<1> HIDE DEF b
<1>4. Handed(b.d, a, b.calls) /\ b \in Memory BY <1>3, HandedDown DEF LibKeeps
<1>5. /\ b.layer["tls"] = "CONNECTING" /\ b.io_data = a.io_data /\ b.io = a.io
      /\ b.event = a.event /\ b.file = a.file /\ b.broken = a.broken
      /\ b.d.there = a.d.there /\ b.d.rm = a.d.rm /\ b.d.lib.there = a.d.lib.there
      /\ b.d.send = a.d.send /\ b.d.to_write = a.d.to_write /\ b.d.handler = a.d.handler
  BY <1>3 DEF LibKeeps, Rest, Kept
<1> DEFINE Alike(f, h) ==
             /\ f \in Memory /\ f.calls = b.calls /\ f.layer = b.layer /\ Rest(f) = Rest(b)
             /\ f.d.there = b.d.there /\ f.d.rm = b.d.rm /\ f.d.lib = b.d.lib
             /\ f.d.raw = b.d.raw /\ f.d.send = b.d.send /\ f.d.to_write = b.d.to_write
             /\ f.d.write = b.d.write /\ f.d.sending = b.d.sending /\ f.d.handler = h
<1>6. Alike(c, b.d.handler)
  <2>1. c \in Memory BY <1>4 DEF Memory, Data
  <2>2. c.calls = b.calls /\ c.layer = b.layer /\ Rest(c) = Rest(b) BY <1>4 DEF Memory, Rest
  <2>3. c.d = [b.d EXCEPT !.conn_cs = "start"] BY <1>4 DEF Memory
  <2> HIDE DEF c
  <2> QED BY <2>1, <2>2, <2>3, <1>4 DEF Memory, Data
<1>7. Alike(w, b.d.handler)
  <2>1. w \in Memory BY <1>4 DEF Memory, Data
  <2>2. w.calls = b.calls /\ w.layer = b.layer /\ Rest(w) = Rest(b) BY <1>4 DEF Memory, Rest
  <2>3. w.d = [b.d EXCEPT !.conn_cs = "handshake"] BY <1>4 DEF Memory
  <2> HIDE DEF w
  <2> QED BY <2>1, <2>2, <2>3, <1>4 DEF Memory, Data
<1>8. Alike(d, "data")
  <2>1. d \in Memory BY <1>4 DEF Memory, Data
  <2>2. d.calls = b.calls /\ d.layer = b.layer /\ Rest(d) = Rest(b) BY <1>4 DEF Memory, Rest
  <2>3. d.d = [b.d EXCEPT !.handler = "data", !.conn_cs = "start"] BY <1>4 DEF Memory
  <2> HIDE DEF d
  <2> QED BY <2>1, <2>2, <2>3, <1>4 DEF Memory, Data
<1> HIDE DEF c, d, w
<1>9. ASSUME NEW f, NEW h, Alike(f, h), t'.d = f.d, t'.io_data = f.io_data, t'.io = f.io,
             t'.event = f.event, t'.file = f.file, t'.broken = f.broken, t' \in Memory
      PROVE  /\ Stays(a) /\ t'.d.send = a.d.send /\ t'.d.to_write = a.d.to_write
             /\ t'.d.sending /\ ~t'.d.lib.failed => AtWrite(t')
             /\ a.d.lib.failed => t'.d.lib.failed
             /\ t'.d.handler = h /\ t'.d.sending = b.d.sending /\ Handed(t'.d, a, b.calls)
             /\ b.d.lib.failed => t'.d.lib.failed
  <2>1. /\ t'.d.sending = b.d.sending /\ t'.d.write = b.d.write /\ t'.d.lib = b.d.lib BY <1>9
  <2>2. Handed(t'.d, a, b.calls) BY <2>1, <1>4 DEF Handed, Matched
  <2>3. t'.d.sending /\ ~t'.d.lib.failed => AtWrite(t') BY <2>1, <1>3 DEF AtWrite
  <2>4. Stays(a) BY <1>5, <1>9 DEF Stays, Rest
  <2> QED BY <1>3, <1>5, <1>9, <2>1, <2>2, <2>3, <2>4
<1>10. /\ {"close", "connect", "pull"} \subseteq FunctionNames
       /\ {"OK", "ERR", "WANT_READ"} \subseteq Statuses
  BY DEF FunctionNames, Statuses
<1>11. CASE b.ret = "ERROR"
  <2>1. Becomes(ContinueWith(c, "tls", "close", "tls", 0, "ERR"))
    BY <1>2, <1>11 DEF Itself, OnThis
  <2>2. PICK x : /\ x.layer = "tls" /\ x.fn = "close"
                 /\ PassedOn(c, "tls", x, NextLayerState("close", c.layer["tls"], "ERR"))
    <3>1. PassedOn(c, "tls", [layer |-> "tls", fn |-> "close", arg |-> 0, st |-> "ERR"],
                   NextLayerState("close", c.layer["tls"], "ERR"))
      BY <1>6, <1>10, <2>1, PassesOn
    <3> QED BY <3>1
  <2>3. NextLayerState("close", c.layer["tls"], "ERR") = "CONNECTING"
    BY <1>5, <1>6 DEF NextLayerState
  <2>4. /\ t' \in Memory /\ x \in Calls /\ Longer(t'.calls, b.calls, x) /\ Tls' = "CONNECTING"
        /\ t'.d = c.d /\ t'.io_data = c.io_data /\ t'.io = c.io /\ t'.event = c.event
        /\ t'.file = c.file /\ t'.broken = c.broken
    BY <1>6, <2>2, <2>3 DEF PassedOn
  <2>5. Calling(b.calls, "tls", "close") BY <2>2, <2>4 DEF Calling
  <2> HIDE DEF Alike
  <2>6. /\ Stays(a) /\ t'.d.send = a.d.send /\ t'.d.to_write = a.d.to_write
        /\ t'.d.sending /\ ~t'.d.lib.failed => AtWrite(t')
        /\ a.d.lib.failed => t'.d.lib.failed
        /\ t'.d.handler = b.d.handler /\ Handed(t'.d, a, b.calls)
        /\ b.d.lib.failed => t'.d.lib.failed
    BY <1>6, <1>9, <2>4
  <2>7. ConnectFails(a) BY <1>3, <1>5, <1>11, <2>4, <2>5, <2>6 DEF ConnectFails
  <2> QED BY <2>6, <2>7
<1>12. CASE b.ret # "ERROR" /\ b.ret # "OK"
  <2>1. Becomes(w) BY <1>2, <1>12
  <2>2. Ended(w) BY <1>7, <2>1, EndsIn
  <2>3. /\ t' \in Memory /\ t'.calls = b.calls /\ Tls' = "CONNECTING"
        /\ t'.d = w.d /\ t'.io_data = w.io_data /\ t'.io = w.io /\ t'.event = w.event
        /\ t'.file = w.file /\ t'.broken = w.broken
    BY <1>5, <1>7, <2>2 DEF Ended
  <2> HIDE DEF Alike
  <2>4. /\ Stays(a) /\ t'.d.send = a.d.send /\ t'.d.to_write = a.d.to_write
        /\ t'.d.sending /\ ~t'.d.lib.failed => AtWrite(t')
        /\ a.d.lib.failed => t'.d.lib.failed
        /\ t'.d.handler = b.d.handler /\ Handed(t'.d, a, b.calls)
    BY <1>7, <1>9, <2>3
  <2>5. ConnectWaits(a) BY <1>5, <2>3, <2>4 DEF ConnectWaits
  <2> QED BY <2>4, <2>5
<1>13. CASE b.ret = "OK"
  <2>1. Becomes(ContinueWith(e, "tls", "connect", "codec", 0, "OK"))
    BY <1>2, <1>13 DEF Upwards
  <2>2. /\ e \in Memory /\ e.d = d.d /\ Rest(e) = Rest(d) /\ e.layer["tls"] = "CONNECTING"
        /\ \/ e.calls = a.calls /\ ~Undecoded(d)
           \/ \E p \in Again : Longer(e.calls, a.calls, p)
    <3>1. CASE ~Undecoded(d) BY <3>1, <1>3, <1>5, <1>8, <1>13
    <3>2. CASE Undecoded(d)
      <4> DEFINE p == [layer |-> "tls", fn |-> "pull", arg |-> 0, st |-> "WANT_READ"]
      <4>1. e = ContinueWith(d, "tls", "pull", "tls", 0, "WANT_READ")
        BY <3>2 DEF Itself, OnThis
      <4>2. Queues(ContinueWith(d, "tls", "pull", "tls", 0, "WANT_READ"), d, "tls", p,
                   NextLayerState("pull", d.layer["tls"], "WANT_READ"))
        BY <1>8, <1>10, Continues
      <4>3. NextLayerState("pull", d.layer["tls"], "WANT_READ") = "CONNECTING"
        BY <1>5, <1>8 DEF NextLayerState
      <4>4. p \in Calls BY <1>10, CallType
      <4>5. p \in Again BY <4>4 DEF Again, Kind
      <4>6. d.layer \in [{"io", "tls", "codec"} -> LayerStates] /\ d.calls \in Seq(Calls)
            /\ d.calls = a.calls
        BY <1>3, <1>8, <1>13 DEF Memory
      <4> HIDE DEF e, p
      <4>7. Longer(Append(d.calls, p), d.calls, p) BY <4>4, <4>6, QueueAppend
      <4> QED BY <4>1, <4>2, <4>3, <4>5, <4>6, <4>7 DEF Queues
    <3> QED BY <3>1, <3>2
  <2> HIDE DEF e
  <2>3. PICK x : /\ x.layer = "codec" /\ x.fn = "connect" /\ x.st = "OK"
                 /\ PassedOn(e, "tls", x, NextLayerState("connect", e.layer["tls"], "OK"))
    <3>1. PassedOn(e, "tls", [layer |-> "codec", fn |-> "connect", arg |-> 0, st |-> "OK"],
                   NextLayerState("connect", e.layer["tls"], "OK"))
      BY <1>10, <2>1, <2>2, PassesOn
    <3> QED BY <3>1
  <2>4. /\ t' \in Memory /\ x \in Calls /\ Longer(t'.calls, e.calls, x) /\ Tls' = "CONNECTED"
        /\ t'.d = d.d /\ t'.io_data = d.io_data /\ t'.io = d.io /\ t'.event = d.event
        /\ t'.file = d.file /\ t'.broken = d.broken
    BY <2>2, <2>3 DEF PassedOn, Rest, NextLayerState
  <2>5. x \in Connected BY <2>3, <2>4, KindsOf
  <2>6. Undecoded(t') = Undecoded(d) BY <2>4 DEF Undecoded
  <2> HIDE DEF Alike
  <2>7. /\ Stays(a) /\ t'.d.send = a.d.send /\ t'.d.to_write = a.d.to_write
        /\ t'.d.sending /\ ~t'.d.lib.failed => AtWrite(t')
        /\ a.d.lib.failed => t'.d.lib.failed
        /\ t'.d.handler = "data" /\ t'.d.sending = b.d.sending /\ Handed(t'.d, a, a.calls)
    BY <1>3, <1>8, <1>9, <1>13, <2>4
  <2>8. ConnectSucceeds(a)
    BY <1>3, <1>13, <2>2, <2>4, <2>5, <2>6, <2>7 DEF ConnectSucceeds
  <2> QED BY <2>7, <2>8
<1> QED BY <1>11, <1>12, <1>13


\* a is what the layer works on when it has taken a call of its own: a buffer
\* that was written is known to be, and the raw buffer may hold more.
Working(a) ==
  /\ t \in Memory /\ a \in Memory /\ Shorter(t.calls, Call, a.calls) /\ a.layer["tls"] = Tls
  /\ a.io_data = t.io_data /\ a.io = t.io /\ a.event = t.event /\ a.file = t.file
  /\ a.broken = t.broken /\ t.calls # <<>> /\ Call \in Calls /\ Call.layer = "tls"
  /\ a.d.there = t.d.there /\ a.d.handler = t.d.handler /\ a.d.rm = t.d.rm /\ a.d.lib = t.d.lib
  /\ a.d.sending = t.d.sending
  /\ a.d.write = (IF Call \in Tokens THEN "WRITTEN" ELSE t.d.write)

(* The handshake goes on.                                                   *)
LEMMA ConnectRight ==
  ASSUME Inv, NEW a, Working(a), a.d.send = t.d.send, a.d.to_write = t.d.to_write,
         Tls = "CONNECTING", t.d.there, Call.fn \in {"connect", "push", "pull"},
         NEW bad \in BOOLEAN, Becomes(ConnectHandler(a, bad)), up' = up
  PROVE  t' \in Memory /\ Rules'
<1>1. /\ ~t.d.rm.there /\ t.d.lib.there /\ t.d.handler = "connect" /\ up.state = "opening"
      /\ ~t.d.to_write /\ ~t.d.send /\ t.broken = {} /\ t.file = t.d.rm.open
      /\ ~Has(t.calls, Messages) /\ ~Has(t.calls, Connects)
      /\ t.d.sending /\ ~t.d.lib.failed => AtWrite(t)
      /\ t.d.lib.failed \/ Short(t.calls)
  BY DEF Inv, Rules, LayerInv, ConnectingInv
<1>2. Matched(a.d) /\ (a.d.sending /\ ~a.d.lib.failed => AtWrite(a))
  <2>1. Matched(a.d)
    <3>1. Call \in Tokens => t.d.write = "WRITING"
      BY DEF Working, Shorter, Inv, Rules, TokenInv
    <3> QED BY <3>1 DEF Working, Inv, Rules, TokenInv, Matched
  <2> QED BY <1>1, <2>1 DEF Working, AtWrite
<1>3. /\ Stays(a) /\ t'.d.send = a.d.send /\ t'.d.to_write = a.d.to_write
      /\ t'.d.sending /\ ~t'.d.lib.failed => AtWrite(t')
      /\ a.d.lib.failed => t'.d.lib.failed
      /\ ConnectWaits(a) \/ ConnectFails(a) \/ ConnectSucceeds(a)
  BY <1>2, HandlesConnect DEF Working
<1>4. /\ t' \in Memory /\ t'.io_data = t.io_data /\ t'.io = t.io /\ t'.event = t.event
      /\ t'.file = t.file /\ t'.broken = t.broken /\ t'.d.there /\ t'.d.rm = t.d.rm
      /\ t'.d.lib.there /\ ~t'.d.send /\ ~t'.d.to_write /\ ~t'.d.rm.there
      /\ t.d.lib.failed => t'.d.lib.failed
  BY <1>1, <1>3 DEF Stays, Working
<1>5. /\ Shorter(t.calls, Call, a.calls) /\ Call \in Calls /\ Call.layer = "tls"
      /\ Call.fn \in {"connect", "push", "pull"} /\ t.calls # <<>>
      /\ ~t.d.lib.failed => a.calls = <<>>
  BY <1>1 DEF Working, Shorter
<1>6. LayerInv' /\ LoadInv' /\ t.io # "connecting"
  <2>1. Tls' \in {"CONNECTING", "CONNECTED"}
    BY <1>3 DEF ConnectWaits, ConnectFails, ConnectSucceeds, Working
  <2>2. LayerInv' BY <1>4, <2>1 DEF Inv, Rules, LayerInv
  <2>3. LoadInv' BY <1>4 DEF LoadInv
  <2>4. t.io # "connecting" BY <1>5 DEF Inv, Rules, StartInv
  <2> QED BY <2>2, <2>3, <2>4
\* What is left to be called, and what the handler called.
<1>7. /\ ~Has(a.calls, Messages) /\ ~Has(a.calls, Connects) /\ ~Has(a.calls, Inits)
      /\ ~Has(a.calls, Requests) /\ ~Has(a.calls, Starts) /\ ~Has(a.calls, Kind("io", "init"))
      /\ ~Has(a.calls, Told) /\ Led(a.calls) /\ Late(a.calls) /\ ~Has(a.calls, Connected)
      /\ (Has(a.calls, Gone) => ~t.io_data)
  <2>1. ~Has(a.calls, Messages) /\ ~Has(a.calls, Connects) BY <1>1, <1>5 DEF Shorter
  <2>2. ~Has(a.calls, Inits) /\ ~Has(a.calls, Requests)
    BY <1>1, <1>5, KindsOf DEF Shorter, Inv, Rules, StartInv
  <2>3. ~Has(a.calls, Starts) /\ ~Has(a.calls, Kind("io", "init"))
    <3>1. Has(t.calls, Kind("io", "init")) => Has(t.calls, Starts) BY DEF Has, Starts
    <3>2. Has(t.calls, Starts) => a.calls = <<>> BY <1>5 DEF Shorter, Inv, Rules, StartInv
    <3> QED BY <1>5, <3>1, <3>2, QueueEmpty DEF Shorter
  <2>4. ~Has(a.calls, Told) /\ Late(a.calls)
    BY <1>1, <1>5 DEF Shorter, Inv, Rules, EndInv, DataInv
  <2>5. Has(a.calls, Connected) => Has(a.calls, Connects)
    BY DEF Has, Connected, Connects, With, Kind
  <2>6. Led(a.calls)
    BY <1>1, <1>5, KindsOf DEF Shorter, Inv, Rules, EarlyInv
  <2>7. Has(a.calls, Gone) => ~t.io_data BY <1>5 DEF Shorter, Inv, Rules, EndInv
  <2> QED BY <2>1, <2>2, <2>3, <2>4, <2>5, <2>6, <2>7
<1>8. ASSUME NEW m, Handed(t'.d, a, m)
      PROVE  /\ m \in Seq(Calls)
             /\ ~Has(m, Messages) /\ ~Has(m, Connects) /\ ~Has(m, Inits) /\ ~Has(m, Requests)
             /\ ~Has(m, Starts) /\ ~Has(m, Kind("io", "init")) /\ ~Has(m, Told) /\ Led(m)
             /\ Late(m) /\ ~Has(m, Connected) /\ (Has(m, Gone) => ~t.io_data)
             /\ One(m, Tokens) /\ (t.io = "blocked" => ~Has(m, Tokens))
             /\ (Has(m, Tokens) \/ t.io = "blocked" => t'.d.write = "WRITING")
             /\ (t'.d.sending <=> t'.d.write # "NONE")
             /\ (~t.d.lib.failed => Short(m))
  <2>1. /\ One(t.calls, Tokens) /\ (t.io = "blocked" => ~Has(t.calls, Tokens))
        /\ (Has(t.calls, Tokens) \/ t.io = "blocked" => t.d.write = "WRITING")
    BY DEF Inv, Rules, TokenInv
  <2>2. /\ One(a.calls, Tokens) /\ (t.io = "blocked" => ~Has(a.calls, Tokens))
        /\ (Has(a.calls, Tokens) \/ t.io = "blocked" => a.d.write = "WRITING")
    BY <2>1, <1>5 DEF Shorter, Working
  <2>3. CASE m = a.calls /\ (a.d.write = "WRITING" => t'.d.write = "WRITING")
    BY <1>5, <1>7, <1>8, <2>2, <2>3, QueueEmpty DEF Handed, Matched
  <2>4. ASSUME NEW w \in Calls, w.layer = "io", w.fn = "push", Longer(m, a.calls, w),
               a.d.write # "WRITING", t'.d.write = "WRITING"
        PROVE  /\ ~Has(m, Messages) /\ ~Has(m, Connects) /\ ~Has(m, Inits) /\ ~Has(m, Requests)
               /\ ~Has(m, Starts) /\ ~Has(m, Kind("io", "init")) /\ ~Has(m, Told) /\ Led(m)
               /\ Late(m) /\ ~Has(m, Connected) /\ (Has(m, Gone) => ~t.io_data)
               /\ One(m, Tokens) /\ (t.io = "blocked" => ~Has(m, Tokens))
               /\ (~t.d.lib.failed => Short(m))
    BY <1>5, <1>7, <2>2, <2>4, KindsOf DEF Longer
  <2> QED BY <1>8, <2>3, <2>4 DEF Handed, Matched
<1>9. CASE ConnectWaits(a)
  <2>1. PICK m : Handed(t'.d, a, m) /\ t'.calls = m BY <1>9 DEF ConnectWaits
  <2>2. Tls' = "CONNECTING" /\ t'.d.handler = "connect"
    BY <1>1, <1>9 DEF ConnectWaits, Working
  <2>3. ConnectingInv' BY <1>1, <1>3, <1>4, <1>8, <2>1, <2>2 DEF ConnectingInv
  <2>4. StartInv' BY <1>4, <1>6, <1>8, <2>1 DEF StartInv
  <2>5. EndInv' BY <1>1, <1>4, <1>8, <2>1 DEF EndInv
  <2>6. TokenInv' BY <1>4, <1>8, <2>1 DEF TokenInv
  <2>7. PushInv' BY <2>2 DEF PushInv
  <2>8. DataInv' BY <1>1, <1>8, <2>1, <2>2 DEF DataInv
  <2>9. EarlyInv' BY <1>8, <2>1, <2>2 DEF Inv, Rules, EarlyInv
  <2> QED BY <1>4, <1>6, <2>3, <2>4, <2>5, <2>6, <2>7, <2>8, <2>9 DEF Rules
<1>10. CASE ConnectFails(a)
  <2>1. PICK m, x : /\ Handed(t'.d, a, m) /\ x \in Calls /\ x.layer = "tls" /\ x.fn = "close"
                    /\ Longer(t'.calls, m, x)
    BY <1>10 DEF ConnectFails, Calling
  <2>2. Tls' = "CONNECTING" /\ t'.d.handler = "connect" /\ t'.d.lib.failed
    BY <1>1, <1>10 DEF ConnectFails, Working
  <2>3. ConnectingInv' BY <1>1, <1>3, <1>4, <1>8, <2>1, <2>2, KindsOf DEF ConnectingInv, Longer
  <2>4. StartInv' BY <1>4, <1>6, <1>8, <2>1, KindsOf DEF StartInv, Longer
  <2>5. EndInv' BY <1>1, <1>4, <1>8, <2>1, KindsOf DEF EndInv, Longer
  <2>6. TokenInv' BY <1>4, <1>8, <2>1, KindsOf DEF TokenInv, Longer
  <2>7. PushInv' BY <2>2 DEF PushInv
  <2>8. DataInv' BY <1>1, <1>8, <2>1, <2>2, KindsOf DEF DataInv, Longer
  <2>9. EarlyInv' BY <1>8, <2>1, <2>2, KindsOf DEF Inv, Rules, EarlyInv, Longer
  <2> QED BY <1>4, <1>6, <2>3, <2>4, <2>5, <2>6, <2>7, <2>8, <2>9 DEF Rules
<1>11. CASE ConnectSucceeds(a)
  <2>1. PICK k, x : /\ x \in Connected /\ Longer(t'.calls, k, x)
                    /\ \/ k = a.calls /\ ~Undecoded(t')
                       \/ \E p \in Again : Longer(k, a.calls, p)
    BY <1>11 DEF ConnectSucceeds
  <2>2. /\ Tls' = "CONNECTED" /\ t'.d.handler = "data" /\ ~t'.d.sending /\ a.calls = <<>>
        /\ Handed(t'.d, a, a.calls)
    BY <1>5, <1>11 DEF ConnectSucceeds, Working
  <2>3. /\ \A S : ~Has(a.calls, S) /\ One(a.calls, S)
        /\ Led(a.calls) /\ Late(a.calls)
    BY <2>2, QueueEmpty
  <2>4. x \in Calls /\ x.layer = "codec" /\ x.fn = "connect" /\ x.st = "OK"
    BY <2>1 DEF Connected, With, Kind
  <2>5. Again \subseteq Calls BY DEF Again, Kind
  <2>6. /\ ~Has(k, Messages) /\ ~Has(k, Connects) /\ ~Has(k, Inits) /\ ~Has(k, Requests)
        /\ ~Has(k, Starts) /\ ~Has(k, Kind("io", "init")) /\ ~Has(k, Told) /\ Led(k)
        /\ Late(k) /\ ~Has(k, Gone) /\ ~Has(k, Tokens) /\ ~Has(k, Kind("tls", "connect"))
        /\ Undecoded(t') => Has(k, Again)
    <3>1. CASE k = a.calls /\ ~Undecoded(t') BY <2>3, <3>1
    <3>2. ASSUME NEW p \in Again, Longer(k, a.calls, p)
          PROVE  /\ ~Has(k, Messages) /\ ~Has(k, Connects) /\ ~Has(k, Inits)
                 /\ ~Has(k, Requests) /\ ~Has(k, Starts) /\ ~Has(k, Kind("io", "init"))
                 /\ ~Has(k, Told) /\ Led(k) /\ Late(k) /\ ~Has(k, Gone) /\ ~Has(k, Tokens)
                 /\ ~Has(k, Kind("tls", "connect")) /\ Has(k, Again)
      <4>1. p \in Calls BY <2>5
      <4> QED BY <2>3, <3>2, <4>1, KindsOf DEF Longer
    <3> QED BY <2>1, <3>1, <3>2
  <2>7. /\ ~Has(t'.calls, Messages) /\ ~Has(t'.calls, Inits) /\ ~Has(t'.calls, Requests)
        /\ ~Has(t'.calls, Starts) /\ ~Has(t'.calls, Kind("io", "init"))
        /\ ~Has(t'.calls, Told) /\ Led(t'.calls) /\ Late(t'.calls) /\ ~Has(t'.calls, Gone)
        /\ ~Has(t'.calls, Tokens) /\ ~Has(t'.calls, Kind("tls", "connect"))
        /\ Has(t'.calls, Connected)
    BY <2>1, <2>4, <2>6, KindsOf DEF Longer
  <2>8. Undecoded(t') => Has(t'.calls, Again) BY <2>1, <2>6 DEF Longer
  <2>9. t'.io # "blocked" /\ t'.d.write = "NONE"
    BY <1>4, <1>8, <2>2
  <2>10. ConnectingInv' BY <2>2, <2>7 DEF ConnectingInv
  <2>11. StartInv' BY <1>4, <1>6, <2>7 DEF StartInv
  <2>12. EndInv' BY <1>1, <2>7 DEF EndInv
  <2>13. TokenInv' BY <2>2, <2>7, <2>9, QueueWithout DEF TokenInv
  <2>14. PushInv' BY <1>4, <2>2, <2>7, QueueWithout DEF PushInv
  <2>15. DataInv'
    <3>1. Undecoded(t)' => Undecoded(t') BY DEF Undecoded
    <3> QED BY <2>2, <2>7, <2>8, <3>1 DEF DataInv
  <2>16. EarlyInv' BY <2>7 DEF Inv, Rules, EarlyInv
  <2> QED BY <1>4, <1>6, <2>10, <2>11, <2>12, <2>13, <2>14, <2>15, <2>16 DEF Rules
<1> QED BY <1>3, <1>9, <1>10, <1>11


(* Sending: the library is given the message, or has written all of it.     *)
SendWaits(a) ==
  /\ t'.d.send /\ t'.d.to_write = a.d.to_write
  /\ \E m : Handed(t'.d, a, m) /\ t'.calls = m
SendEnds(a) ==
  /\ ~t'.d.send /\ ~t'.d.to_write /\ ~t'.d.sending
  /\ Handed(t'.d, a, a.calls) /\ Calling(a.calls, "codec", "push")

LEMMA HandlesSend ==
  ASSUME NEW a \in Memory, Matched(a.d), a.d.to_write, a.d.there, a.layer["tls"] = "CONNECTED",
         NEW bad \in BOOLEAN, Becomes(SendHandler(a, bad))
  PROVE  /\ Stays(a) /\ Tls' = "CONNECTED" /\ t'.d.handler = a.d.handler
         /\ t'.d.raw = a.d.raw /\ t'.d.lib = a.d.lib
         /\ SendWaits(a) \/ SendEnds(a)
<1> DEFINE b == LibWrite(a, bad)
           d == [b EXCEPT !.d.to_write = FALSE, !.d.send = FALSE]
           w == [b EXCEPT !.d.send = TRUE]
           st == IF b.ret = "ERROR" THEN "FAILED" ELSE "WRITTEN"
<1>1. ~NotUsable(a) /\ Check(a, a.d.to_write, "to_write") = a
  BY DEF NotUsable, NotOperational, Check
<1>2. Becomes(IF b.ret = "WANT_WRITE" THEN w ELSE Upwards(d, "push", 0, st))
  BY <1>1 DEF SendHandler
<1>3. /\ LibKeeps(b, a) /\ b.d.lib = a.d.lib /\ b.d.raw = a.d.raw
      /\ b.ret # "WANT_WRITE" => b.calls = a.calls /\ ~b.d.sending
  <2> HIDE DEF b
  <2>1. b = LibWrite(a, bad) BY DEF b
  <2> QED BY <2>1, WritesLib
<1> HIDE DEF b
<1>4. Handed(b.d, a, b.calls) /\ b \in Memory BY <1>3, HandedDown DEF LibKeeps
<1>5. /\ b.layer["tls"] = "CONNECTED" /\ b.io_data = a.io_data /\ b.io = a.io
      /\ b.event = a.event /\ b.file = a.file /\ b.broken = a.broken
      /\ b.d.there = a.d.there /\ b.d.rm = a.d.rm /\ b.d.lib.there = a.d.lib.there
      /\ b.d.to_write = a.d.to_write /\ b.d.handler = a.d.handler
  BY <1>3 DEF LibKeeps, Rest, Kept
<1> DEFINE Alike(f, s, to) ==
             /\ f \in Memory /\ f.calls = b.calls /\ f.layer = b.layer /\ Rest(f) = Rest(b)
             /\ f.d.there = b.d.there /\ f.d.rm = b.d.rm /\ f.d.lib = b.d.lib
             /\ f.d.raw = b.d.raw /\ f.d.send = s /\ f.d.to_write = to
             /\ f.d.write = b.d.write /\ f.d.sending = b.d.sending
             /\ f.d.handler = b.d.handler
<1>6. Alike(d, FALSE, FALSE)
  <2>1. d \in Memory BY <1>4 DEF Memory, Data
  <2>2. d.calls = b.calls /\ d.layer = b.layer /\ Rest(d) = Rest(b) BY <1>4 DEF Memory, Rest
  <2>3. d.d = [b.d EXCEPT !.to_write = FALSE, !.send = FALSE] BY <1>4 DEF Memory
  <2> HIDE DEF d
  <2> QED BY <2>1, <2>2, <2>3, <1>4 DEF Memory, Data
<1>7. Alike(w, TRUE, b.d.to_write)
  <2>1. w \in Memory BY <1>4 DEF Memory, Data
  <2>2. w.calls = b.calls /\ w.layer = b.layer /\ Rest(w) = Rest(b) BY <1>4 DEF Memory, Rest
  <2>3. w.d = [b.d EXCEPT !.send = TRUE] BY <1>4 DEF Memory
  <2> HIDE DEF w
  <2> QED BY <2>1, <2>2, <2>3, <1>4 DEF Memory, Data
<1> HIDE DEF d, w
<1>8. ASSUME NEW f, NEW s, NEW to, Alike(f, s, to), t'.d = f.d, t'.io_data = f.io_data,
             t'.io = f.io, t'.event = f.event, t'.file = f.file, t'.broken = f.broken,
             t' \in Memory
      PROVE  /\ Stays(a) /\ t'.d.send = s /\ t'.d.to_write = to /\ t'.d.handler = a.d.handler
             /\ t'.d.raw = a.d.raw /\ t'.d.lib = a.d.lib /\ t'.d.sending = b.d.sending
             /\ Handed(t'.d, a, b.calls)
  <2>1. t'.d.sending = b.d.sending /\ t'.d.write = b.d.write BY <1>8
  <2>2. Handed(t'.d, a, b.calls) BY <2>1, <1>4 DEF Handed, Matched
  <2>3. Stays(a) BY <1>5, <1>8 DEF Stays, Rest
  <2> QED BY <1>3, <1>5, <1>8, <2>1, <2>2, <2>3
<1>9. CASE b.ret = "WANT_WRITE"
  <2>1. Becomes(w) BY <1>2, <1>9
  <2>2. Ended(w) BY <1>7, <2>1, EndsIn
  <2>3. /\ t' \in Memory /\ t'.calls = b.calls /\ Tls' = "CONNECTED"
        /\ t'.d = w.d /\ t'.io_data = w.io_data /\ t'.io = w.io /\ t'.event = w.event
        /\ t'.file = w.file /\ t'.broken = w.broken
    BY <1>5, <1>7, <2>2 DEF Ended
  <2> HIDE DEF Alike
  <2>4. /\ Stays(a) /\ t'.d.send = TRUE /\ t'.d.to_write = b.d.to_write
        /\ t'.d.handler = a.d.handler /\ t'.d.raw = a.d.raw /\ t'.d.lib = a.d.lib
        /\ Handed(t'.d, a, b.calls)
    BY <1>7, <1>8, <2>3
  <2>5. SendWaits(a) BY <1>5, <2>3, <2>4 DEF SendWaits
  <2> QED BY <2>3, <2>4, <2>5
<1>10. CASE b.ret # "WANT_WRITE"
  <2>1. Becomes(ContinueWith(d, "tls", "push", "codec", 0, st)) BY <1>2, <1>10 DEF Upwards
  <2>2. st \in Statuses /\ "push" \in FunctionNames BY DEF Statuses, FunctionNames
  <2> HIDE DEF st
  <2>3. PassedOn(d, "tls", [layer |-> "codec", fn |-> "push", arg |-> 0, st |-> st],
                 NextLayerState("push", d.layer["tls"], st))
    BY <1>6, <2>1, <2>2, PassesOn
  <2>4. PICK x : /\ x.layer = "codec" /\ x.fn = "push"
                 /\ PassedOn(d, "tls", x, NextLayerState("push", d.layer["tls"], st))
    BY <2>3
  <2>5. NextLayerState("push", d.layer["tls"], st) = "CONNECTED"
    BY <1>5, <1>6 DEF NextLayerState
  <2>6. /\ t' \in Memory /\ x \in Calls /\ Longer(t'.calls, a.calls, x) /\ Tls' = "CONNECTED"
        /\ t'.d = d.d /\ t'.io_data = d.io_data /\ t'.io = d.io /\ t'.event = d.event
        /\ t'.file = d.file /\ t'.broken = d.broken
    BY <1>3, <1>6, <1>10, <2>4, <2>5 DEF PassedOn
  <2>7. Calling(a.calls, "codec", "push") BY <2>4, <2>6 DEF Calling
  <2> HIDE DEF Alike
  <2>8. /\ Stays(a) /\ t'.d.send = FALSE /\ t'.d.to_write = FALSE
        /\ t'.d.handler = a.d.handler /\ t'.d.raw = a.d.raw /\ t'.d.lib = a.d.lib
        /\ t'.d.sending = b.d.sending /\ Handed(t'.d, a, b.calls)
    BY <1>6, <1>8, <2>6
  <2>9. SendEnds(a) BY <1>3, <1>10, <2>7, <2>8 DEF SendEnds
  <2> QED BY <2>6, <2>8, <2>9
<1> QED BY <1>9, <1>10

LEMMA SendRight ==
  ASSUME Inv, NEW a, Working(a), a.d.raw = t.d.raw, a.d.to_write,
         Tls = "CONNECTED", t.d.there, Call.fn = "push", ~(Call \in Tokens) => ~t.d.to_write,
         NEW bad \in BOOLEAN, Becomes(SendHandler(a, bad)), up' = up
  PROVE  t' \in Memory /\ Rules'
<1>1. /\ ~t.d.rm.there /\ t.d.lib.there /\ t.d.handler = "data" /\ t.broken = {}
      /\ t.file = t.d.rm.open /\ ~Has(t.calls, Kind("tls", "connect"))
  BY DEF Inv, Rules, LayerInv, ConnectingInv
<1>2. Matched(a.d)
  <2>1. Call \in Tokens => t.d.write = "WRITING"
    BY DEF Working, Shorter, Inv, Rules, TokenInv
  <2> QED BY <2>1 DEF Working, Inv, Rules, TokenInv, Matched
<1>3. /\ Stays(a) /\ Tls' = "CONNECTED" /\ t'.d.handler = a.d.handler
      /\ t'.d.raw = a.d.raw /\ t'.d.lib = a.d.lib
      /\ SendWaits(a) \/ SendEnds(a)
  BY <1>2, HandlesSend DEF Working
<1>4. /\ t' \in Memory /\ t'.io_data = t.io_data /\ t'.io = t.io /\ t'.event = t.event
      /\ t'.file = t.file /\ t'.broken = t.broken /\ t'.d.there /\ t'.d.rm = t.d.rm
      /\ t'.d.lib.there /\ ~t'.d.rm.there /\ t'.d.handler = "data"
      /\ t'.d.raw = t.d.raw /\ t'.d.lib = t.d.lib
  BY <1>1, <1>3 DEF Stays, Working
<1>5. /\ Shorter(t.calls, Call, a.calls) /\ Call \in Calls /\ Call.layer = "tls"
      /\ Call.fn = "push" /\ t.calls # <<>>
  BY DEF Working
<1>6. LayerInv' /\ LoadInv' /\ t.io # "connecting"
  <2>1. LayerInv' BY <1>3, <1>4 DEF Inv, Rules, LayerInv
  <2>2. LoadInv' BY <1>4 DEF LoadInv
  <2>3. t.io # "connecting" BY <1>5 DEF Inv, Rules, StartInv
  <2> QED BY <2>1, <2>2, <2>3
\* What is left to be called.
<1>7. /\ ~Has(a.calls, Inits) /\ ~Has(a.calls, Requests) /\ ~Has(a.calls, Starts)
      /\ ~Has(a.calls, Kind("io", "init")) /\ ~Has(a.calls, Told) /\ Late(a.calls)
      /\ ~Has(a.calls, Kind("tls", "connect")) /\ (Has(a.calls, Gone) => ~t.io_data)
      /\ up.state # "idle" /\ (Undecoded(t) => Has(a.calls, Again)) /\ ~up.early
      /\ (up.state = "opening" => Led(a.calls) /\ Has(a.calls, Connected))
  <2>1. ~Has(a.calls, Inits) /\ ~Has(a.calls, Requests)
    BY <1>1, <1>5, KindsOf DEF Shorter, Inv, Rules, StartInv
  <2>2. ~Has(a.calls, Starts) /\ ~Has(a.calls, Kind("io", "init"))
    <3>1. Has(t.calls, Kind("io", "init")) => Has(t.calls, Starts) BY DEF Has, Starts
    <3>2. ~Has(t.calls, Starts) BY DEF Inv, Rules, StartInv
    <3> QED BY <1>5, <3>1, <3>2 DEF Shorter
  <2>3. ~Has(a.calls, Told) /\ Late(a.calls) /\ up.state # "idle"
    BY <1>5 DEF Shorter, Inv, Rules, EndInv, DataInv
  <2>4. ~Has(a.calls, Kind("tls", "connect")) /\ (Has(a.calls, Gone) => ~t.io_data)
    BY <1>1, <1>5 DEF Shorter, Inv, Rules, EndInv
  <2>5. Undecoded(t) => Has(a.calls, Again)
    BY <1>5, KindsOf DEF Shorter, Inv, Rules, DataInv
  <2>6. ~up.early /\ (up.state = "opening" => Led(a.calls) /\ Has(a.calls, Connected))
    BY <1>5, KindsOf DEF Shorter, Inv, Rules, EarlyInv
  <2> QED BY <2>1, <2>2, <2>3, <2>4, <2>5, <2>6
<1>8. /\ ~Has(a.calls, Messages) /\ One(a.calls, Messages) /\ up.pushing
  <2>1. CASE Call \in Tokens
    <3>1. t.d.write = "WRITING" /\ t.d.sending
      BY <1>5, <2>1 DEF Shorter, Inv, Rules, TokenInv
    <3>2. t.d.to_write /\ ~Has(t.calls, Messages) /\ up.pushing
      BY <3>1 DEF Inv, Rules, PushInv
    <3> QED BY <1>5, <3>2, QueueWithout DEF Shorter
  <2>2. CASE Call \notin Tokens
    <3>1. Call \in Messages BY <1>5, <2>2, KindsOf
    <3>2. Has(t.calls, Messages) /\ One(t.calls, Messages) /\ up.pushing
      BY <1>5, <3>1 DEF Shorter, Inv, Rules, PushInv
    <3> QED BY <1>5, <3>1, <3>2 DEF Shorter
  <2> QED BY <2>1, <2>2
<1>9. ASSUME NEW m, Handed(t'.d, a, m)
      PROVE  /\ m \in Seq(Calls)
             /\ ~Has(m, Messages) /\ One(m, Messages) /\ ~Has(m, Inits) /\ ~Has(m, Requests)
             /\ ~Has(m, Starts) /\ ~Has(m, Kind("io", "init")) /\ ~Has(m, Told)
             /\ Late(m) /\ ~Has(m, Kind("tls", "connect")) /\ (Has(m, Gone) => ~t.io_data)
             /\ (Undecoded(t) => Has(m, Again))
             /\ (up.state = "opening" => Led(m) /\ Has(m, Connected))
             /\ One(m, Tokens) /\ (t.io = "blocked" => ~Has(m, Tokens))
             /\ (Has(m, Tokens) \/ t.io = "blocked" => t'.d.write = "WRITING")
             /\ (t'.d.sending <=> t'.d.write # "NONE")
  <2>1. /\ One(t.calls, Tokens) /\ (t.io = "blocked" => ~Has(t.calls, Tokens))
        /\ (Has(t.calls, Tokens) \/ t.io = "blocked" => t.d.write = "WRITING")
    BY DEF Inv, Rules, TokenInv
  <2>2. /\ One(a.calls, Tokens) /\ (t.io = "blocked" => ~Has(a.calls, Tokens))
        /\ (Has(a.calls, Tokens) \/ t.io = "blocked" => a.d.write = "WRITING")
    BY <2>1, <1>5 DEF Shorter, Working
  <2>3. CASE m = a.calls /\ (a.d.write = "WRITING" => t'.d.write = "WRITING")
    BY <1>7, <1>8, <1>9, <2>2, <2>3 DEF Handed, Matched
  <2>4. ASSUME NEW w \in Calls, w.layer = "io", w.fn = "push", Longer(m, a.calls, w),
               a.d.write # "WRITING", t'.d.write = "WRITING"
        PROVE  /\ ~Has(m, Messages) /\ One(m, Messages) /\ ~Has(m, Inits)
               /\ ~Has(m, Requests) /\ ~Has(m, Starts) /\ ~Has(m, Kind("io", "init"))
               /\ ~Has(m, Told) /\ Late(m) /\ ~Has(m, Kind("tls", "connect"))
               /\ (Has(m, Gone) => ~t.io_data) /\ (Undecoded(t) => Has(m, Again))
               /\ (up.state = "opening" => Led(m) /\ Has(m, Connected))
               /\ One(m, Tokens) /\ (t.io = "blocked" => ~Has(m, Tokens))
    BY <1>7, <1>8, <2>2, <2>4, KindsOf DEF Longer
  <2> QED BY <1>9, <2>3, <2>4 DEF Handed, Matched
<1>10. Undecoded(t)' => Undecoded(t) BY <1>4 DEF Undecoded
<1>11. CASE SendWaits(a)
  <2>1. PICK m : Handed(t'.d, a, m) /\ t'.calls = m BY <1>11 DEF SendWaits
  <2>2. t'.d.send /\ t'.d.to_write BY <1>11 DEF SendWaits
  <2>3. ConnectingInv' BY <1>3, <1>4, <1>9, <2>1 DEF ConnectingInv
  <2>4. StartInv' BY <1>4, <1>6, <1>9, <2>1 DEF StartInv
  <2>5. EndInv' BY <1>4, <1>7, <1>9, <2>1 DEF EndInv
  <2>6. TokenInv' BY <1>4, <1>9, <2>1 DEF TokenInv
  <2>7. PushInv' BY <1>8, <1>9, <2>1, <2>2 DEF PushInv
  <2>8. DataInv' BY <1>3, <1>9, <1>10, <2>1 DEF DataInv
  <2>9. EarlyInv' BY <1>7, <1>9, <2>1 DEF EarlyInv
  <2> QED BY <1>4, <1>6, <2>3, <2>4, <2>5, <2>6, <2>7, <2>8, <2>9 DEF Rules
<1>12. CASE SendEnds(a)
  <2>1. PICK x \in Calls : x.layer = "codec" /\ x.fn = "push" /\ Longer(t'.calls, a.calls, x)
    BY <1>12 DEF SendEnds, Calling
  <2>2. ~t'.d.send /\ ~t'.d.to_write /\ ~t'.d.sending /\ Handed(t'.d, a, a.calls)
    BY <1>12 DEF SendEnds
  <2>3. ConnectingInv' BY <1>3, <1>4, <1>9, <2>1, <2>2, KindsOf DEF ConnectingInv, Longer
  <2>4. StartInv' BY <1>4, <1>6, <1>9, <2>1, <2>2, KindsOf DEF StartInv, Longer
  <2>5. EndInv' BY <1>4, <1>7, <1>9, <2>1, <2>2, KindsOf DEF EndInv, Longer
  <2>6. TokenInv' BY <1>4, <1>9, <2>1, <2>2, KindsOf DEF TokenInv, Longer
  <2>7. PushInv' BY <1>8, <2>1, <2>2, KindsOf DEF PushInv, Longer
  <2>8. DataInv' BY <1>3, <1>9, <1>10, <2>1, <2>2, KindsOf DEF DataInv, Longer
  <2>9. EarlyInv' BY <1>7, <1>9, <2>1, <2>2, KindsOf DEF EarlyInv, Longer
  <2> QED BY <1>4, <1>6, <2>3, <2>4, <2>5, <2>6, <2>7, <2>8, <2>9 DEF Rules
<1> QED BY <1>3, <1>11, <1>12


(* Receiving: the library waits for more, has decoded a buffer, or gives up. *)
RecvWaits(a) ==
  /\ Tls' = "CONNECTED" /\ Handed(t'.d, a, a.calls) /\ t'.calls = a.calls /\ ~Undecoded(t')
  /\ t'.d.sending = a.d.sending /\ t'.d.write = a.d.write
RecvFails(a) ==
  /\ Tls' = "CLOSING"
  /\ \E m : Handed(t'.d, a, m) /\ Calling(m, "tls", "close")
RecvSucceeds(a) ==
  /\ Tls' = "CONNECTED" /\ Handed(t'.d, a, a.calls)
  /\ t'.d.sending = a.d.sending /\ t'.d.write = a.d.write
  /\ \E k : /\ Calling(k, "codec", "pull")
            /\ \/ k = a.calls /\ ~Undecoded(t')
               \/ \E p \in Again : Longer(k, a.calls, p)

LEMMA HandlesRecv ==
  ASSUME NEW a \in Memory, Matched(a.d), a.d.there, a.layer["tls"] = "CONNECTED",
         NEW bad \in BOOLEAN, Becomes(RecvHandler(a, bad))
  PROVE  /\ Stays(a) /\ t'.d.handler = a.d.handler
         /\ t'.d.send = a.d.send /\ t'.d.to_write = a.d.to_write
         /\ RecvWaits(a) \/ RecvFails(a) \/ RecvSucceeds(a)
<1> DEFINE b == LibRead(a, bad)
           e == IF Undecoded(b) THEN Itself(b, "pull", "WANT_READ") ELSE b
<1>1. ~NotUsable(a) BY DEF NotUsable, NotOperational
<1>2. Becomes(IF b.ret = "WANT_READ" THEN b
              ELSE IF b.ret = "ERROR" THEN Itself(b, "close", "ERR")
              ELSE Upwards(e, "pull", 1, "OK"))
  BY <1>1 DEF RecvHandler
<1>3. /\ LibKeeps(b, a) /\ b.ret \in {"OK", "WANT_READ", "ERROR"}
      /\ b.ret # "ERROR" => /\ b.calls = a.calls /\ b.d.write = a.d.write
                            /\ b.d.sending = a.d.sending
      /\ b.ret = "WANT_READ" => ~Undecoded(b)
  <2> HIDE DEF b
  <2>1. b = LibRead(a, bad) BY DEF b
  <2> QED BY <2>1, ReadsLib
<1> HIDE DEF b
<1>4. Handed(b.d, a, b.calls) /\ b \in Memory BY <1>3, HandedDown DEF LibKeeps
<1>5. /\ b.layer["tls"] = "CONNECTED" /\ b.io_data = a.io_data /\ b.io = a.io
      /\ b.event = a.event /\ b.file = a.file /\ b.broken = a.broken
      /\ b.d.there = a.d.there /\ b.d.rm = a.d.rm /\ b.d.lib.there = a.d.lib.there
      /\ b.d.send = a.d.send /\ b.d.to_write = a.d.to_write /\ b.d.handler = a.d.handler
  BY <1>3 DEF LibKeeps, Rest, Kept
<1>6. ASSUME t'.d = b.d, t'.io_data = b.io_data, t'.io = b.io, t'.event = b.event,
             t'.file = b.file, t'.broken = b.broken, t' \in Memory
      PROVE  /\ Stays(a) /\ t'.d.handler = a.d.handler
             /\ t'.d.send = a.d.send /\ t'.d.to_write = a.d.to_write
             /\ Handed(t'.d, a, b.calls) /\ (Undecoded(t') <=> Undecoded(b))
             /\ (b.ret # "ERROR" => t'.d.write = a.d.write /\ t'.d.sending = a.d.sending)
  <2>1. Stays(a) BY <1>5, <1>6 DEF Stays
  <2>2. Undecoded(t') <=> Undecoded(b) BY <1>6 DEF Undecoded
  <2> QED BY <1>3, <1>4, <1>5, <1>6, <2>1, <2>2
<1>7. /\ {"close", "pull"} \subseteq FunctionNames
      /\ {"OK", "ERR", "WANT_READ"} \subseteq Statuses
  BY DEF FunctionNames, Statuses
<1>8. CASE b.ret = "WANT_READ"
  <2>1. Becomes(b) BY <1>2, <1>8
  <2>2. Ended(b) BY <1>4, <2>1, EndsIn
  <2>3. /\ t' \in Memory /\ t'.calls = b.calls /\ Tls' = "CONNECTED"
        /\ t'.d = b.d /\ t'.io_data = b.io_data /\ t'.io = b.io /\ t'.event = b.event
        /\ t'.file = b.file /\ t'.broken = b.broken
    BY <1>5, <2>2 DEF Ended
  <2>4. /\ Stays(a) /\ t'.d.handler = a.d.handler
        /\ t'.d.send = a.d.send /\ t'.d.to_write = a.d.to_write
        /\ Handed(t'.d, a, b.calls) /\ (Undecoded(t') <=> Undecoded(b))
        /\ t'.d.write = a.d.write /\ t'.d.sending = a.d.sending
    BY <1>6, <1>8, <2>3
  <2>5. RecvWaits(a) BY <1>3, <1>8, <2>3, <2>4 DEF RecvWaits
  <2> QED BY <2>4, <2>5
<1>9. CASE b.ret = "ERROR"
  <2>1. Becomes(ContinueWith(b, "tls", "close", "tls", 0, "ERR"))
    BY <1>2, <1>9 DEF Itself, OnThis
  <2>2. PICK x : /\ x.layer = "tls" /\ x.fn = "close"
                 /\ PassedOn(b, "tls", x, NextLayerState("close", b.layer["tls"], "ERR"))
    <3>1. PassedOn(b, "tls", [layer |-> "tls", fn |-> "close", arg |-> 0, st |-> "ERR"],
                   NextLayerState("close", b.layer["tls"], "ERR"))
      BY <1>4, <1>7, <2>1, PassesOn
    <3> QED BY <3>1
  <2>3. NextLayerState("close", b.layer["tls"], "ERR") = "CLOSING"
    BY <1>5 DEF NextLayerState
  <2>4. /\ t' \in Memory /\ x \in Calls /\ Longer(t'.calls, b.calls, x) /\ Tls' = "CLOSING"
        /\ t'.d = b.d /\ t'.io_data = b.io_data /\ t'.io = b.io /\ t'.event = b.event
        /\ t'.file = b.file /\ t'.broken = b.broken
    BY <2>2, <2>3 DEF PassedOn
  <2>5. Calling(b.calls, "tls", "close") BY <2>2, <2>4 DEF Calling
  <2>6. /\ Stays(a) /\ t'.d.handler = a.d.handler
        /\ t'.d.send = a.d.send /\ t'.d.to_write = a.d.to_write
        /\ Handed(t'.d, a, b.calls)
    BY <1>6, <2>4
  <2>7. RecvFails(a) BY <2>4, <2>5, <2>6 DEF RecvFails
  <2> QED BY <2>6, <2>7
<1>10. CASE b.ret = "OK"
  <2>1. Becomes(ContinueWith(e, "tls", "pull", "codec", 1, "OK")) BY <1>2, <1>10 DEF Upwards
  <2>2. /\ e \in Memory /\ e.d = b.d /\ Rest(e) = Rest(b) /\ e.layer["tls"] = "CONNECTED"
        /\ \/ e.calls = a.calls /\ ~Undecoded(b)
           \/ \E p \in Again : Longer(e.calls, a.calls, p)
    <3>1. CASE ~Undecoded(b) BY <3>1, <1>3, <1>4, <1>5, <1>10
    <3>2. CASE Undecoded(b)
      <4> DEFINE p == [layer |-> "tls", fn |-> "pull", arg |-> 0, st |-> "WANT_READ"]
      <4>1. e = ContinueWith(b, "tls", "pull", "tls", 0, "WANT_READ")
        BY <3>2 DEF Itself, OnThis
      <4>2. Queues(ContinueWith(b, "tls", "pull", "tls", 0, "WANT_READ"), b, "tls", p,
                   NextLayerState("pull", b.layer["tls"], "WANT_READ"))
        BY <1>4, <1>7, Continues
      <4>3. NextLayerState("pull", b.layer["tls"], "WANT_READ") = "CONNECTED"
        BY <1>5 DEF NextLayerState
      <4>4. p \in Calls BY <1>7, CallType
      <4>5. p \in Again BY <4>4 DEF Again, Kind
      <4>6. b.layer \in [{"io", "tls", "codec"} -> LayerStates] /\ b.calls \in Seq(Calls)
            /\ b.calls = a.calls
        BY <1>3, <1>4, <1>10 DEF Memory
      <4> HIDE DEF e, p
      <4>7. Longer(Append(b.calls, p), b.calls, p) BY <4>4, <4>6, QueueAppend
      <4> QED BY <4>1, <4>2, <4>3, <4>5, <4>6, <4>7 DEF Queues
    <3> QED BY <3>1, <3>2
  <2> HIDE DEF e
  <2>3. PICK x : /\ x.layer = "codec" /\ x.fn = "pull"
                 /\ PassedOn(e, "tls", x, NextLayerState("pull", e.layer["tls"], "OK"))
    <3>1. PassedOn(e, "tls", [layer |-> "codec", fn |-> "pull", arg |-> 1, st |-> "OK"],
                   NextLayerState("pull", e.layer["tls"], "OK"))
      BY <1>7, <2>1, <2>2, PassesOn
    <3> QED BY <3>1
  <2>4. /\ t' \in Memory /\ x \in Calls /\ Longer(t'.calls, e.calls, x) /\ Tls' = "CONNECTED"
        /\ t'.d = b.d /\ t'.io_data = b.io_data /\ t'.io = b.io /\ t'.event = b.event
        /\ t'.file = b.file /\ t'.broken = b.broken
    BY <2>2, <2>3 DEF PassedOn, Rest, NextLayerState
  <2>5. Calling(e.calls, "codec", "pull") BY <2>3, <2>4 DEF Calling
  <2>6. /\ Stays(a) /\ t'.d.handler = a.d.handler
        /\ t'.d.send = a.d.send /\ t'.d.to_write = a.d.to_write
        /\ Handed(t'.d, a, b.calls) /\ (Undecoded(t') <=> Undecoded(b))
        /\ t'.d.write = a.d.write /\ t'.d.sending = a.d.sending
    BY <1>6, <1>10, <2>4
  <2>7. RecvSucceeds(a) BY <1>3, <1>10, <2>2, <2>4, <2>5, <2>6 DEF RecvSucceeds
  <2> QED BY <2>6, <2>7
<1> QED BY <1>3, <1>8, <1>9, <1>10

LEMMA RecvRight ==
  ASSUME Inv, NEW a, Working(a), a.d.send = t.d.send, a.d.to_write = t.d.to_write,
         Tls = "CONNECTED", t.d.there, Call.fn = "pull",
         NEW bad \in BOOLEAN, Becomes(RecvHandler(a, bad)), up' = up
  PROVE  t' \in Memory /\ Rules'
<1>1. /\ ~t.d.rm.there /\ t.d.lib.there /\ t.d.handler = "data" /\ t.broken = {}
      /\ t.file = t.d.rm.open /\ ~Has(t.calls, Kind("tls", "connect"))
  BY DEF Inv, Rules, LayerInv, ConnectingInv
<1>2. /\ Shorter(t.calls, Call, a.calls) /\ Call \in Calls /\ Call.layer = "tls"
      /\ Call.fn = "pull" /\ t.calls # <<>> /\ Call \notin Tokens /\ a.d.write = t.d.write
      /\ a.d.sending = t.d.sending /\ Matched(a.d)
  <2>1. Call \notin Tokens BY KindsOf DEF Working
  <2> QED BY <2>1 DEF Working, Inv, Rules, TokenInv, Matched
<1>3. /\ Stays(a) /\ t'.d.handler = a.d.handler
      /\ t'.d.send = a.d.send /\ t'.d.to_write = a.d.to_write
      /\ RecvWaits(a) \/ RecvFails(a) \/ RecvSucceeds(a)
  BY <1>2, HandlesRecv DEF Working
<1>4. /\ t' \in Memory /\ t'.io_data = t.io_data /\ t'.io = t.io /\ t'.event = t.event
      /\ t'.file = t.file /\ t'.broken = t.broken /\ t'.d.there /\ t'.d.rm = t.d.rm
      /\ t'.d.lib.there /\ ~t'.d.rm.there /\ t'.d.handler = "data"
      /\ t'.d.send = t.d.send /\ t'.d.to_write = t.d.to_write
  BY <1>1, <1>3 DEF Stays, Working
<1>5. LayerInv' /\ LoadInv' /\ t.io # "connecting"
  <2>1. Tls' \in {"CONNECTED", "CLOSING"}
    BY <1>3 DEF RecvWaits, RecvFails, RecvSucceeds
  <2>2. LayerInv' BY <1>4, <2>1 DEF Inv, Rules, LayerInv
  <2>3. LoadInv' BY <1>4 DEF LoadInv
  <2>4. t.io # "connecting" BY <1>2 DEF Inv, Rules, StartInv
  <2> QED BY <2>2, <2>3, <2>4
\* What is left to be called.
<1>6. /\ ~Has(a.calls, Inits) /\ ~Has(a.calls, Requests) /\ ~Has(a.calls, Starts)
      /\ ~Has(a.calls, Kind("io", "init")) /\ ~Has(a.calls, Told) /\ Late(a.calls)
      /\ ~Has(a.calls, Kind("tls", "connect")) /\ (Has(a.calls, Gone) => ~t.io_data)
      /\ up.state # "idle" /\ ~up.early
      /\ (up.state = "opening" => Led(a.calls) /\ Has(a.calls, Connected))
      /\ One(a.calls, Messages) /\ (Has(a.calls, Messages) => ~t.d.to_write)
      /\ (Has(a.calls, Messages) \/ t.d.to_write => up.pushing)
      /\ (t.d.send \/ t.d.sending => t.d.to_write)
      /\ One(a.calls, Tokens) /\ (t.io = "blocked" => ~Has(a.calls, Tokens))
      /\ (Has(a.calls, Tokens) \/ t.io = "blocked" => a.d.write = "WRITING")
  <2>1. ~Has(a.calls, Inits) /\ ~Has(a.calls, Requests)
    BY <1>1, <1>2, KindsOf DEF Shorter, Inv, Rules, StartInv
  <2>2. ~Has(a.calls, Starts) /\ ~Has(a.calls, Kind("io", "init"))
    <3>1. Has(t.calls, Kind("io", "init")) => Has(t.calls, Starts) BY DEF Has, Starts
    <3>2. ~Has(t.calls, Starts) BY DEF Inv, Rules, StartInv
    <3> QED BY <1>2, <3>1, <3>2 DEF Shorter
  <2>3. ~Has(a.calls, Told) /\ Late(a.calls) /\ up.state # "idle"
    BY <1>2 DEF Shorter, Inv, Rules, EndInv, DataInv
  <2>4. ~Has(a.calls, Kind("tls", "connect")) /\ (Has(a.calls, Gone) => ~t.io_data)
    BY <1>1, <1>2 DEF Shorter, Inv, Rules, EndInv
  <2>5. ~up.early /\ (up.state = "opening" => Led(a.calls) /\ Has(a.calls, Connected))
    BY <1>2, KindsOf DEF Shorter, Inv, Rules, EarlyInv
  <2>6. /\ One(a.calls, Messages) /\ (Has(a.calls, Messages) => ~t.d.to_write)
        /\ (Has(a.calls, Messages) \/ t.d.to_write => up.pushing)
        /\ (t.d.send \/ t.d.sending => t.d.to_write)
    BY <1>2 DEF Shorter, Inv, Rules, PushInv
  <2>7. /\ One(a.calls, Tokens) /\ (t.io = "blocked" => ~Has(a.calls, Tokens))
        /\ (Has(a.calls, Tokens) \/ t.io = "blocked" => a.d.write = "WRITING")
    BY <1>2 DEF Shorter, Inv, Rules, TokenInv
  <2> QED BY <2>1, <2>2, <2>3, <2>4, <2>5, <2>6, <2>7
<1>7. Undecoded(t)' => Undecoded(t') BY DEF Undecoded
<1>8. CASE RecvWaits(a)
  <2>1. /\ t'.calls = a.calls /\ Tls' = "CONNECTED" /\ ~Undecoded(t')
        /\ t'.d.sending = t.d.sending /\ t'.d.write = a.d.write /\ Matched(t'.d)
    BY <1>2, <1>8 DEF RecvWaits, Handed
  <2>2. ConnectingInv' BY <1>4, <1>6, <2>1 DEF ConnectingInv
  <2>3. StartInv' BY <1>4, <1>5, <1>6, <2>1 DEF StartInv
  <2>4. EndInv' BY <1>4, <1>6, <2>1 DEF EndInv
  <2>5. TokenInv' BY <1>4, <1>6, <2>1 DEF TokenInv, Matched
  <2>6. PushInv' BY <1>4, <1>6, <2>1 DEF PushInv
  <2>7. DataInv' BY <1>6, <1>7, <2>1 DEF DataInv
  <2>8. EarlyInv' BY <1>6, <2>1 DEF EarlyInv
  <2> QED BY <1>4, <1>5, <2>2, <2>3, <2>4, <2>5, <2>6, <2>7, <2>8 DEF Rules
<1>9. CASE RecvFails(a)
  <2>1. PICK m, x : /\ Handed(t'.d, a, m) /\ x \in Calls /\ x.layer = "tls" /\ x.fn = "close"
                    /\ Longer(t'.calls, m, x)
    BY <1>9 DEF RecvFails, Calling
  <2>2. Tls' = "CLOSING" BY <1>9 DEF RecvFails
  <2>3. /\ ~Has(m, Inits) /\ ~Has(m, Requests) /\ ~Has(m, Starts)
        /\ ~Has(m, Kind("io", "init")) /\ ~Has(m, Told) /\ Late(m)
        /\ (Has(m, Gone) => ~t.io_data) /\ (up.state = "opening" => Led(m))
        /\ One(m, Tokens) /\ (t.io = "blocked" => ~Has(m, Tokens))
        /\ (Has(m, Tokens) \/ t.io = "blocked" => t'.d.write = "WRITING")
        /\ (t'.d.sending <=> t'.d.write # "NONE")
    <3>1. CASE m = a.calls /\ (a.d.write = "WRITING" => t'.d.write = "WRITING")
      BY <1>6, <2>1, <3>1 DEF Handed, Matched
    <3>2. ASSUME NEW w \in Calls, w.layer = "io", w.fn = "push", Longer(m, a.calls, w),
                 a.d.write # "WRITING", t'.d.write = "WRITING"
          PROVE  /\ ~Has(m, Inits) /\ ~Has(m, Requests) /\ ~Has(m, Starts)
                 /\ ~Has(m, Kind("io", "init")) /\ ~Has(m, Told) /\ Late(m)
                 /\ (Has(m, Gone) => ~t.io_data) /\ (up.state = "opening" => Led(m))
                 /\ One(m, Tokens) /\ (t.io = "blocked" => ~Has(m, Tokens))
      BY <1>6, <3>2, KindsOf DEF Longer
    <3> QED BY <2>1, <3>1, <3>2 DEF Handed, Matched
  <2>4. ConnectingInv' BY <2>2 DEF ConnectingInv
  <2>5. StartInv' BY <1>4, <1>5, <2>1, <2>3, KindsOf DEF StartInv, Longer
  <2>6. EndInv' BY <1>4, <1>6, <2>1, <2>3, KindsOf DEF EndInv, Longer
  <2>7. TokenInv' BY <1>4, <2>1, <2>3, KindsOf DEF TokenInv, Longer
  <2>8. PushInv' BY <2>2 DEF PushInv
  <2>9. DataInv'
    <3>1. x \in Ends BY <2>1 DEF Ends, Closes, Kind
    <3>2. Late(t'.calls) BY <2>1, <2>3, KindsOf DEF Longer
    <3> QED BY <2>1, <2>2, <3>1, <3>2 DEF DataInv, Longer
  <2>10. EarlyInv' BY <1>6, <2>1, <2>2, <2>3, KindsOf DEF EarlyInv, Longer
  <2> QED BY <1>4, <1>5, <2>4, <2>5, <2>6, <2>7, <2>8, <2>9, <2>10 DEF Rules
<1>10. CASE RecvSucceeds(a)
  <2>1. PICK k, x : /\ x \in Calls /\ x.layer = "codec" /\ x.fn = "pull"
                    /\ Longer(t'.calls, k, x)
                    /\ \/ k = a.calls /\ ~Undecoded(t')
                       \/ \E p \in Again : Longer(k, a.calls, p)
    BY <1>10 DEF RecvSucceeds, Calling
  <2>2. /\ Tls' = "CONNECTED" /\ t'.d.sending = t.d.sending /\ t'.d.write = a.d.write
        /\ Matched(t'.d)
    BY <1>2, <1>10 DEF RecvSucceeds, Handed
  <2>3. Again \subseteq Calls BY DEF Again, Kind
  <2>4. /\ ~Has(k, Inits) /\ ~Has(k, Requests) /\ ~Has(k, Starts)
        /\ ~Has(k, Kind("io", "init")) /\ ~Has(k, Told) /\ Late(k)
        /\ ~Has(k, Kind("tls", "connect")) /\ (Has(k, Gone) => ~t.io_data)
        /\ (up.state = "opening" => Led(k) /\ Has(k, Connected))
        /\ One(k, Messages) /\ (Has(k, Messages) => ~t.d.to_write)
        /\ (Has(k, Messages) \/ t.d.to_write => up.pushing)
        /\ One(k, Tokens) /\ (t.io = "blocked" => ~Has(k, Tokens))
        /\ (Has(k, Tokens) \/ t.io = "blocked" => a.d.write = "WRITING")
        /\ (Undecoded(t') => Has(k, Again))
    <3>1. CASE k = a.calls /\ ~Undecoded(t') BY <1>6, <3>1
    <3>2. ASSUME NEW p \in Again, Longer(k, a.calls, p)
          PROVE  /\ ~Has(k, Inits) /\ ~Has(k, Requests) /\ ~Has(k, Starts)
                 /\ ~Has(k, Kind("io", "init")) /\ ~Has(k, Told) /\ Late(k)
                 /\ ~Has(k, Kind("tls", "connect")) /\ (Has(k, Gone) => ~t.io_data)
                 /\ (up.state = "opening" => Led(k) /\ Has(k, Connected))
                 /\ One(k, Messages) /\ (Has(k, Messages) => ~t.d.to_write)
                 /\ (Has(k, Messages) \/ t.d.to_write => up.pushing)
                 /\ One(k, Tokens) /\ (t.io = "blocked" => ~Has(k, Tokens))
                 /\ (Has(k, Tokens) \/ t.io = "blocked" => a.d.write = "WRITING")
                 /\ Has(k, Again)
      <4>1. p \in Calls BY <2>3
      <4> QED BY <1>6, <3>2, <4>1, KindsOf DEF Longer
    <3> QED BY <2>1, <3>1, <3>2
  <2>5. ConnectingInv' BY <1>4, <2>1, <2>2, <2>4, KindsOf DEF ConnectingInv, Longer
  <2>6. StartInv' BY <1>4, <1>5, <2>1, <2>4, KindsOf DEF StartInv, Longer
  <2>7. EndInv' BY <1>4, <1>6, <2>1, <2>4, KindsOf DEF EndInv, Longer
  <2>8. TokenInv' BY <1>4, <2>1, <2>2, <2>4, KindsOf DEF TokenInv, Longer, Matched
  <2>9. PushInv' BY <1>4, <1>6, <2>1, <2>2, <2>4, KindsOf DEF PushInv, Longer
  <2>10. DataInv' BY <1>7, <2>1, <2>2, <2>4, KindsOf DEF DataInv, Longer
  <2>11. EarlyInv' BY <1>6, <2>1, <2>4, KindsOf DEF EarlyInv, Longer
  <2> QED BY <1>4, <1>5, <2>5, <2>6, <2>7, <2>8, <2>9, <2>10, <2>11 DEF Rules
<1> QED BY <1>3, <1>8, <1>9, <1>10


-----------------------------------------------------------------------------
(* The calls that go on with the handshake or with the data.                *)
\* The news that connecting failed is handed on.
LEMMA FailureRight ==
  ASSUME Inv, Taking(Popped, "tls", "connect"), Call.st # "OK",
         Becomes(Upwards(Popped, "connect", 0, Call.st)), up' = up
  PROVE  t' \in Memory /\ Rules'
<1> DEFINE a == Popped
<1>1. "connect" \in FunctionNames BY DEF FunctionNames
<1>2. PassedOn(a, "tls", [layer |-> "codec", fn |-> "connect", arg |-> 0, st |-> Call.st],
               NextLayerState("connect", a.layer["tls"], Call.st))
  BY <1>1, PassesOn DEF Upwards, Taking
<1>3. PICK x : /\ x.layer = "codec" /\ x.fn = "connect" /\ x.st = Call.st
               /\ PassedOn(a, "tls", x, "CLOSED")
  BY <1>2 DEF NextLayerState
<1> HIDE DEF a
<1>4. /\ t' \in Memory /\ Tls' = "CLOSED" /\ t'.d = t.d /\ t'.io_data = t.io_data /\ t'.io = t.io
      /\ t'.event = t.event /\ t'.file = t.file /\ t'.broken = t.broken
      /\ x \in Calls /\ Longer(t'.calls, a.calls, x)
  BY <1>3 DEF PassedOn, Taking, a
<1>5. /\ Shorter(t.calls, Call, a.calls) /\ Call \in Calls /\ Call.layer = "tls"
      /\ Call.fn = "connect" /\ t.calls # <<>>
  BY DEF Taking, a
<1>6. Tls # "CONNECTED"
  BY <1>5, KindsOf DEF Shorter, Inv, Rules, ConnectingInv
<1>7. up' = up /\ x.layer = "codec" /\ x.fn = "connect" /\ x.st = Call.st /\ Call.st # "OK"
  BY <1>3
<1>10. LayerInv'
  BY <1>4, <1>5, <1>6, <1>7, KindsOf
  DEF Shorter, Longer, Inv, Rules, LayerInv
<1>11. ConnectingInv'
  BY <1>4, <1>5, <1>6, <1>7, KindsOf
  DEF Shorter, Longer, Inv, Rules, LayerInv, ConnectingInv, AtWrite
<1>12. StartInv'
  BY <1>4, <1>5, <1>6, <1>7, KindsOf
  DEF Shorter, Longer, Inv, Rules, LayerInv, StartInv
<1>13. LoadInv'
  BY <1>4, <1>5, <1>6, <1>7, KindsOf
  DEF Shorter, Longer, Inv, Rules, LayerInv, LoadInv, Asked, Answered, Failed, Releasing,
      Waits
<1>14. EndInv'
  BY <1>4, <1>5, <1>6, <1>7, KindsOf
  DEF Shorter, Longer, Inv, Rules, LayerInv, StartInv, EndInv
<1>15. TokenInv'
  BY <1>4, <1>5, <1>6, <1>7, KindsOf
  DEF Shorter, Longer, Inv, Rules, LayerInv, TokenInv
<1>16. PushInv'
  BY <1>4, <1>5, <1>6, <1>7, KindsOf
  DEF Shorter, Longer, Inv, Rules, LayerInv, PushInv
<1>17. DataInv'
  BY <1>4, <1>5, <1>6, <1>7, KindsOf
  DEF Shorter, Longer, Inv, Rules, LayerInv, ConnectingInv, DataInv, Undecoded
<1>18. EarlyInv'
  BY <1>4, <1>5, <1>6, <1>7, KindsOf
  DEF Shorter, Longer, Inv, Rules, LayerInv, EarlyInv
<1> QED BY <1>4, <1>10, <1>11, <1>12, <1>13, <1>14, <1>15, <1>16, <1>17, <1>18
       DEF Rules

LEMMA ConnectCalledRight ==
  ASSUME Inv, TlsConnect
  PROVE  t' \in Memory /\ Rules'
<1> DEFINE a == Popped
<1>1. PICK bad \in BOOLEAN : Becomes(ConnectCalled(a, Call.st, bad)) BY DEF TlsConnect
<1>2. Called("tls", "connect") /\ up' = up BY DEF TlsConnect
<1>3. Taking(a, "tls", "connect") BY <1>2, Takes
<1>4. CASE Call.st # "OK"
  <2>1. Becomes(Upwards(a, "connect", 0, Call.st)) BY <1>1, <1>4 DEF ConnectCalled
  <2> QED BY <1>2, <1>3, <1>4, <2>1, FailureRight
<1>5. CASE Call.st = "OK"
  <2>1. Call \in Starts BY <1>3, <1>5, KindsOf DEF Taking
  <2>2. Tls = "CONNECTING" BY <1>3, <2>1 DEF Taking, Shorter, Inv, Rules, StartInv
  <2>3. t.d.there BY <2>2 DEF Inv, Rules, LayerInv
  <2>4. ~NotUsable(a) BY <1>3, <2>2, <2>3 DEF NotUsable, NotOperational, Taking
  <2>5. Becomes(ConnectHandler(a, bad)) BY <1>1, <1>5, <2>4 DEF ConnectCalled
  <2>6. Call \notin Tokens BY <1>3, KindsOf DEF Taking
  <2>7. /\ Working(a) /\ a.d.send = t.d.send /\ a.d.to_write = t.d.to_write
        /\ Call.fn = "connect"
    BY <1>3, <2>6 DEF Working, Taking
  <2> HIDE DEF a
  <2> QED BY <1>2, <2>2, <2>3, <2>5, <2>7, ConnectRight
<1> QED BY <1>4, <1>5

LEMMA PushCalledRight ==
  ASSUME Inv, TlsPush
  PROVE  t' \in Memory /\ Rules'
<1> DEFINE a == Popped
           w == [a EXCEPT !.d.write = "WRITTEN"]
           n == [a EXCEPT !.d.to_write = TRUE]
<1>1. PICK bad \in BOOLEAN : Becomes(PushHandler(a, Call.st, bad)) BY DEF TlsPush
<1>2. Called("tls", "push") /\ up' = up BY DEF TlsPush
<1>3. Taking(a, "tls", "push") BY <1>2, Takes
<1>4. CASE NotUsable(a)
  <2>1. Becomes(a) BY <1>1, <1>4 DEF PushHandler
  <2>2. Ended(a) BY <1>3, <2>1, EndsIn DEF Taking
  <2>3. Tls \in {"CLOSING", "CLOSED"} \/ ~t.d.there
    BY <1>3, <1>4 DEF NotUsable, NotOperational, Taking
  <2> QED BY <1>2, <1>3, <2>2, <2>3, DroppedRight
<1>5. ASSUME ~NotUsable(a)
      PROVE  /\ t.d.there /\ ~t.d.rm.there /\ Tls \in {"CONNECTING", "CONNECTED"}
             /\ t.d.handler = (IF Tls = "CONNECTING" THEN "connect" ELSE "data")
  <2>1. t.d.there /\ Tls \notin {"CLOSING", "CLOSED"}
    BY <1>3, <1>5 DEF NotUsable, NotOperational, Taking
  <2>2. ~t.d.rm.there
    BY <1>3, KindsOf
    DEF Taking, Shorter, Inv, Rules, LoadInv, Asked, Answered, Failed, Releasing, Waits
  <2>3. Tls \in LayerStates BY <1>3 DEF Taking, Memory, Tls
  <2>4. Tls \in {"CONNECTING", "CONNECTED"}
    BY <2>1, <2>2, <2>3 DEF LayerStates, Inv, Rules, LayerInv
  <2> QED BY <2>1, <2>2, <2>4 DEF Inv, Rules, ConnectingInv
<1>6. CASE ~NotUsable(a) /\ Call.st = "WRITTEN"
  <2>1. Call \in Tokens BY <1>3, <1>6, KindsOf DEF Taking
  <2>2. t.d.there /\ Tls \in {"CONNECTING", "CONNECTED"} BY <1>5, <1>6
  <2>3. t.d.write = "WRITING" /\ t.d.sending
    BY <1>3, <2>1, <2>2 DEF Taking, Shorter, Inv, Rules, TokenInv
  <2>4. Check(a, a.d.write = "WRITING", "written") = a BY <1>3, <2>3 DEF Check, Taking
  <2>5. Becomes(LogicSendHandler(w, bad)) BY <1>1, <1>6, <2>4 DEF PushHandler
  <2>6. /\ Working(w) /\ w.d.send = t.d.send /\ w.d.to_write = t.d.to_write
        /\ w.d.raw = t.d.raw /\ w.d.handler = t.d.handler
    <3> HIDE DEF a
    <3>1. w \in Memory BY <1>3 DEF Taking, Memory, Data
    <3>2. /\ w.calls = a.calls /\ w.layer = a.layer /\ w.io_data = a.io_data /\ w.io = a.io
          /\ w.event = a.event /\ w.file = a.file /\ w.broken = a.broken
      BY <1>3 DEF Taking, Memory
    <3>3. w.d = [t.d EXCEPT !.write = "WRITTEN"] BY <1>3 DEF Taking, Memory
    <3> HIDE DEF w
    <3>4. /\ w.d.there = t.d.there /\ w.d.handler = t.d.handler /\ w.d.rm = t.d.rm
          /\ w.d.lib = t.d.lib /\ w.d.sending = t.d.sending /\ w.d.write = "WRITTEN"
          /\ w.d.send = t.d.send /\ w.d.to_write = t.d.to_write /\ w.d.raw = t.d.raw
      BY <1>3, <3>3 DEF Taking, Memory, Data
    <3> QED BY <1>3, <2>1, <3>1, <3>2, <3>4 DEF Working, Taking
  <2>7. Call.fn = "push" BY <1>3 DEF Taking
  <2> HIDE DEF a, w
  <2>8. CASE Tls = "CONNECTING"
    <3>1. w.d.handler = "connect" BY <1>5, <1>6, <2>6, <2>8
    <3>2. Becomes(ConnectHandler(w, bad)) BY <2>5, <3>1 DEF LogicSendHandler
    <3> QED BY <1>2, <2>2, <2>6, <2>7, <2>8, <3>2, ConnectRight
  <2>9. CASE Tls = "CONNECTED"
    <3>1. w.d.handler = "data" BY <1>5, <1>6, <2>6, <2>9
    <3>2. Becomes(SendHandler(w, bad)) BY <2>5, <3>1 DEF LogicSendHandler
    <3>3. w.d.to_write BY <2>3, <2>6, <2>9 DEF Inv, Rules, PushInv
    <3> QED BY <1>2, <2>1, <2>2, <2>6, <2>7, <2>9, <3>2, <3>3, SendRight
  <2> QED BY <2>2, <2>8, <2>9
<1>7. CASE ~NotUsable(a) /\ Call.st # "WRITTEN"
  <2>1. Call \in Messages /\ Call \notin Tokens BY <1>3, <1>7, KindsOf DEF Taking
  <2>2. Has(t.calls, Messages) BY <1>3, <2>1 DEF Taking, Shorter
  <2>3. t.d.there /\ Tls = "CONNECTED" /\ t.d.handler = "data"
    BY <1>5, <1>7, <2>2 DEF Inv, Rules, ConnectingInv
  <2>4. ~t.d.to_write /\ ~t.d.send /\ ~t.d.sending
    BY <2>2, <2>3 DEF Inv, Rules, PushInv
  <2>5. Check(a, ~a.d.to_write /\ ~a.d.send /\ ~a.d.sending, "push") = a
    BY <1>3, <2>4 DEF Check, Taking
  <2>6. Becomes(LogicSendHandler(n, bad)) BY <1>1, <1>7, <2>5 DEF PushHandler
  <2>7. Working(n) /\ n.d.to_write /\ n.d.raw = t.d.raw /\ n.d.handler = t.d.handler
    <3> HIDE DEF a
    <3>1. n \in Memory BY <1>3 DEF Taking, Memory, Data
    <3>2. /\ n.calls = a.calls /\ n.layer = a.layer /\ n.io_data = a.io_data /\ n.io = a.io
          /\ n.event = a.event /\ n.file = a.file /\ n.broken = a.broken
      BY <1>3 DEF Taking, Memory
    <3>3. n.d = [t.d EXCEPT !.to_write = TRUE] BY <1>3 DEF Taking, Memory
    <3> HIDE DEF n
    <3>4. /\ n.d.there = t.d.there /\ n.d.handler = t.d.handler /\ n.d.rm = t.d.rm
          /\ n.d.lib = t.d.lib /\ n.d.sending = t.d.sending /\ n.d.write = t.d.write
          /\ n.d.to_write /\ n.d.raw = t.d.raw
      BY <1>3, <3>3 DEF Taking, Memory, Data
    <3> QED BY <1>3, <2>1, <3>1, <3>2, <3>4 DEF Working, Taking
  <2>8. Call.fn = "push" BY <1>3 DEF Taking
  <2> HIDE DEF a, n
  <2>9. Becomes(SendHandler(n, bad)) BY <2>3, <2>6, <2>7 DEF LogicSendHandler
  <2> QED BY <1>2, <2>3, <2>4, <2>7, <2>8, <2>9, SendRight
<1> QED BY <1>4, <1>6, <1>7

\* Data that comes when the layer cannot take it ends the connection.
LEMMA RefusedRight ==
  ASSUME Inv, Taking(Popped, "tls", "pull"), Tls \in {"CLOSING", "CLOSED"} \/ ~t.d.there,
         Becomes(Itself(Popped, "close", Call.st)), up' = up
  PROVE  t' \in Memory /\ Rules'
<1> DEFINE a == Popped
<1>1. "close" \in FunctionNames BY DEF FunctionNames
<1>2. PassedOn(a, "tls", [layer |-> "tls", fn |-> "close", arg |-> 0, st |-> Call.st],
               NextLayerState("close", a.layer["tls"], Call.st))
  BY <1>1, PassesOn DEF Itself, OnThis, Taking
<1>3. Tls \in {"NONE", "CLOSING", "CLOSED"} BY DEF Inv, Rules, LayerInv
<1>4. PICK x : x.layer = "tls" /\ x.fn = "close" /\ PassedOn(a, "tls", x, Tls)
  BY <1>2, <1>3 DEF NextLayerState, Taking
<1> HIDE DEF a
<1>5. /\ t' \in Memory /\ Tls' = Tls /\ t'.d = t.d /\ t'.io_data = t.io_data /\ t'.io = t.io
      /\ t'.event = t.event /\ t'.file = t.file /\ t'.broken = t.broken
      /\ x \in Calls /\ Longer(t'.calls, a.calls, x) /\ x.layer = "tls" /\ x.fn = "close"
      /\ up' = up
  BY <1>4 DEF PassedOn, Taking, a
<1>6. /\ Shorter(t.calls, Call, a.calls) /\ Call \in Calls /\ Call.layer = "tls"
      /\ Call.fn = "pull" /\ t.calls # <<>>
  BY DEF Taking, a
<1>10. LayerInv'
  BY <1>3, <1>5, <1>6, KindsOf
  DEF Shorter, Longer, Inv, Rules, LayerInv
<1>11. ConnectingInv'
  BY <1>3, <1>5, <1>6, KindsOf
  DEF Shorter, Longer, Inv, Rules, LayerInv, ConnectingInv, AtWrite
<1>12. StartInv'
  BY <1>3, <1>5, <1>6, KindsOf
  DEF Shorter, Longer, Inv, Rules, LayerInv, StartInv
<1>13. LoadInv'
  BY <1>3, <1>5, <1>6, KindsOf
  DEF Shorter, Longer, Inv, Rules, LayerInv, LoadInv, Asked, Answered, Failed, Releasing,
      Waits
<1>14. EndInv'
  BY <1>3, <1>5, <1>6, KindsOf
  DEF Shorter, Longer, Inv, Rules, LayerInv, StartInv, EndInv
<1>15. TokenInv'
  BY <1>3, <1>5, <1>6, KindsOf
  DEF Shorter, Longer, Inv, Rules, LayerInv, TokenInv
<1>16. PushInv'
  BY <1>3, <1>5, <1>6, KindsOf
  DEF Shorter, Longer, Inv, Rules, LayerInv, PushInv
<1>17. DataInv'
  BY <1>3, <1>5, <1>6, KindsOf
  DEF Shorter, Longer, Inv, Rules, LayerInv, ConnectingInv, DataInv, Undecoded
<1>18. EarlyInv'
  BY <1>3, <1>5, <1>6, KindsOf
  DEF Shorter, Longer, Inv, Rules, LayerInv, EarlyInv
<1> QED BY <1>5, <1>10, <1>11, <1>12, <1>13, <1>14, <1>15, <1>16, <1>17, <1>18
       DEF Rules

LEMMA PullCalledRight ==
  ASSUME Inv, TlsPull
  PROVE  t' \in Memory /\ Rules'
<1> DEFINE a == Popped
           r == a.d.raw + Call.arg
           b == [a EXCEPT !.d.raw = r]
<1>1. PICK bad \in BOOLEAN : Becomes(PullHandler(a, Call.arg, Call.st, bad)) BY DEF TlsPull
<1>2. Called("tls", "pull") /\ up' = up BY DEF TlsPull
<1>3. Taking(a, "tls", "pull") BY <1>2, Takes
<1>4. CASE NotUsable(a)
  <2>1. Becomes(Itself(a, "close", Call.st)) BY <1>1, <1>4 DEF PullHandler
  <2>2. Tls \in {"CLOSING", "CLOSED"} \/ ~t.d.there
    BY <1>3, <1>4 DEF NotUsable, NotOperational, Taking
  <2> QED BY <1>2, <1>3, <2>1, <2>2, RefusedRight
<1>5. CASE ~NotUsable(a)
  <2>1. t.d.there /\ Tls \notin {"CLOSING", "CLOSED"}
    BY <1>3, <1>5 DEF NotUsable, NotOperational, Taking
  <2>2. ~t.d.rm.there
    BY <1>3, KindsOf
    DEF Taking, Shorter, Inv, Rules, LoadInv, Asked, Answered, Failed, Releasing, Waits
  <2>3. Tls \in LayerStates BY <1>3 DEF Taking, Memory, Tls
  <2>4. Tls \in {"CONNECTING", "CONNECTED"}
    BY <2>1, <2>2, <2>3 DEF LayerStates, Inv, Rules, LayerInv
  <2>5. t.d.handler = (IF Tls = "CONNECTING" THEN "connect" ELSE "data")
    BY <2>4 DEF Inv, Rules, ConnectingInv
  <2>6. Becomes(LogicRecvHandler(b, bad)) BY <1>1, <1>5 DEF PullHandler
  <2>7. Call \notin Tokens /\ Call.fn = "pull" BY <1>3, KindsOf DEF Taking
  <2>8. /\ Working(b) /\ b.d.send = t.d.send /\ b.d.to_write = t.d.to_write
        /\ b.d.handler = t.d.handler
    <3> HIDE DEF a
    <3>0. r \in Nat BY <1>3 DEF Taking, Memory, Data
    <3> HIDE DEF r
    <3>1. b \in Memory BY <1>3, <3>0 DEF Taking, Memory, Data
    <3>2. /\ b.calls = a.calls /\ b.layer = a.layer /\ b.io_data = a.io_data /\ b.io = a.io
          /\ b.event = a.event /\ b.file = a.file /\ b.broken = a.broken
      BY <1>3 DEF Taking, Memory
    <3>3. b.d = [t.d EXCEPT !.raw = r] BY <1>3 DEF Taking, Memory
    <3> HIDE DEF b
    <3>4. /\ b.d.there = t.d.there /\ b.d.handler = t.d.handler /\ b.d.rm = t.d.rm
          /\ b.d.lib = t.d.lib /\ b.d.sending = t.d.sending /\ b.d.write = t.d.write
          /\ b.d.send = t.d.send /\ b.d.to_write = t.d.to_write
      BY <1>3, <3>3 DEF Taking, Memory, Data
    <3> QED BY <1>3, <2>7, <3>1, <3>2, <3>4 DEF Working, Taking
  <2> HIDE DEF a, b
  <2>9. CASE Tls = "CONNECTING"
    <3>1. b.d.handler = "connect" BY <2>5, <2>8, <2>9
    <3>2. Becomes(ConnectHandler(b, bad)) BY <2>6, <3>1 DEF LogicRecvHandler
    <3> QED BY <1>2, <2>1, <2>7, <2>8, <2>9, <3>2, ConnectRight
  <2>10. CASE Tls = "CONNECTED"
    <3>1. b.d.handler = "data" BY <2>5, <2>8, <2>10
    <3>2. Becomes(RecvHandler(b, bad)) BY <2>6, <3>1 DEF LogicRecvHandler
    <3> QED BY <1>2, <2>1, <2>7, <2>8, <2>10, <3>2, RecvRight
  <2> QED BY <2>4, <2>9, <2>10
<1> QED BY <1>4, <1>5


-----------------------------------------------------------------------------
(* Every step keeps the invariant.                                          *)
Uppers == [state: {"idle", "opening", "open", "failed", "closing"}, pushing: BOOLEAN,
           received: Nat, early: BOOLEAN]
Nets == [in: Nat, out: Nat, pos: Nat, sent: Nat]

LEMMA UppersTyped ==
  ASSUME Types, Next
  PROVE  up' \in Uppers
<1>1. up \in Uppers BY DEF Types, Uppers
<1>2. CASE up' = up BY <1>1, <1>2
<1>3. CASE UpperInit \/ UpperPush \/ UpperGivesUp \/ UpperCloses
  <2>1. \/ up' = [up EXCEPT !.state = "opening", !.received = 0]
        \/ up' = [up EXCEPT !.pushing = TRUE]
        \/ up' = [up EXCEPT !.state = "closing"]
    BY <1>3 DEF UpperInit, UpperPush, UpperGivesUp, UpperCloses, UpperClose
  <2>2. CASE up' = [up EXCEPT !.state = "opening", !.received = 0]
    BY <1>1, <2>2 DEF Uppers
  <2>3. CASE up' = [up EXCEPT !.pushing = TRUE] BY <1>1, <2>3 DEF Uppers
  <2>4. CASE up' = [up EXCEPT !.state = "closing"] BY <1>1, <2>4 DEF Uppers
  <2> QED BY <2>1, <2>2, <2>3, <2>4
<1>4. CASE CodecCalled
  <2>1. \/ up' = [up EXCEPT !.state = "open"]
        \/ up' = [up EXCEPT !.state = "failed"]
        \/ up' = [up EXCEPT !.pushing = FALSE]
        \/ up' = [up EXCEPT !.received = @ + 1, !.early = @ \/ up.state = "opening"]
        \/ up' = [up EXCEPT !.state = "idle", !.pushing = FALSE]
        \/ up' = up
    BY <1>4 DEF CodecCalled
  <2>2. up.received + 1 \in Nat /\ (up.early \/ up.state = "opening") \in BOOLEAN
    BY <1>1 DEF Uppers
  <2> QED BY <1>1, <2>1, <2>2 DEF Uppers
<1>5. ASSUME RmOpen \/ RmRead \/ RmClose \/ FileEvent \/ TlsInit \/ TlsConnect \/ TlsPush
             \/ TlsPull \/ TlsClose \/ TlsCloseExternally \/ IoPush \/ IoInit \/ IoConnect
             \/ IoClose \/ IoCloseExternally \/ SocketConnected \/ SocketReadable
             \/ SocketWritable \/ SocketReset \/ ServerTakes \/ ServerSends
      PROVE  up' = up
  BY <1>5
  DEF RmOpen, RmRead, RmClose, FileEvent, TlsInit, TlsConnect, TlsPush, TlsPull, TlsClose,
      TlsCloseExternally, IoPush, IoInit, IoConnect, IoClose, IoCloseExternally,
      SocketConnected, SocketReadable, SocketWritable, SocketReset, Polled, ServerTakes,
      ServerSends
<1> QED BY <1>2, <1>3, <1>4, <1>5 DEF Next, ClientStep

LEMMA NetsTyped ==
  ASSUME Types, Next
  PROVE  net' \in Nets
<1>1. net \in Nets BY DEF Types, Nets
<1>2. RecordUnits \in Nat BY TlsAssumption
<1>3. CASE net' = net BY <1>1, <1>3
<1>4. CASE ServerTakes \/ ServerSends
  <2>1. \/ /\ net.out > 0
           /\ net' = [net EXCEPT !.out = net.out - 1, !.pos = net.pos]
              \/ net' = [net EXCEPT !.out = net.out - 1, !.pos = net.pos + 1]
        \/ net' = [net EXCEPT !.in = net.in + 1, !.pos = net.pos + 1]
        \/ net' = [net EXCEPT !.in = net.in + RecordUnits, !.sent = net.sent + 1]
    BY <1>1, <1>4 DEF ServerTakes, ServerSends, Nets
  <2>2. /\ net.in + 1 \in Nat /\ net.pos + 1 \in Nat /\ net.sent + 1 \in Nat
        /\ net.in + RecordUnits \in Nat /\ (net.out > 0 => net.out - 1 \in Nat)
    BY <1>1, <1>2 DEF Nets
  <2> QED BY <1>1, <2>1, <2>2 DEF Nets
<1>5. CASE IoPush \/ SocketWritable
  <2>1. net' = net \/ net' = [net EXCEPT !.out = @ + 1]
    BY <1>5 DEF IoPush, SocketWritable, IoWrite
  <2> QED BY <1>1, <2>1 DEF Nets
<1>6. CASE IoCloseExternally
  <2>1. NoNet \in Nets BY DEF NoNet, Nets
  <2>2. net' \in {net, NoNet} BY <1>6 DEF IoCloseExternally
  <2> QED BY <1>1, <2>1, <2>2
<1>7. CASE SocketReadable
  <2>1. PICK n \in 1 .. net.in : net' = [net EXCEPT !.in = @ - n] BY <1>7 DEF SocketReadable
  <2>2. net.in - n \in Nat BY <1>1 DEF Nets
  <2> QED BY <1>1, <2>1, <2>2 DEF Nets
<1>8. ASSUME RmOpen \/ RmRead \/ RmClose \/ FileEvent \/ TlsInit \/ TlsConnect \/ TlsPush
             \/ TlsPull \/ TlsClose \/ TlsCloseExternally \/ IoInit \/ IoConnect \/ IoClose
             \/ SocketConnected \/ SocketReset \/ UpperInit \/ UpperPush \/ UpperGivesUp
             \/ UpperCloses \/ CodecCalled
      PROVE  net' = net
  BY <1>8
  DEF RmOpen, RmRead, RmClose, FileEvent, TlsInit, TlsConnect, TlsPush, TlsPull, TlsClose,
      TlsCloseExternally, IoInit, IoConnect, IoClose, SocketConnected, SocketReset, UpperInit,
      UpperPush, UpperGivesUp, UpperCloses, UpperClose, CodecCalled
<1> QED BY <1>3, <1>4, <1>5, <1>6, <1>7, <1>8 DEF Next, ClientStep

LEMMA StepsRight == Inv /\ [Next]_vars => Inv'
<1> SUFFICES ASSUME Inv, [Next]_vars PROVE Inv' OBVIOUS
<1>1. CASE UNCHANGED vars
  <2>1. UNCHANGED <<t, up>> /\ net' \in [in: Nat, out: Nat, pos: Nat, sent: Nat]
    BY <1>1 DEF vars, Inv, Types
  <2> QED BY <2>1, ServerRight
<1>2. CASE Next
  <2>1. up' \in Uppers /\ net' \in Nets BY <1>2, UppersTyped, NetsTyped DEF Inv
  <2>2. CASE ServerTakes \/ ServerSends
    <3>1. UNCHANGED <<t, up>> BY <2>2 DEF ServerTakes, ServerSends
    <3> QED BY <2>1, <3>1, ServerRight DEF Nets
  <2>3. ASSUME t' \in Memory /\ Rules' PROVE Inv'
    BY <2>1, <2>3 DEF Inv, Types, Uppers, Nets
  <2>4. CASE RmOpen \/ RmRead \/ RmClose \/ FileEvent BY <2>3, <2>4, RmRight
  <2>5. CASE TlsInit BY <2>3, <2>5, InitRight
  <2>6. CASE TlsConnect BY <2>3, <2>6, ConnectCalledRight
  <2>7. CASE TlsPush BY <2>3, <2>7, PushCalledRight
  <2>8. CASE TlsPull BY <2>3, <2>8, PullCalledRight
  <2>9. CASE TlsClose BY <2>3, <2>9, TlsCloseRight
  <2>10. CASE TlsCloseExternally BY <2>3, <2>10, ReleaseRight
  <2>11. CASE IoPush \/ SocketWritable BY <2>3, <2>11, IoPushRight
  <2>12. CASE IoInit BY <2>3, <2>12, IoInitRight
  <2>13. CASE IoConnect BY <2>3, <2>13, IoConnectRight
  <2>14. CASE IoClose BY <2>3, <2>14, IoCloseRight
  <2>15. CASE IoCloseExternally BY <2>3, <2>15, IoCloseExternallyRight
  <2>16. CASE SocketConnected BY <2>3, <2>16, SocketConnectedRight
  <2>17. CASE SocketReadable \/ SocketReset BY <2>3, <2>17, SocketSpeaksRight
  <2>18. CASE UpperInit BY <2>3, <2>18, UpperInitRight
  <2>19. CASE UpperPush BY <2>3, <2>19, UpperPushRight
  <2>20. CASE UpperGivesUp \/ UpperCloses BY <2>3, <2>20, UpperClosesRight
  <2>21. CASE CodecCalled BY <2>3, <2>21, CodecCalledRight
  <2> QED BY <1>2, <2>2, <2>4, <2>5, <2>6, <2>7, <2>8, <2>9, <2>10, <2>11, <2>12, <2>13, <2>14,
             <2>15, <2>16, <2>17, <2>18, <2>19, <2>20, <2>21
          DEF Next, ClientStep
<1> QED BY <1>1, <1>2

LEMMA InvAlways == Spec => []Inv
BY StartsRight, StepsRight, PTL DEF Spec

-----------------------------------------------------------------------------
(* The assertions of xi_tls_layer.c (the callbacks of the library and the    *)
(* coroutines) and xi_resource_manager.c hold, whatever the library, the     *)
(* file system, the socket and the server answer, and in whatever order a    *)
(* close meets a coroutine that waits: none of them runs on freed memory.    *)
THEOREM AssertionsAlwaysHold == Spec => []AssertionsHold
<1>1. Inv => AssertionsHold
  <2> SUFFICES ASSUME Inv PROVE AssertionsHold OBVIOUS
  <2>1. t \in Memory /\ up \in Uppers /\ net \in Nets BY DEF Inv, Types, Uppers, Nets
  <2>2. t.d \in Data /\ t.layer \in [{"io", "tls", "codec"} -> LayerStates]
        /\ t.event \in {"none", "stat", "open", "read", "close"}
    BY <2>1 DEF Memory
  <2>3. RecordUnits \in Nat \ {0} BY TlsAssumption
  <2>4. t.d.raw \in Nat /\ t.d.lib.units \in Nat /\ t.d.lib.pending \in Nat
    BY <2>2, <2>3 DEF Data, LibTypes
  <2>5. /\ t.d.conn_cs \in {"start", "opening", "reading", "releasing", "handshake"}
        /\ t.d.write \in {"NONE", "WRITING", "WRITTEN"}
    BY <2>2 DEF Data
  <2>6. net.in \in Nat /\ net.out \in Nat BY <2>1 DEF Nets
  <2>7. up.state \in {"idle", "opening", "open", "failed", "closing"} BY <2>1 DEF Uppers
  <2>8. t.broken = {} BY DEF Inv, Rules, LayerInv
  <2> QED BY <2>2, <2>4, <2>5, <2>6, <2>7, <2>8 DEF AssertionsHold, TypeOK
<1>2. Spec => []Inv BY InvAlways
<1> QED BY <1>1, <1>2, PTL

(* When xi_tls_layer_close_externally has been passed on to the layers above *)
(* and they have been told, the layer data is freed, the certificate file is *)
(* closed, the socket is gone and no event is registered for any of them.    *)
THEOREM NothingEverLeft == Spec => []NothingLeft
<1>1. Inv => NothingLeft
  <2> SUFFICES ASSUME Inv, up.state = "idle"
               PROVE  ~t.d.there /\ ~t.file /\ ~t.io_data /\ t.event = "none" /\ t.io = "idle"
    BY DEF NothingLeft
  <2>1. ~t.d.there BY DEF Inv, Rules, EndInv
  <2>2. ~t.d.rm.there /\ t.d.rm = NoRm /\ t.event = "none" /\ ~t.io_data /\ t.io = "idle"
    BY <2>1 DEF Inv, Rules, LayerInv
  <2>3. t.file = FALSE BY <2>2 DEF Inv, Rules, LayerInv, NoRm
  <2> QED BY <2>1, <2>2, <2>3
<1>2. Spec => []Inv BY InvAlways
<1> QED BY <1>1, <1>2, PTL

(* recv_handler and connect_handler of xi_tls_layer.c hand up what was       *)
(* received in its time: when the call queue is empty and the connection     *)
(* open, neither the raw buffer nor the library holds data that nothing      *)
(* would ask for, and no data reaches the layers above before they hear of   *)
(* the connection.                                                           *)
THEOREM DataAlwaysInTime == Spec => []DataInTime
<1>1. Inv => DataInTime
  <2> SUFFICES ASSUME Inv PROVE DataInTime OBVIOUS
  <2>1. ASSUME up.state = "open", t.calls = <<>>, Undecoded(t) PROVE FALSE
    <3>1. ~Has(t.calls, Ends) /\ ~Has(t.calls, Again) BY <2>1, QueueEmpty
    <3>2. Tls = "CONNECTED" BY <2>1, <3>1 DEF Inv, Rules, DataInv
    <3> QED BY <2>1, <3>1, <3>2 DEF Inv, Rules, DataInv
  <2>2. ~up.early BY DEF Inv, Rules, EarlyInv
  <2> QED BY <2>1, <2>2 DEF DataInTime, NothingStranded, ConnectedBeforeData
<1>2. Spec => []Inv BY InvAlways
<1> QED BY <1>1, <1>2, PTL

=============================================================================
