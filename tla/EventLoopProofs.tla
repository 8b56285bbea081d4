--------------------------- MODULE EventLoopProofs ---------------------------
(***************************************************************************)
(* Proofs about the event loop and the worker thread, for any number of    *)
(* connections, any delays and any bounds.                                 *)
(***************************************************************************)
EXTENDS EventLoop, FiniteSetTheorems, WellFoundedInduction, TLAPS

States == {"closed", "scheduled", "loading", "connecting", "open", "closing", "cancelled"}
Works  == [do: {"init", "connect", "opened", "pull", "close"}, conn: Conns,
           by: {"loop", "app", "worker"}]
Calls  == [do: {"opened", "message", "closed"}, conn: Conns]

Places == 1 .. (Cardinality(Conns) + 1)
Dues   == Nat \cup {-1}

LoopType   == [at: Phases, i: Places, noted: Seq(Conns), ready: SUBSET Conns, due: Dues,
               updated: BOOLEAN, wake: Nat, failed: BOOLEAN]
WorkerType == [at: {"run", "calling", "ended"}, last: BOOLEAN, queue: Seq(Calls),
               call: Calls \cup {NoCall}, stop: BOOLEAN]
UsedType   == [connects: Nat, data: Nat, faults: Nat]
LifeType   == [stop: BOOLEAN, deleted: BOOLEAN, freed: BOOLEAN, abort: BOOLEAN]

(* The types of all variables, records and sequences included.              *)
Types ==
  /\ loop \in LoopType
  /\ now \in 0 .. MaxNow /\ step \in 0 .. now /\ loop.wake <= now + MaxIdle
  /\ sockets \in Seq(Conns) /\ files \in Seq(Conns)
  /\ timers \subseteq [conn: Conns, due: 0 .. MaxNow, by: {"app", "worker"}]
  /\ queue \in Seq(Works)
  /\ conn \in [Conns -> [state: States, left: 0 .. FileSteps]]
  /\ peer \in [Conns -> {"quiet", "connected", "data", "reset"}]
  /\ worker \in WorkerType
  /\ told \in [Conns -> {"opened", "closed"}]
  /\ life \in LifeType
  /\ used \in UsedType

NoRepeats(v) == \A i, j \in 1 .. Len(v) : v[i] = v[j] => i = j
Socketed == {"connecting", "open", "closing"}

(* A connection is in each vector at most once: in the sockets while it has *)
(* one, among the files while its certificates are loaded.                  *)
VectorInv ==
  /\ NoRepeats(sockets) /\ NoRepeats(files)
  /\ \A c \in Conns : c \in Elements(sockets) <=> conn[c].state \in Socketed
  /\ \A c \in Elements(files) : conn[c].state = "loading"
  /\ SocketsStandStill

(* What is armed or queued for a connection fits its state: a connection    *)
(* waits for one thing only until it has a socket, and nothing comes after  *)
(* its end.                                                                 *)
Fits(w, c) ==
  /\ w.do = "init" => conn[c].state = "scheduled"
  /\ w.do = "connect" => conn[c].state = "loading" /\ c \notin Elements(files)
  /\ w.do \in {"opened", "pull"} => conn[c].state \in {"open", "closing"}
  /\ w.do = "close" => conn[c].state = "closing"

TimersFit ==
  \A t \in timers : /\ conn[t.conn].state = "scheduled"
                    /\ \A u \in timers : t.conn = u.conn => t = u
                    /\ \A i \in 1 .. Len(queue) : queue[i].conn # t.conn

WorksFit == \A i \in 1 .. Len(queue) : Fits(queue[i], queue[i].conn)

WorksOrdered ==
  \A i, j \in 1 .. Len(queue) : queue[i].conn = queue[j].conn =>
    /\ queue[i].do \in {"init", "connect"} => i = j
    /\ queue[i].do = "opened" => i <= j
    /\ queue[i].do = "close" => j <= i

PeersFit ==
  \A c \in Conns : /\ peer[c] = "connected" => conn[c].state = "connecting"
                   /\ peer[c] = "data" => conn[c].state \in {"open", "closing"}
                   /\ peer[c] = "reset" => conn[c].state \in Socketed

WorkInv == TimersFit /\ WorksFit /\ WorksOrdered /\ PeersFit

(* Who is left when the dispatcher is freed.                                *)
LifeInv ==
  /\ life.freed <=> life.deleted
  /\ life.deleted => loop.at \in {"destroy", "join", "gone"} /\ worker.at # "calling"
  /\ AssertionsHold

(* What the application knows of connection c before it is told the i-th    *)
(* callback of q, when it knows t now.                                      *)
Known(q, t, c, i, s) ==
  \/ t = s /\ \A k \in 1 .. (i - 1) : q[k].conn # c
  \/ \E j \in 1 .. (i - 1) : /\ q[j].conn = c /\ (q[j].do = "closed" <=> s = "closed")
                             /\ \A k \in (j + 1) .. (i - 1) : q[k].conn # c

(* What it will know when the worker has made all callbacks.                *)
WillKnow(c, s) == Known(worker.queue, told[c], c, Len(worker.queue) + 1, s)

(* The worker's callbacks come in order.                                    *)
CallsOrdered ==
  \A i \in 1 .. Len(worker.queue) :
    LET call == worker.queue[i] IN
    /\ call.do = "opened"  => Known(worker.queue, told[call.conn], call.conn, i, "closed")
    /\ call.do = "message" => Known(worker.queue, told[call.conn], call.conn, i, "opened")

(* So will those that the calls in the main queue lead to.                  *)
OpenedAt(c, i) == queue[i].conn = c /\ queue[i].do = "opened"

WorkTells ==
  \A i \in 1 .. Len(queue) :
    /\ queue[i].do = "opened" => WillKnow(queue[i].conn, "closed")
    /\ queue[i].do = "pull" => \/ WillKnow(queue[i].conn, "opened")
                               \/ \E j \in 1 .. (i - 1) : OpenedAt(queue[i].conn, j)

(* What is known of a connection in the end is its state.                   *)
StatesTold ==
  \A c \in Conns :
    /\ conn[c].state \notin {"open", "closing"} => WillKnow(c, "closed")
    /\ conn[c].state = "open" => WillKnow(c, "opened") \/ \E i \in 1 .. Len(queue) : OpenedAt(c, i)

OrderInv == CallsOrdered /\ WorkTells /\ StatesTold

(* What waits when select is about to sleep.                                *)
Settled == \A i \in 1 .. Len(queue) : queue[i].by # "loop"
SleepInv ==
  ~loop.failed =>
    /\ loop.at = "app" => Settled
    /\ loop.at = "files" /\ ~loop.updated =>
         /\ Settled
         /\ \A t \in timers : t.by = "worker" \/ (loop.due # -1 /\ loop.due <= t.due)
    /\ loop.at = "select" /\ loop.wake > now =>
         /\ Settled
         /\ \A t \in timers : t.by = "worker" \/ loop.wake <= t.due

Inv == /\ Types /\ VectorInv /\ WorkInv /\ LifeInv
       /\ ~life.deleted => OrderInv
       /\ SleepInv

-----------------------------------------------------------------------------
(* Sequences.                                                               *)
LEMMA Appended ==
  ASSUME NEW S, NEW q \in Seq(S), NEW w \in S
  PROVE  /\ Append(q, w) \in Seq(S) /\ Len(Append(q, w)) = Len(q) + 1 /\ Len(q) \in Nat
         /\ \A i \in 1 .. Len(q) : Append(q, w)[i] = q[i]
         /\ Append(q, w)[Len(q) + 1] = w
OBVIOUS

LEMMA Shifted ==
  ASSUME NEW S, NEW q \in Seq(S), q # <<>>
  PROVE  /\ Head(q) = q[1] /\ Head(q) \in S /\ Len(q) \in Nat /\ Len(q) >= 1
         /\ Tail(q) \in Seq(S) /\ Len(Tail(q)) = Len(q) - 1
         /\ \A i \in 1 .. (Len(q) - 1) : Tail(q)[i] = q[i + 1]
OBVIOUS

LEMMA ElementsOf ==
  ASSUME NEW S, NEW v \in Seq(S), NEW c
  PROVE  c \in Elements(v) <=> \E i \in 1 .. Len(v) : v[i] = c
BY DEF Elements

(* A vector without repetitions is no longer than there are connections.    *)
LEMMA LenBound ==
  ASSUME NEW v \in Seq(Conns), NoRepeats(v)
  PROVE  Len(v) <= Cardinality(Conns) /\ Cardinality(Conns) \in Nat
<1>1. v \in Injection(1 .. Len(v), Conns)
  BY DEF NoRepeats, Injection, IsInjective
<1>2. IsFiniteSet(Conns) BY LoopAssumption
<1>3. Cardinality(1 .. Len(v)) <= Cardinality(Conns)
  BY <1>1, <1>2, FS_Injection
<1>4. Len(v) \in Nat OBVIOUS
<1>5. Cardinality(1 .. Len(v)) = Len(v)
  <2>1. \A n \in Nat :
          Cardinality(1 .. n) = IF 1 > n THEN 0 ELSE n - 1 + 1
    <3> TAKE n \in Nat
    <3>1. 1 \in Int /\ n \in Int OBVIOUS
    <3> QED BY <3>1, FS_Interval
  <2>2. \A n \in Nat : (IF 1 > n THEN 0 ELSE n - 1 + 1) = n OBVIOUS
  <2> QED BY <1>4, <2>1, <2>2
<1>6. Cardinality(Conns) \in Nat BY <1>2, FS_CardinalityType
<1> QED BY <1>3, <1>5, <1>6

LEMMA Entered ==
  ASSUME NEW v \in Seq(Conns), NoRepeats(v), NEW c \in Conns, c \notin Elements(v)
  PROVE  /\ Append(v, c) \in Seq(Conns) /\ NoRepeats(Append(v, c))
         /\ Elements(Append(v, c)) = Elements(v) \cup {c}
<1>1. /\ Append(v, c) \in Seq(Conns) /\ Len(Append(v, c)) = Len(v) + 1 /\ Len(v) \in Nat
      /\ \A i \in 1 .. Len(v) : Append(v, c)[i] = v[i]
      /\ Append(v, c)[Len(v) + 1] = c
  BY Appended
<1>2. \A i \in 1 .. Len(v) : v[i] # c BY DEF Elements
<1>3. NoRepeats(Append(v, c)) BY <1>1, <1>2 DEF NoRepeats
<1>4. Elements(Append(v, c)) = Elements(v) \cup {c}
  BY <1>1 DEF Elements
<1> QED BY <1>1, <1>3, <1>4

(* xi_evtd_unregister_fd takes out the element and no other, although the   *)
(* last one changes its place.                                              *)
LEMMA TakenOut ==
  ASSUME NEW v \in Seq(Conns), NoRepeats(v), NEW c \in Conns
  PROVE  /\ Unregistered(v, c) \in Seq(Conns) /\ NoRepeats(Unregistered(v, c))
         /\ Elements(Unregistered(v, c)) = Elements(v) \ {c}
<1>1. CASE c \notin Elements(v)
  BY <1>1 DEF Unregistered
<1>2. CASE c \in Elements(v)
  <2>0. PICK n \in Nat : n = Len(v) OBVIOUS
  <2> DEFINE k == Index(v, c)
             w == [v EXCEPT ![k] = v[n]]
             r == SubSeq(w, 1, n - 1)
  <2>1. v \in [1 .. n -> Conns] /\ DOMAIN v = 1 .. n BY <2>0
  <2>2. \E i \in DOMAIN v : v[i] = c BY <1>2 DEF Elements
  <2>3. k \in 1 .. n /\ v[k] = c BY <2>1, <2>2 DEF Index
  <2>4. Unregistered(v, c) = r BY <1>2, <2>0 DEF Unregistered
  <2> HIDE DEF k
  <2>5. /\ w \in Seq(Conns) /\ Len(w) = n /\ w[k] = v[n]
        /\ \A i \in 1 .. n : i # k => w[i] = v[i]
    BY <2>0, <2>1, <2>3
  <2> HIDE DEF w
  <2>6. r \in Seq(Conns) /\ Len(r) = n - 1 /\ \A i \in 1 .. (n - 1) : r[i] = w[i]
    BY <2>1, <2>3, <2>5
  <2> HIDE DEF r
  <2>7. \A i \in 1 .. (n - 1) : r[i] = IF i = k THEN v[n] ELSE v[i]
    BY <2>1, <2>5, <2>6
  <2>8. NoRepeats(r)
    <3> SUFFICES ASSUME NEW i \in 1 .. (n - 1), NEW j \in 1 .. (n - 1), r[i] = r[j] PROVE i = j
      BY <2>6 DEF NoRepeats
    <3>1. i \in 1 .. n /\ j \in 1 .. n /\ n \in 1 .. n /\ i # n /\ j # n OBVIOUS
    <3> QED BY <3>1, <2>0, <2>7 DEF NoRepeats
  <2>9. \A x : x \in Elements(r) <=> x \in Elements(v) \ {c}
    <3> SUFFICES ASSUME NEW x PROVE x \in Elements(r) <=> x \in Elements(v) \ {c} OBVIOUS
    <3>1. ASSUME NEW i \in 1 .. (n - 1), r[i] = x PROVE x \in Elements(v) \ {c}
      <4>1. i \in 1 .. n /\ n \in 1 .. n /\ i # n OBVIOUS
      <4>2. CASE i = k BY <4>1, <4>2, <3>1, <2>0, <2>1, <2>3, <2>7 DEF NoRepeats, Elements
      <4>3. CASE i # k BY <4>1, <4>3, <3>1, <2>0, <2>1, <2>3, <2>7 DEF NoRepeats, Elements
      <4> QED BY <4>2, <4>3
    <3>2. ASSUME NEW i \in 1 .. n, v[i] = x, x # c PROVE \E j \in 1 .. (n - 1) : r[j] = x
      <4>1. i # k BY <3>2, <2>3
      <4>2. CASE i = n
        <5>1. k \in 1 .. (n - 1) /\ r[k] = x BY <4>1, <4>2, <3>2, <2>1, <2>3, <2>7
        <5> QED BY <5>1
      <4>3. CASE i # n
        <5>1. i \in 1 .. (n - 1) /\ r[i] = x BY <4>1, <4>3, <3>2, <2>1, <2>7
        <5> QED BY <5>1
      <4> QED BY <4>2, <4>3
    <3> QED BY <3>1, <3>2, <2>0, <2>6, ElementsOf
  <2> QED BY <2>4, <2>6, <2>8, <2>9
<1> QED BY <1>1, <1>2

(* What the application knows after one more callback is queued, and after  *)
(* the first of them was made.                                              *)
LEMMA KnownAppended ==
  ASSUME NEW q \in Seq(Calls), NEW w \in Calls, NEW t, NEW c, NEW s
  PROVE  /\ \A i \in 1 .. (Len(q) + 1) : Known(Append(q, w), t, c, i, s) <=> Known(q, t, c, i, s)
         /\ w.conn = c => (Known(Append(q, w), t, c, Len(q) + 2, s) <=> (w.do = "closed" <=> s = "closed"))
         /\ w.conn # c => (Known(Append(q, w), t, c, Len(q) + 2, s) <=> Known(q, t, c, Len(q) + 1, s))
<1>0. PICK n \in Nat : n = Len(q) OBVIOUS
<1>1. PICK r \in Seq(Calls) : r = Append(q, w) BY Appended
<1>2. Len(r) = n + 1 /\ r[n + 1] = w /\ \A i \in 1 .. n : r[i] = q[i]
  BY <1>0, <1>1, Appended
<1>3. ASSUME NEW i \in 1 .. (n + 1) PROVE Known(r, t, c, i, s) <=> Known(q, t, c, i, s)
  <2>1. \A k \in 1 .. (i - 1) : k \in 1 .. n /\ r[k] = q[k] BY <1>2
  <2>2. \A j \in 1 .. (i - 1) : \A k \in (j + 1) .. (i - 1) : k \in 1 .. (i - 1) OBVIOUS
  <2>3. (\A k \in 1 .. (i - 1) : r[k].conn # c) <=> (\A k \in 1 .. (i - 1) : q[k].conn # c)
    BY <2>1
  <2>4. ASSUME NEW j \in 1 .. (i - 1)
        PROVE  /\ r[j] = q[j]
               /\ (\A k \in (j + 1) .. (i - 1) : r[k].conn # c)
                    <=> (\A k \in (j + 1) .. (i - 1) : q[k].conn # c)
    BY <2>1, <2>2
  <2> QED BY <2>3, <2>4 DEF Known
<1>4. ASSUME w.conn = c
      PROVE  Known(r, t, c, n + 2, s) <=> (w.do = "closed" <=> s = "closed")
  <2>1. (n + 2) - 1 = n + 1 /\ n + 1 \in 1 .. (n + 1) OBVIOUS
  <2>2. ~(\A k \in 1 .. (n + 1) : r[k].conn # c) BY <1>2, <1>4, <2>1
  <2>3. \A j \in 1 .. (n + 1) : (\A k \in (j + 1) .. (n + 1) : r[k].conn # c) => j = n + 1
    <3> SUFFICES ASSUME NEW j \in 1 .. (n + 1), j # n + 1
                 PROVE  ~(\A k \in (j + 1) .. (n + 1) : r[k].conn # c)
      OBVIOUS
    <3>1. n + 1 \in (j + 1) .. (n + 1) OBVIOUS
    <3> QED BY <3>1, <1>2, <1>4
  <2>4. \A k \in ((n + 1) + 1) .. (n + 1) : FALSE OBVIOUS
  <2> QED BY <1>2, <1>4, <2>1, <2>2, <2>3, <2>4 DEF Known
<1>5. ASSUME w.conn # c
      PROVE  Known(r, t, c, n + 2, s) <=> Known(q, t, c, n + 1, s)
  <2>1. (n + 2) - 1 = n + 1 /\ (n + 1) - 1 = n OBVIOUS
  <2>2. \A j \in 1 .. (n + 1) : j \in 1 .. n \/ j = n + 1 OBVIOUS
  <2>3. \A j \in 1 .. (n + 1) : (\A k \in (j + 1) .. (n + 1) : r[k].conn # c)
                                  <=> (\A k \in (j + 1) .. n : q[k].conn # c)
    <3> SUFFICES ASSUME NEW j \in 1 .. (n + 1)
                 PROVE  (\A k \in (j + 1) .. (n + 1) : r[k].conn # c)
                          <=> (\A k \in (j + 1) .. n : q[k].conn # c)
      OBVIOUS
    <3>1. \A k \in (j + 1) .. n : k \in (j + 1) .. (n + 1) /\ r[k] = q[k] BY <1>2
    <3>2. \A k \in (j + 1) .. (n + 1) : k \in (j + 1) .. n \/ k = n + 1 OBVIOUS
    <3> QED BY <3>1, <3>2, <1>2, <1>5
  <2>4. (\A k \in 1 .. (n + 1) : r[k].conn # c) <=> (\A k \in 1 .. n : q[k].conn # c)
    BY <1>2, <1>5, <2>2
  <2>5. (\E j \in 1 .. (n + 1) : /\ r[j].conn = c /\ (r[j].do = "closed" <=> s = "closed")
                                 /\ \A k \in (j + 1) .. (n + 1) : r[k].conn # c)
        <=> (\E j \in 1 .. n : /\ q[j].conn = c /\ (q[j].do = "closed" <=> s = "closed")
                               /\ \A k \in (j + 1) .. n : q[k].conn # c)
    <3>1. \A j \in 1 .. n : j \in 1 .. (n + 1) /\ r[j] = q[j] BY <1>2
    <3>2. \A j \in 1 .. (n + 1) : r[j].conn = c => j \in 1 .. n BY <1>2, <1>5, <2>2
    <3> QED BY <2>3, <3>1, <3>2
  <2> QED BY <2>1, <2>4, <2>5 DEF Known
<1> QED BY <1>0, <1>1, <1>3, <1>4, <1>5

LEMMA KnownShifted ==
  ASSUME NEW q \in Seq(Calls), q # <<>>, NEW t, NEW u, NEW c, NEW s \in {"opened", "closed"},
         NEW i \in 1 .. Len(q), Known(q, t, c, i + 1, s),
         Head(q).conn # c => u = t,
         Head(q).conn = c => u = (IF Head(q).do = "closed" THEN "closed" ELSE "opened")
  PROVE  Known(Tail(q), u, c, i, s)
<1>0. PICK n \in Nat : n = Len(q) OBVIOUS
<1>1. PICK r \in Seq(Calls) : r = Tail(q) BY Shifted
<1>2. Head(q) = q[1] /\ n >= 1 /\ Len(r) = n - 1 /\ \A k \in 1 .. (n - 1) : r[k] = q[k + 1]
  BY <1>0, <1>1, Shifted
<1>3. i \in 1 .. n /\ (i + 1) - 1 = i BY <1>0
<1>4. CASE t = s /\ \A k \in 1 .. i : q[k].conn # c
  <2>1. \A k \in 1 .. (i - 1) : r[k].conn # c
    <3> SUFFICES ASSUME NEW k \in 1 .. (i - 1) PROVE r[k].conn # c OBVIOUS
    <3>1. k \in 1 .. (n - 1) /\ k + 1 \in 1 .. i BY <1>3
    <3> QED BY <3>1, <1>2, <1>4
  <2>2. u = t BY <1>2, <1>3, <1>4
  <2> QED BY <1>1, <1>4, <2>1, <2>2 DEF Known
<1>5. ASSUME NEW j \in 1 .. i, q[j].conn = c, q[j].do = "closed" <=> s = "closed",
             \A k \in (j + 1) .. i : q[k].conn # c
      PROVE  Known(r, u, c, i, s)
  <2>1. CASE j = 1
    <3>1. \A k \in 1 .. (i - 1) : r[k].conn # c
      <4> SUFFICES ASSUME NEW k \in 1 .. (i - 1) PROVE r[k].conn # c OBVIOUS
      <4>1. k \in 1 .. (n - 1) /\ k + 1 \in (j + 1) .. i BY <1>3, <2>1
      <4> QED BY <4>1, <1>2, <1>5
    <3>2. u = s BY <1>2, <1>5, <2>1
    <3> QED BY <3>1, <3>2 DEF Known
  <2>2. CASE j # 1
    <3>1. j - 1 \in 1 .. (i - 1) /\ j - 1 \in 1 .. (n - 1) /\ (j - 1) + 1 = j BY <1>3, <2>2
    <3>2. r[j - 1] = q[j] BY <1>2, <3>1
    <3>3. \A k \in ((j - 1) + 1) .. (i - 1) : r[k].conn # c
      <4> SUFFICES ASSUME NEW k \in j .. (i - 1) PROVE r[k].conn # c BY <3>1
      <4>1. k \in 1 .. (n - 1) /\ k + 1 \in (j + 1) .. i BY <1>3
      <4> QED BY <4>1, <1>2, <1>5
    <3> QED BY <1>5, <3>1, <3>2, <3>3 DEF Known
  <2> QED BY <2>1, <2>2
<1> QED BY <1>1, <1>3, <1>4, <1>5 DEF Known

-----------------------------------------------------------------------------
LEMMA InitInv == Init => Inv
<1> SUFFICES ASSUME Init PROVE Inv OBVIOUS
<1> USE LoopAssumption DEF Init
<1>1. Cardinality(Conns) \in Nat BY FS_CardinalityType
<1>2. Types
  <2>1. loop \in LoopType
    BY <1>1 DEF LoopType, Places, Dues, Iteration, Phases
  <2>2. now \in 0 .. MaxNow /\ step \in 0 .. now /\ loop.wake <= now + MaxIdle
    BY DEF Iteration
  <2>3. sockets \in Seq(Conns) /\ files \in Seq(Conns) /\ queue \in Seq(Works)
    OBVIOUS
  <2>4. conn \in [Conns -> [state: States, left: 0 .. FileSteps]] BY DEF States
  <2>5. worker \in WorkerType BY DEF WorkerType
  <2>6. life \in LifeType BY DEF LifeType
  <2>7. used \in UsedType BY DEF UsedType
  <2> QED BY <2>1, <2>2, <2>3, <2>4, <2>5, <2>6, <2>7 DEF Types
<1>3. VectorInv
  BY DEF VectorInv, NoRepeats, Elements, Socketed, SocketsStandStill, Iteration
<1>4. WorkInv BY DEF WorkInv, TimersFit, WorksFit, WorksOrdered, PeersFit
<1>5. LifeInv BY DEF LifeInv, AssertionsHold
<1>6. OrderInv BY DEF OrderInv, CallsOrdered, WorkTells, StatesTold, WillKnow, Known
<1>7. SleepInv BY DEF SleepInv, Settled, Iteration
<1> QED BY <1>2, <1>3, <1>4, <1>5, <1>6, <1>7 DEF Inv

-----------------------------------------------------------------------------
(* The earliest time of a set of times exists.                              *)
LEMMA LeastExists ==
  ASSUME NEW S \in SUBSET Nat, NEW default
  PROVE  /\ S = {} => Least(S, default) = default
         /\ S # {} => Least(S, default) \in S /\ \A y \in S : Least(S, default) <= y
<1>1. CASE S = {} BY <1>1 DEF Least
<1>2. CASE S # {}
  <2> DEFINE R == OpToRel(<, Nat)
  <2>1. IsWellFoundedOn(R, Nat) BY NatLessThanWellFounded
  <2>2. \A x, y \in Nat : x < y => <<x, y>> \in R BY DEF OpToRel
  <2> HIDE DEF R
  <2>3. PICK x \in S : \A y \in S : ~(<<y, x>> \in R) BY <1>2, <2>1, WFMin
  <2>4. \A y \in S : x <= y
    <3> SUFFICES ASSUME NEW y \in S, ~(x <= y) PROVE FALSE OBVIOUS
    <3>1. y < x OBVIOUS
    <3> QED BY <3>1, <2>2, <2>3
  <2> QED BY <1>2, <2>4 DEF Least
<1> QED BY <1>1, <1>2

LEMMA Counted ==
  ASSUME used \in UsedType,
         \/ used' = [used EXCEPT !.connects = @ + 1]
         \/ used' = [used EXCEPT !.data = @ + 1]
         \/ used' = [used EXCEPT !.faults = @ + 1]
  PROVE  used' \in UsedType
BY DEF UsedType

(* The actions of the application and of the servers keep the types.        *)
LEMMA AppTypes ==
  ASSUME Types, NEW by \in {"app", "worker"}, NEW c \in Conns,
         AppConnects(c, by) \/ AppCancels(c, by) \/ AppShutsDown(c, by)
           \/ ServerAnswers(c) \/ ServerSends(c)
  PROVE  Types'
<1> USE LoopAssumption DEF Types
<1>1. CASE AppConnects(c, by)
  <2>1. timers' \subseteq [conn: Conns, due: 0 .. MaxNow, by: {"app", "worker"}]
    <3>1. PICK d \in Delays : /\ step + d <= MaxNow
                              /\ timers' = timers \cup {[conn |-> c, due |-> step + d, by |-> by]}
      BY <1>1 DEF AppConnects
    <3>2. step + d \in 0 .. MaxNow BY <3>1
    <3> QED BY <3>1, <3>2
  <2>2. conn' \in [Conns -> [state: States, left: 0 .. FileSteps]]
    BY <1>1 DEF AppConnects, States
  <2>3. used' \in UsedType BY <1>1, Counted DEF AppConnects
  <2>4. life' \in LifeType BY <1>1 DEF AppConnects, MainDispatcherUsed, LifeType
  <2> QED BY <1>1, <2>1, <2>2, <2>3, <2>4 DEF AppConnects
<1>2. CASE AppCancels(c, by)
  <2>1. timers' \subseteq [conn: Conns, due: 0 .. MaxNow, by: {"app", "worker"}]
    BY <1>2 DEF AppCancels
  <2>2. conn' \in [Conns -> [state: States, left: 0 .. FileSteps]]
    BY <1>2 DEF AppCancels, States
  <2>3. life' \in LifeType BY <1>2 DEF AppCancels, MainDispatcherUsed, LifeType
  <2> QED BY <1>2, <2>1, <2>2, <2>3 DEF AppCancels
<1>3. CASE AppShutsDown(c, by)
  <2>1. queue' \in Seq(Works)
    BY <1>3, Appended DEF AppShutsDown, Posted, Work, Works
  <2>2. conn' \in [Conns -> [state: States, left: 0 .. FileSteps]]
    BY <1>3 DEF AppShutsDown, States
  <2>3. life' \in LifeType BY <1>3 DEF AppShutsDown, MainDispatcherUsed, LifeType
  <2> QED BY <1>3, <2>1, <2>2, <2>3 DEF AppShutsDown
<1>4. CASE ServerAnswers(c) BY <1>4 DEF ServerAnswers, Dispatcher
<1>5. CASE ServerSends(c)
  <2>1. used' \in UsedType BY <1>5, Counted DEF ServerSends
  <2> QED BY <1>5, <2>1 DEF ServerSends, Dispatcher
<1> QED BY <1>1, <1>2, <1>3, <1>4, <1>5

(* So do the worker's, and those of an iteration up to its step.            *)
LEMMA WorkerTypes ==
  ASSUME Types,
         \/ Worker \/ DestroyPool \/ Join \/ AppDeletes
         \/ \E by \in {"app", "worker"} : AppStops(by)
  PROVE  Types'
<1> USE LoopAssumption DEF Types, WorkerType
<1>1. CASE WorkerChecks BY <1>1 DEF WorkerChecks, Others, Dispatcher
<1>2. CASE WorkerTakes
  <2>1. /\ Head(worker.queue) \in Calls /\ Tail(worker.queue) \in Seq(Calls)
    BY <1>2, Shifted DEF WorkerTakes
  <2>2. worker' \in WorkerType BY <1>2, <2>1 DEF WorkerTakes
  <2>3. told' \in [Conns -> {"opened", "closed"}] BY <1>2, <2>1 DEF WorkerTakes, Calls
  <2> QED BY <1>2, <2>2, <2>3 DEF WorkerTakes, Others, Dispatcher
<1>3. CASE WorkerReturns BY <1>3 DEF WorkerReturns, Others, Dispatcher
<1>4. CASE WorkerEnds BY <1>4 DEF WorkerEnds, Others, Dispatcher
<1>5. CASE DestroyPool
  <2>1. loop' \in LoopType /\ loop'.wake = loop.wake
    BY <1>5 DEF DestroyPool, Goes, LoopType, Phases
  <2> QED BY <1>5, <2>1 DEF DestroyPool, StopWorker, Dispatcher
<1>6. CASE Join
  <2>1. loop' \in LoopType /\ loop'.wake = loop.wake BY <1>6 DEF Join, Goes, LoopType, Phases
  <2> QED BY <1>6, <2>1 DEF Join, Dispatcher
<1>7. CASE \E by \in {"app", "worker"} : AppStops(by)
  <2>1. life' \in LifeType BY <1>7 DEF AppStops, LifeType
  <2> QED BY <1>7, <2>1 DEF AppStops, Dispatcher
<1>8. CASE AppDeletes
  <2>1. life' \in LifeType BY <1>8 DEF AppDeletes, LifeType
  <2>2. loop' \in LoopType /\ loop'.wake = loop.wake BY <1>8 DEF AppDeletes, LoopType, Phases
  <2> QED BY <1>8, <2>1, <2>2 DEF AppDeletes, Dispatcher
<1> QED BY <1>1, <1>2, <1>3, <1>4, <1>5, <1>6, <1>7, <1>8 DEF Worker

(* An iteration walks vectors that are never longer than there are           *)
(* connections, and sleeps no longer than it may.                            *)
LEMMA IterationTypes ==
  ASSUME Types, VectorInv,
         BeginIteration \/ FileHandler \/ EndFiles \/ TimePasses \/ Select \/ SelectFails
           \/ WalkSocket \/ EndWalk
  PROVE  Types'
<1>0. /\ now \in Nat /\ now <= MaxNow /\ step \in Nat /\ step <= now /\ MaxNow \in Nat
      /\ loop.wake <= now + MaxIdle /\ MaxIdle \in Nat /\ DefaultIdle \in Nat
      /\ sockets \in Seq(Conns) /\ files \in Seq(Conns) /\ queue \in Seq(Works)
  BY LoopAssumption DEF Types
<1>a. timers \subseteq [conn: Conns, due: 0 .. MaxNow, by: {"app", "worker"}]
  BY DEF Types
<1>b. loop \in LoopType BY DEF Types
<1>c. conn \in [Conns -> [state: States, left: 0 .. FileSteps]] BY DEF Types
<1>1. /\ Len(sockets) <= Cardinality(Conns) /\ Len(files) <= Cardinality(Conns)
      /\ Len(sockets) \in Nat /\ Len(files) \in Nat /\ Cardinality(Conns) \in Nat
  BY <1>0, LenBound DEF VectorInv
<1>d. /\ 1 \in Places /\ loop.i \in Nat
      /\ \A i \in Nat : i <= Len(sockets) \/ i <= Len(files) => i + 1 \in Places
  BY <1>1, <1>b DEF Places, LoopType
<1>2. CASE BeginIteration
  <2>1. {t.due : t \in timers} \subseteq Nat BY <1>0, <1>a
  <2>2. Least({t.due : t \in timers}, -1) \in Dues BY <2>1, LeastExists DEF Dues
  <2> DEFINE due == Least({t.due : t \in timers}, -1)
  <2> HIDE DEF due
  <2>3. loop' = [loop EXCEPT !.at = "files", !.i = 1, !.noted = sockets, !.updated = FALSE, !.due = due]
    BY <1>2 DEF BeginIteration, due
  <2>4. due \in Dues /\ "files" \in Phases BY <2>2 DEF due, Phases
  <2>5. loop' \in LoopType /\ loop'.wake = loop.wake
    BY <1>0, <1>b, <1>d, <2>3, <2>4 DEF LoopType
  <2> QED BY <1>2, <2>5 DEF Types, BeginIteration, Dispatcher
<1>3. CASE FileHandler
  <2>1. PICK c \in Conns : c = files[loop.i] BY <1>0, <1>d, <1>3, <1>b DEF FileHandler, LoopType, Places
  <2>2. Unregistered(files, c) \in Seq(Conns) BY <1>0, TakenOut DEF VectorInv
  <2>3. Append(Unregistered(files, c), c) \in Seq(Conns) BY <2>2
  <2>4. files' \in Seq(Conns)
    BY <1>3, <2>1, <2>2, <2>3 DEF FileHandler
  <2>5. Work("connect", c, "loop") \in Works BY DEF Work, Works
  <2>6. queue' \in Seq(Works)
    BY <1>0, <1>3, <2>1, <2>5, Appended DEF FileHandler, Posted
  <2>7. conn' \in [Conns -> [state: States, left: 0 .. FileSteps]]
    <3>0. FileSteps \in Nat BY LoopAssumption
    <3>3. conn[c].left > 1 \/ conn[c].left = 1 BY <1>3, <2>1 DEF FileHandler
    <3>1. conn[c].left - 1 \in 0 .. FileSteps BY <1>c, <3>0, <3>3
    <3>2. conn' = [conn EXCEPT ![c].left = conn[c].left - 1] BY <1>3, <2>1 DEF FileHandler
    <3> QED BY <1>c, <3>1, <3>2
  <2>8. loop' \in LoopType /\ loop'.wake = loop.wake
    <3>1. loop.i + 1 \in Places BY <1>d, <1>3 DEF FileHandler
    <3>2. loop' = [loop EXCEPT !.i = loop.i + 1, !.updated = TRUE] BY <1>3 DEF FileHandler
    <3> QED BY <1>b, <3>1, <3>2 DEF LoopType
  <2> QED BY <1>3, <2>4, <2>6, <2>7, <2>8 DEF Types, FileHandler
<1>4. CASE EndFiles
  <2>0. loop.due \in Nat \cup {-1} BY <1>b DEF LoopType, Dues
  <2>1. Timeout \in Nat /\ Timeout <= MaxIdle
    BY <1>0, <2>0 DEF Timeout, Clamped
  <2>2. now + Timeout \in Nat /\ now + Timeout <= now + MaxIdle BY <1>0, <2>1
  <2>3. loop' = [loop EXCEPT !.at = "select", !.i = 1, !.due = -1, !.wake = now + Timeout]
    BY <1>4 DEF EndFiles
  <2>4. "select" \in Phases /\ -1 \in Dues BY DEF Phases, Dues
  <2>5. loop' \in LoopType /\ loop'.wake = now + Timeout
    BY <1>b, <1>d, <2>2, <2>3, <2>4 DEF LoopType
  <2> QED BY <1>4, <2>2, <2>5 DEF Types, EndFiles, Dispatcher
<1>5. CASE TimePasses
  <2>1. now' \in 0 .. MaxNow /\ step' \in 0 .. now' /\ loop.wake <= now' + MaxIdle
    <3>1. loop.wake \in Nat /\ now' = now + 1 /\ now < MaxNow /\ step' = step
      BY <1>b, <1>5 DEF TimePasses, LoopType
    <3> QED BY <1>0, <3>1
  <2> QED BY <1>5, <2>1 DEF Types, TimePasses, Dispatcher
<1>6. CASE Select
  <2>1. Ready \in SUBSET Conns
    <3>1. loop.noted \in Seq(Conns) BY <1>b DEF LoopType
    <3> QED BY <3>1 DEF Ready, Elements
  <2>2. loop' = [loop EXCEPT !.at = "walk", !.updated = FALSE, !.wake = 0, !.ready = Ready]
    BY <1>6 DEF Select
  <2>3. loop' \in LoopType /\ loop'.wake = 0
    BY <1>b, <2>1, <2>2 DEF LoopType, Phases
  <2>4. loop'.wake <= now' + MaxIdle BY <1>0, <1>6, <2>3 DEF Select
  <2> QED BY <1>6, <2>3, <2>4 DEF Types, Select, Dispatcher
<1>7. CASE SelectFails
  <2>1. loop' \in LoopType /\ loop'.wake = 0
    BY <1>d, <1>7 DEF SelectFails, Iteration, LoopType, Phases, Dues
  <2>2. loop'.wake <= now' + MaxIdle
    <3>1. now' = now BY <1>7 DEF SelectFails
    <3> QED BY <1>0, <2>1, <3>1
  <2>3. used' \in UsedType BY <1>7, Counted DEF SelectFails, Types
  <2> QED BY <1>7, <2>1, <2>2, <2>3 DEF Types, SelectFails, Dispatcher
<1>8. CASE WalkSocket
  <2>1. PICK c \in Conns : c = sockets[loop.i] BY <1>0, <1>8, <1>b DEF WalkSocket, LoopType, Places
  <2>2. \A do \in {"opened", "pull", "close"} : Append(queue, Work(do, c, "loop")) \in Seq(Works)
    <3>1. \A do \in {"opened", "pull", "close"} : Work(do, c, "loop") \in Works
      BY DEF Work, Works
    <3> QED BY <1>0, <3>1, Appended
  <2>3. queue' \in Seq(Works)
    BY <1>0, <1>8, <2>1, <2>2 DEF WalkSocket, HandleSocket, SocketHandler, Posted
  <2>4. conn' \in [Conns -> [state: States, left: 0 .. FileSteps]] /\ sockets' = sockets
    BY <1>c, <1>8, <2>1 DEF WalkSocket, HandleSocket, SocketHandler, States
  <2>5. peer' \in [Conns -> {"quiet", "connected", "data", "reset"}]
    <3>1. peer \in [Conns -> {"quiet", "connected", "data", "reset"}] BY DEF Types
    <3> QED BY <1>8, <2>1, <3>1 DEF WalkSocket, HandleSocket, SocketHandler
  <2>6. life' \in LifeType
    <3>1. life \in LifeType BY DEF Types
    <3> DEFINE misplaced == life.abort \/ loop.i > Len(loop.noted) \/ loop.noted[loop.i] # sockets[loop.i]
    <3>2. life' = [life EXCEPT !.abort = misplaced] BY <1>8 DEF WalkSocket
    <3>3. misplaced \in BOOLEAN OBVIOUS
    <3> HIDE DEF misplaced
    <3> QED BY <3>1, <3>2, <3>3 DEF LifeType
  <2>7. loop' \in LoopType /\ loop'.wake = loop.wake
    <3>1. loop.i + 1 \in Places BY <1>d, <1>8 DEF WalkSocket
    <3>2. loop' = [loop EXCEPT !.i = loop.i + 1] BY <1>8 DEF WalkSocket
    <3> QED BY <1>b, <3>1, <3>2 DEF LoopType
  <2> QED BY <1>8, <2>3, <2>4, <2>5, <2>6, <2>7 DEF Types, WalkSocket
<1>9. CASE EndWalk
  <2>1. loop' \in LoopType /\ loop'.wake = 0
    BY <1>b, <1>d, <1>9 DEF EndWalk, Iteration, LoopType, Phases, Dues
  <2>2. loop'.wake <= now' + MaxIdle /\ step' \in 0 .. now' BY <1>0, <1>9, <2>1 DEF EndWalk
  <2> QED BY <1>9, <2>1, <2>2 DEF Types, EndWalk, Dispatcher
<1> QED BY <1>2, <1>3, <1>4, <1>5, <1>6, <1>7, <1>8, <1>9

(* And those of the step: events and calls.                                  *)
LEMMA StepTypes ==
  ASSUME Types, VectorInv, TimeEvent \/ TimeEventFails \/ EndTimers \/ CallQueued \/ EndCalls
  PROVE  Types'
<1>0. /\ now \in Nat /\ MaxIdle \in Nat /\ FileSteps \in Nat /\ Cardinality(Conns) \in Nat
  BY LoopAssumption, FS_CardinalityType DEF Types
<1>1. /\ sockets \in Seq(Conns) /\ files \in Seq(Conns) /\ queue \in Seq(Works)
      /\ timers \subseteq [conn: Conns, due: 0 .. MaxNow, by: {"app", "worker"}]
      /\ loop \in LoopType
  BY DEF Types
<1>2. conn \in [Conns -> [state: States, left: 0 .. FileSteps]] BY DEF Types
<1>3. CASE TimeEvent
  <2>1. PICK t \in timers : /\ timers' = timers \ {t}
                            /\ queue' = Append(queue, Work("init", t.conn, "loop"))
    BY <1>3 DEF TimeEvent, Due, Posted
  <2>2. Work("init", t.conn, "loop") \in Works BY <1>1, <2>1 DEF Work, Works
  <2>3. queue' \in Seq(Works) BY <1>1, <2>1, <2>2, Appended
  <2>4. timers' \subseteq [conn: Conns, due: 0 .. MaxNow, by: {"app", "worker"}]
    BY <1>1, <2>1
  <2> QED BY <1>3, <2>3, <2>4 DEF Types, TimeEvent
<1>4. CASE TimeEventFails
  <2>1. PICK t \in timers : /\ timers' = timers \ {t}
                            /\ conn' = [conn EXCEPT ![t.conn].state = "closed"]
    BY <1>4 DEF TimeEventFails, Due
  <2>2. conn' \in [Conns -> [state: States, left: 0 .. FileSteps]]
    BY <1>2, <2>1 DEF States
  <2>3. timers' \subseteq [conn: Conns, due: 0 .. MaxNow, by: {"app", "worker"}]
    BY <1>1, <2>1
  <2>4. life' \in LifeType
    <3>1. life \in LifeType /\ life' = [life EXCEPT !.stop = TRUE]
      BY <1>4 DEF Types, TimeEventFails
    <3> QED BY <3>1 DEF LifeType
  <2>5. used' \in UsedType BY <1>4, Counted DEF TimeEventFails, Types
  <2> QED BY <1>4, <2>2, <2>3, <2>4, <2>5 DEF Types, TimeEventFails
<1>5. CASE EndTimers
  <2>1. loop' = [loop EXCEPT !.at = "calls"] BY <1>5 DEF EndTimers, Goes
  <2>2. loop' \in LoopType /\ loop'.wake = loop.wake BY <1>1, <2>1 DEF LoopType, Phases
  <2> QED BY <1>5, <2>2 DEF Types, EndTimers, Dispatcher
<1>6. CASE CallQueued
  <2>1. queue # <<>> /\ queue' = Tail(queue) BY <1>6 DEF CallQueued
  <2>2. Head(queue) \in Works /\ queue' \in Seq(Works) BY <1>1, <2>1, Shifted
  <2>3. PICK c \in Conns : c = Head(queue).conn BY <2>2 DEF Works
  <2>4. /\ Append(files, c) \in Seq(Conns) /\ Append(sockets, c) \in Seq(Conns)
        /\ Unregistered(sockets, c) \in Seq(Conns)
    BY <1>1, TakenOut DEF VectorInv
  <2>5. /\ sockets' \in {sockets, Append(sockets, c), Unregistered(sockets, c)}
        /\ files' \in {files, Append(files, c)}
    BY <1>6, <2>3 DEF CallQueued, InitCalled, ConnectCalled, CloseCalled
  <2>6. \/ UNCHANGED conn
        \/ conn' = [conn EXCEPT ![c] = [state |-> "loading", left |-> FileSteps]]
        \/ \E s \in {"connecting", "closed"} : conn' = [conn EXCEPT ![c].state = s]
    BY <1>6, <2>3 DEF CallQueued, InitCalled, ConnectCalled, CloseCalled
  <2>7. conn' \in [Conns -> [state: States, left: 0 .. FileSteps]]
    BY <1>0, <1>2, <2>6 DEF States
  <2>8. peer' \in [Conns -> {"quiet", "connected", "data", "reset"}]
    <3>1. peer \in [Conns -> {"quiet", "connected", "data", "reset"}] BY DEF Types
    <3>2. UNCHANGED peer \/ peer' = [peer EXCEPT ![c] = "quiet"]
      BY <1>6, <2>3 DEF CallQueued, InitCalled, ConnectCalled, CloseCalled
    <3> QED BY <3>1, <3>2
  <2>9. worker' \in WorkerType
    <3>1. worker \in WorkerType /\ worker.queue \in Seq(Calls) BY DEF Types, WorkerType
    <3>2. UNCHANGED worker \/ \E do \in {"opened", "message", "closed"} :
            worker' = [worker EXCEPT !.queue = Append(worker.queue, [do |-> do, conn |-> c])]
      BY <1>6, <2>3 DEF CallQueued, InitCalled, ConnectCalled, CloseCalled, Callback, Posted
    <3>3. \A do \in {"opened", "message", "closed"} :
             Append(worker.queue, [do |-> do, conn |-> c]) \in Seq(Calls)
      <4>1. \A do \in {"opened", "message", "closed"} : [do |-> do, conn |-> c] \in Calls
        BY DEF Calls
      <4> QED BY <3>1, <4>1, Appended
    <3> QED BY <3>1, <3>2, <3>3 DEF WorkerType
  <2>10. life' \in LifeType
    <3>1. life \in LifeType BY DEF Types
    <3> DEFINE twice == \/ life.abort
                        \/ Head(queue).do = "connect" /\ Head(queue).conn \in Elements(sockets)
    <3>2. life' = [life EXCEPT !.abort = twice] BY <1>6 DEF CallQueued
    <3>3. twice \in BOOLEAN OBVIOUS
    <3> HIDE DEF twice
    <3> QED BY <3>1, <3>2, <3>3 DEF LifeType
  <2>11. UNCHANGED <<loop, now, step, timers, told, used>> BY <1>6 DEF CallQueued
  <2>12. sockets' \in Seq(Conns) /\ files' \in Seq(Conns) BY <1>1, <2>4, <2>5
  <2> QED BY <2>2, <2>7, <2>8, <2>9, <2>10, <2>11, <2>12 DEF Types
<1>7. CASE EndCalls
  <2>1. loop' \in LoopType /\ loop'.wake = 0
    BY <1>0, <1>7 DEF EndCalls, Iteration, LoopType, Phases, Dues, Places
  <2>2. loop'.wake <= now' + MaxIdle
    <3>1. now' = now BY <1>7 DEF EndCalls
    <3> QED BY <1>0, <2>1, <3>1
  <2> QED BY <1>7, <2>1, <2>2 DEF Types, EndCalls, Dispatcher
<1> QED BY <1>3, <1>4, <1>5, <1>6, <1>7

(* A connect that fails at once.                                             *)
LEMMA ConnectFailsTypes ==
  ASSUME Types, ConnectFails
  PROVE  Types'
<1>1. /\ sockets \in Seq(Conns) /\ queue \in Seq(Works) /\ queue # <<>>
      /\ conn \in [Conns -> [state: States, left: 0 .. FileSteps]] /\ life \in LifeType
  BY DEF Types, ConnectFails
<1>2. Head(queue) \in Works /\ Tail(queue) \in Seq(Works) BY <1>1, Shifted
<1>3. PICK c \in Conns : c = Head(queue).conn BY <1>2 DEF Works
<1>4. Work("close", c, "loop") \in Works BY DEF Work, Works
<1>5. queue' \in Seq(Works) BY <1>2, <1>3, <1>4, Appended DEF ConnectFails, Posted
<1>6. sockets' \in Seq(Conns) BY <1>1, <1>3, Appended DEF ConnectFails
<1>7. conn' \in [Conns -> [state: States, left: 0 .. FileSteps]]
  BY <1>1, <1>3 DEF ConnectFails, States
<1>8. life' \in LifeType
  <2> DEFINE twice == life.abort \/ c \in Elements(sockets)
  <2>1. life' = [life EXCEPT !.abort = twice] BY <1>3 DEF ConnectFails
  <2>2. twice \in BOOLEAN OBVIOUS
  <2> HIDE DEF twice
  <2> QED BY <1>1, <2>1, <2>2 DEF LifeType
<1>9. used' \in UsedType BY Counted DEF ConnectFails, Types
<1> QED BY <1>5, <1>6, <1>7, <1>8, <1>9 DEF Types, ConnectFails

(* The steps of the specification, one by one.                               *)
Step ==
  \/ BeginIteration \/ FileHandler \/ EndFiles \/ TimePasses \/ Select \/ SelectFails
  \/ WalkSocket \/ EndWalk
  \/ TimeEvent \/ TimeEventFails \/ EndTimers \/ CallQueued \/ ConnectFails \/ EndCalls
  \/ Worker \/ DestroyPool \/ Join
  \/ \E by \in {"app", "worker"}, c \in Conns :
       \/ AppConnects(c, by) \/ AppCancels(c, by) \/ AppShutsDown(c, by)
       \/ ServerAnswers(c) \/ ServerSends(c)
  \/ AppDeletes
  \/ \E by \in {"app", "worker"} : AppStops(by)

LEMMA NextSteps == Next => Step
BY DEF Next, LoopStep, Step

LEMMA TypesStep ==
  ASSUME Types, VectorInv, Step
  PROVE  Types'
BY AppTypes, WorkerTypes, IterationTypes, StepTypes, ConnectFailsTypes DEF Step

-----------------------------------------------------------------------------
(* A step that leaves the vectors alone, and no connection's socket or      *)
(* loading either.                                                          *)
LEMMA VectorFrame ==
  ASSUME VectorInv, UNCHANGED <<sockets, files>>, SocketsStandStill',
         \A c \in Conns : conn'[c].state \in Socketed <=> conn[c].state \in Socketed,
         \A c \in Elements(files) : conn'[c].state = conn[c].state
  PROVE  VectorInv'
BY DEF VectorInv, NoRepeats, Elements

LEMMA WorkTypes ==
  ASSUME Types
  PROVE  /\ \A i \in 1 .. Len(queue) :
              /\ queue[i].conn \in Conns
              /\ queue[i].do \in {"init", "connect", "opened", "pull", "close"}
         /\ \A t \in timers : t.conn \in Conns
<1>1. \A i \in 1 .. Len(queue) : queue[i] \in Works BY DEF Types
<1>2. \A i \in 1 .. Len(queue) : /\ queue[i].conn \in Conns
                                 /\ queue[i].do \in {"init", "connect", "opened", "pull", "close"}
  BY <1>1 DEF Works
<1> QED BY <1>2 DEF Types

(* What a connect that fails at once changes: the connection, for which       *)
(* nothing else was queued, is left with the call that closes it.             *)
LEMMA ConnectFailsFacts ==
  ASSUME Types, VectorInv, WorkInv, ConnectFails
  PROVE  \E c \in Conns, n \in Nat \ {0} :
           /\ conn[c].state = "loading" /\ c \notin Elements(files) /\ c \notin Elements(sockets)
           /\ conn'[c].state = "closing" /\ \A d \in Conns : d # c => conn'[d] = conn[d]
           /\ Head(queue).conn = c /\ sockets' = Append(sockets, c)
           /\ n = Len(queue) /\ n = Len(queue')
           /\ queue'[n].conn = c /\ queue'[n].do = "close"
           /\ queue[1].conn = c /\ queue[1].do = "connect"
           /\ \A i \in 1 .. (n - 1) : queue'[i] = queue[i + 1] /\ queue'[i].conn # c
<1>1. /\ queue \in Seq(Works) /\ queue # <<>>
      /\ conn \in [Conns -> [state: States, left: 0 .. FileSteps]]
  BY DEF Types, ConnectFails
<1>2. PICK n \in Nat : n = Len(queue) /\ n >= 1 BY <1>1, Shifted
<1>3. /\ Head(queue) = queue[1] /\ 1 \in 1 .. n /\ queue[1].do = "connect"
      /\ Tail(queue) \in Seq(Works) /\ Len(Tail(queue)) = n - 1
      /\ \A i \in 1 .. (n - 1) : Tail(queue)[i] = queue[i + 1]
  BY <1>1, <1>2, Shifted DEF ConnectFails
<1>4. PICK c \in Conns : c = Head(queue).conn BY <1>2, <1>3, WorkTypes
<1>5. Fits(queue[1], c) BY <1>2, <1>3, <1>4 DEF WorkInv, WorksFit
<1>6. conn[c].state = "loading" /\ c \notin Elements(files) BY <1>3, <1>5 DEF Fits
<1>7. c \notin Elements(sockets) BY <1>6 DEF VectorInv, Socketed
<1>8. conn'[c].state = "closing" /\ \A d \in Conns : d # c => conn'[d] = conn[d]
  BY <1>1, <1>4 DEF ConnectFails
<1>9. PICK w \in Works : w.conn = c /\ w.do = "close" /\ queue' = Append(Tail(queue), w)
  BY <1>4 DEF ConnectFails, Posted, Work, Works
<1>10. PICK q \in Seq(Works) : q = Tail(queue) BY <1>3
<1>11. /\ Len(queue') = n /\ queue'[n] = w
       /\ \A i \in 1 .. (n - 1) : queue'[i] = queue[i + 1]
  <2>1. /\ Len(q) = n - 1 /\ \A i \in 1 .. (n - 1) : q[i] = queue[i + 1] BY <1>3, <1>10
  <2>2. /\ Len(queue') = Len(q) + 1 /\ queue'[Len(q) + 1] = w
        /\ \A i \in 1 .. Len(q) : queue'[i] = q[i]
    BY <1>9, <1>10, Appended
  <2> QED BY <1>2, <2>1, <2>2
<1>12. \A i \in 1 .. (n - 1) : queue'[i].conn # c
  <2> SUFFICES ASSUME NEW i \in 1 .. (n - 1), queue[i + 1].conn = c PROVE FALSE BY <1>11
  <2>1. i + 1 \in 1 .. n /\ i + 1 # 1 OBVIOUS
  <2>2. queue[1].conn = queue[i + 1].conn BY <1>3, <1>4
  <2> QED BY <1>2, <1>3, <2>1, <2>2 DEF WorkInv, WorksOrdered
<1>13. sockets' = Append(sockets, c) BY <1>4 DEF ConnectFails
<1>14. n \in Nat \ {0} /\ queue[1].conn = c /\ queue'[n].conn = c /\ queue'[n].do = "close"
  BY <1>2, <1>3, <1>4, <1>9, <1>11
<1>15. \A i \in 1 .. (n - 1) : queue'[i] = queue[i + 1] /\ queue'[i].conn # c BY <1>11, <1>12
<1>16. n = Len(queue) /\ n = Len(queue') /\ queue[1].do = "connect" /\ Head(queue).conn = c
  BY <1>2, <1>3, <1>4, <1>11
<1> QED BY <1>6, <1>7, <1>8, <1>13, <1>14, <1>15, <1>16, Zenon

LEMMA VectorStep ==
  ASSUME Types, VectorInv, WorkInv, Step
  PROVE  VectorInv'
<1>1. /\ sockets \in Seq(Conns) /\ files \in Seq(Conns) /\ queue \in Seq(Works)
      /\ timers \subseteq [conn: Conns, due: 0 .. MaxNow, by: {"app", "worker"}]
      /\ loop \in LoopType
  BY DEF Types
<1>2. conn \in [Conns -> [state: States, left: 0 .. FileSteps]] BY DEF Types
<1>3. /\ SocketsStandStill /\ Elements(files) \subseteq Conns
      /\ \A c \in Elements(files) : conn[c].state = "loading"
  BY <1>1 DEF VectorInv, Elements
<1>4. CASE UNCHANGED <<sockets, files, conn>> /\ SocketsStandStill'
  BY <1>4, VectorFrame
<1>5. CASE BeginIteration
  <2>1. SocketsStandStill' /\ UNCHANGED <<sockets, files, conn>>
    BY <1>1, <1>5 DEF BeginIteration, Dispatcher, SocketsStandStill, LoopType
  <2> QED BY <1>4, <2>1
<1>6. CASE EndFiles \/ Select \/ TimePasses
  <2>1. SocketsStandStill' /\ UNCHANGED <<sockets, files, conn>>
    BY <1>1, <1>3, <1>6 DEF EndFiles, Select, TimePasses, Dispatcher, SocketsStandStill, LoopType
  <2> QED BY <1>4, <2>1
<1>7. CASE SelectFails \/ EndWalk \/ EndTimers \/ EndCalls \/ DestroyPool \/ Join \/ AppDeletes
  <2>1. SocketsStandStill' /\ UNCHANGED <<sockets, files, conn>>
    BY <1>1, <1>7 DEF SelectFails, EndWalk, EndTimers, EndCalls, DestroyPool, Join, AppDeletes, Goes,
       Iteration, Dispatcher, SocketsStandStill, LoopType
  <2> QED BY <1>4, <2>1
<1>8. CASE \/ Worker \/ TimeEvent
           \/ \E by \in {"app", "worker"} : AppStops(by)
           \/ \E c \in Conns : ServerAnswers(c) \/ ServerSends(c)
  <2>1. UNCHANGED <<loop, sockets, files, conn>>
    BY <1>8 DEF Worker, WorkerChecks, WorkerTakes, WorkerReturns, WorkerEnds, Others, TimeEvent,
       AppStops, ServerAnswers, ServerSends, Dispatcher
  <2>2. SocketsStandStill' BY <1>3, <2>1 DEF SocketsStandStill
  <2> QED BY <1>4, <2>1, <2>2
<1>9. ASSUME NEW by \in {"app", "worker"}, NEW c \in Conns,
             AppConnects(c, by) \/ AppCancels(c, by) \/ AppShutsDown(c, by)
      PROVE  VectorInv'
  <2>1. UNCHANGED <<loop, sockets, files>>
    BY <1>9 DEF AppConnects, AppCancels, AppShutsDown
  <2>2. SocketsStandStill' BY <1>3, <2>1 DEF SocketsStandStill
  <2>3. \E s \in {"scheduled", "cancelled", "closing"} :
          /\ conn' = [conn EXCEPT ![c].state = s]
          /\ s = "closing" <=> conn[c].state = "open"
          /\ conn[c].state \in {"closed", "cancelled", "scheduled", "open"}
    BY <1>9 DEF AppConnects, AppCancels, AppShutsDown, Unconnected, WorkInv, TimersFit
  <2>4. /\ \A d \in Conns : conn'[d].state \in Socketed <=> conn[d].state \in Socketed
        /\ \A d \in Elements(files) : conn'[d].state = conn[d].state
    BY <1>2, <1>3, <2>3 DEF Socketed
  <2> QED BY <2>1, <2>2, <2>4, VectorFrame
<1>10. CASE TimeEventFails
  <2>1. UNCHANGED <<loop, sockets, files>> BY <1>10 DEF TimeEventFails
  <2>2. SocketsStandStill' BY <1>3, <2>1 DEF SocketsStandStill
  <2>3. PICK t \in timers : conn' = [conn EXCEPT ![t.conn].state = "closed"]
    BY <1>10 DEF TimeEventFails, Due
  <2>4. t.conn \in Conns /\ conn[t.conn].state = "scheduled"
    BY <1>1, <2>3 DEF WorkInv, TimersFit
  <2>5. /\ \A d \in Conns : conn'[d].state \in Socketed <=> conn[d].state \in Socketed
        /\ \A d \in Elements(files) : conn'[d].state = conn[d].state
    BY <1>2, <1>3, <2>3, <2>4 DEF Socketed
  <2> QED BY <2>1, <2>2, <2>5, VectorFrame
<1>11. CASE WalkSocket
  <2>1. PICK c \in Conns : c = sockets[loop.i] BY <1>1, <1>11 DEF WalkSocket, LoopType, Places
  <2>2. UNCHANGED <<sockets, files>> /\ loop' = [loop EXCEPT !.i = @ + 1]
    BY <1>11 DEF WalkSocket, HandleSocket, SocketHandler
  <2>3. SocketsStandStill' BY <1>1, <1>3, <2>2 DEF SocketsStandStill, LoopType
  <2>4. \/ UNCHANGED conn
        \/ /\ conn[c].state \in {"connecting", "open"}
           /\ \E s \in {"open", "closing"} : conn' = [conn EXCEPT ![c].state = s]
    BY <1>11, <2>1 DEF WalkSocket, HandleSocket, SocketHandler
  <2>5. /\ \A d \in Conns : conn'[d].state \in Socketed <=> conn[d].state \in Socketed
        /\ \A d \in Elements(files) : conn'[d].state = conn[d].state
    BY <1>2, <1>3, <2>4 DEF Socketed
  <2> QED BY <2>2, <2>3, <2>5, VectorFrame
<1>12. CASE FileHandler
  <2>1. PICK c \in Conns : c = files[loop.i] /\ c \in Elements(files)
    <3>1. loop.i \in 1 .. Len(files) BY <1>1, <1>12 DEF FileHandler, LoopType, Places
    <3> QED BY <1>1, <3>1, ElementsOf
  <2>2. UNCHANGED sockets /\ loop' = [loop EXCEPT !.i = @ + 1, !.updated = TRUE]
    BY <1>12 DEF FileHandler
  <2>3. SocketsStandStill' BY <1>1, <1>3, <2>2 DEF SocketsStandStill, LoopType
  <2>4. \A d \in Conns : conn'[d].state = conn[d].state
    BY <1>2, <1>12, <2>1 DEF FileHandler
  <2>5. PICK rest \in Seq(Conns) : /\ rest = Unregistered(files, c) /\ NoRepeats(rest)
                                   /\ Elements(rest) = Elements(files) \ {c}
    BY <1>1, TakenOut DEF VectorInv
  <2>6. files' = rest \/ files' = Append(rest, c) BY <1>12, <2>1, <2>5 DEF FileHandler
  <2>7. c \notin Elements(rest) BY <2>5
  <2>8. NoRepeats(files') /\ Elements(files') \subseteq Elements(files)
    <3>1. CASE files' = rest BY <3>1, <2>5
    <3>2. CASE files' = Append(rest, c) BY <3>2, <2>1, <2>5, <2>7, Entered
    <3> QED BY <2>6, <3>1, <3>2
  <2>9. \A d \in Elements(files') : conn'[d].state = "loading"
    BY <1>3, <2>4, <2>8
  <2>10. \A d \in Conns : d \in Elements(sockets') <=> conn'[d].state \in Socketed
    BY <2>2, <2>4 DEF VectorInv
  <2> QED BY <2>2, <2>3, <2>8, <2>9, <2>10 DEF VectorInv
<1>13. CASE CallQueued
  <2>1. queue # <<>> /\ loop' = loop /\ loop.at = "calls" BY <1>13 DEF CallQueued
  <2>2. Head(queue) \in Works /\ Head(queue) = queue[1] /\ 1 \in 1 .. Len(queue)
    BY <1>1, <2>1, Shifted
  <2>3. PICK c \in Conns : c = Head(queue).conn BY <2>2 DEF Works
  <2>4. Fits(Head(queue), c) BY <2>2, <2>3 DEF WorkInv, WorksFit
  <2>5. SocketsStandStill' BY <2>1 DEF SocketsStandStill
  <2>6. CASE Head(queue).do = "init" /\ InitCalled(c)
    <3>1. conn[c].state = "scheduled" BY <2>4, <2>6 DEF Fits
    <3>2. c \notin Elements(files) BY <1>3, <3>1
    <3>3. NoRepeats(files') /\ Elements(files') = Elements(files) \cup {c}
      BY <1>1, <2>6, <3>2, Entered DEF InitCalled, VectorInv
    <3>4. conn'[c].state = "loading" /\ \A d \in Conns : d # c => conn'[d] = conn[d]
      BY <1>2, <2>6 DEF InitCalled
    <3>5. \A d \in Elements(files') : conn'[d].state = "loading"
      BY <1>3, <3>3, <3>4
    <3>6. \A d \in Conns : d \in Elements(sockets') <=> conn'[d].state \in Socketed
      BY <2>6, <3>1, <3>4 DEF VectorInv, Socketed, InitCalled
    <3> QED BY <2>5, <2>6, <3>3, <3>5, <3>6 DEF VectorInv, InitCalled
  <2>7. CASE Head(queue).do = "connect" /\ ConnectCalled(c)
    <3>1. conn[c].state = "loading" /\ c \notin Elements(files) BY <2>4, <2>7 DEF Fits
    <3>2. c \notin Elements(sockets) BY <3>1 DEF VectorInv, Socketed
    <3>3. NoRepeats(sockets') /\ Elements(sockets') = Elements(sockets) \cup {c}
      BY <1>1, <2>7, <3>2, Entered DEF ConnectCalled, VectorInv
    <3>4. conn'[c].state = "connecting" /\ \A d \in Conns : d # c => conn'[d] = conn[d]
      BY <1>2, <2>7 DEF ConnectCalled
    <3>5. \A d \in Elements(files') : conn'[d].state = "loading"
      BY <1>3, <2>7, <3>1, <3>4 DEF ConnectCalled
    <3>6. \A d \in Conns : d \in Elements(sockets') <=> conn'[d].state \in Socketed
      BY <3>3, <3>4 DEF VectorInv, Socketed
    <3> QED BY <2>5, <2>7, <3>3, <3>5, <3>6 DEF VectorInv, ConnectCalled
  <2>8. CASE Head(queue).do = "close" /\ CloseCalled(c)
    <3>1. conn[c].state = "closing" BY <2>4, <2>8 DEF Fits
    <3>2. NoRepeats(sockets') /\ Elements(sockets') = Elements(sockets) \ {c}
      BY <1>1, <2>8, TakenOut DEF CloseCalled, VectorInv
    <3>3. conn'[c].state = "closed" /\ \A d \in Conns : d # c => conn'[d] = conn[d]
      BY <1>2, <2>8 DEF CloseCalled
    <3>4. \A d \in Elements(files') : conn'[d].state = "loading"
      BY <1>3, <2>8, <3>1, <3>3 DEF CloseCalled
    <3>5. \A d \in Conns : d \in Elements(sockets') <=> conn'[d].state \in Socketed
      BY <3>2, <3>3 DEF VectorInv, Socketed
    <3> QED BY <2>5, <2>8, <3>2, <3>4, <3>5 DEF VectorInv, CloseCalled
  <2>9. CASE UNCHANGED <<sockets, files, conn>> BY <1>4, <2>5, <2>9
  <2> QED BY <1>13, <2>3, <2>6, <2>7, <2>8, <2>9 DEF CallQueued
<1>14. CASE ConnectFails
  <2>1. PICK c \in Conns :
          /\ conn[c].state = "loading" /\ c \notin Elements(files) /\ c \notin Elements(sockets)
          /\ conn'[c].state = "closing" /\ \A d \in Conns : d # c => conn'[d] = conn[d]
          /\ sockets' = Append(sockets, c)
    BY <1>14, ConnectFailsFacts
  <2>2. loop' = loop /\ loop.at = "calls" /\ files' = files BY <1>14 DEF ConnectFails
  <2>3. SocketsStandStill' BY <2>2 DEF SocketsStandStill
  <2>4. NoRepeats(sockets') /\ Elements(sockets') = Elements(sockets) \cup {c}
    BY <1>1, <2>1, Entered DEF VectorInv
  <2>5. NoRepeats(files') /\ \A d \in Elements(files') : conn'[d].state = "loading"
    BY <1>3, <2>1, <2>2 DEF VectorInv
  <2>6. \A d \in Conns : d \in Elements(sockets') <=> conn'[d].state \in Socketed
    BY <2>1, <2>4 DEF VectorInv, Socketed
  <2> QED BY <2>3, <2>4, <2>5, <2>6 DEF VectorInv
<1> QED BY <1>5, <1>6, <1>7, <1>8, <1>9, <1>10, <1>11, <1>12, <1>13, <1>14 DEF Step

-----------------------------------------------------------------------------
(* Nothing is queued for a connection that is not wanted, or whose socket   *)
(* is being connected.                                                      *)
LEMMA NoWorkFor ==
  ASSUME Types, WorkInv, NEW c \in Conns, conn[c].state \in {"closed", "cancelled", "connecting"}
  PROVE  /\ \A i \in 1 .. Len(queue) : queue[i].conn # c
         /\ \A t \in timers : t.conn # c
BY WorkTypes DEF WorkInv, WorksFit, TimersFit, Fits

LEMMA WorkFrame ==
  ASSUME WorkInv, UNCHANGED <<timers, queue, conn, files, peer>>
  PROVE  WorkInv'
<1>1. TimersFit' BY DEF WorkInv, TimersFit
<1>2. WorksFit' BY DEF WorkInv, WorksFit, Fits
<1>3. WorksOrdered' BY DEF WorkInv, WorksOrdered
<1>4. PeersFit' BY DEF WorkInv, PeersFit
<1> QED BY <1>1, <1>2, <1>3, <1>4 DEF WorkInv

(* A call is queued for a connection: for one with a socket after what was  *)
(* received, for any other when nothing is queued.                          *)
LEMMA WorkPosted ==
  ASSUME Types, WorkInv, NEW w \in Works, queue' = Append(queue, w),
         \A d \in Conns : d # w.conn => conn'[d].state = conn[d].state,
         \A d \in Conns : d # w.conn /\ d \in Elements(files') => d \in Elements(files),
         Fits(w, w.conn)',
         \A i \in 1 .. Len(queue) : queue[i].conn = w.conn =>
           /\ queue[i].do \in {"opened", "pull"} /\ w.do \in {"pull", "close"}
           /\ conn'[w.conn].state \in {"open", "closing"}
  PROVE  WorksFit' /\ WorksOrdered' /\ \A i \in 1 .. Len(queue') :
                                         \/ i \in 1 .. Len(queue) /\ queue'[i] = queue[i]
                                         \/ i = Len(queue) + 1 /\ queue'[i] = w
<1>1. queue \in Seq(Works) BY DEF Types
<1>2. PICK n \in Nat : /\ n = Len(queue) /\ Len(queue') = n + 1 /\ queue'[n + 1] = w
                       /\ \A i \in 1 .. n : queue'[i] = queue[i]
  BY <1>1, Appended
<1>3. \A i \in 1 .. (n + 1) : i \in 1 .. n \/ i = n + 1 OBVIOUS
<1>4. ASSUME NEW i \in 1 .. (n + 1) PROVE Fits(queue[i], queue[i].conn)'
  <2>1. CASE i = n + 1 BY <2>1, <1>2
  <2>2. CASE i \in 1 .. n
    <3>1. Fits(queue[i], queue[i].conn) /\ queue'[i] = queue[i] BY <2>2, <1>2 DEF WorkInv, WorksFit
    <3>2. CASE queue[i].conn = w.conn BY <3>1, <3>2, <2>2, <1>2 DEF Fits
    <3>3. CASE queue[i].conn # w.conn
      <4>1. queue[i].conn \in Conns BY <2>2, <1>2, WorkTypes
      <4> QED BY <4>1, <3>1, <3>3 DEF Fits
    <3> QED BY <3>2, <3>3
  <2> QED BY <2>1, <2>2, <1>3
<1>5. ASSUME NEW i \in 1 .. (n + 1), NEW j \in 1 .. (n + 1), queue'[i].conn = queue'[j].conn
      PROVE  /\ queue'[i].do \in {"init", "connect"} => i = j
             /\ queue'[i].do = "opened" => i <= j
             /\ queue'[i].do = "close" => j <= i
  <2>1. CASE i = n + 1 /\ j = n + 1 BY <2>1
  <2>2. CASE i = n + 1 /\ j \in 1 .. n
    BY <2>2, <1>2, <1>5
  <2>3. CASE i \in 1 .. n /\ j = n + 1 BY <2>3, <1>2, <1>5
  <2>4. CASE i \in 1 .. n /\ j \in 1 .. n BY <2>4, <1>2, <1>5 DEF WorkInv, WorksOrdered
  <2> QED BY <2>1, <2>2, <2>3, <2>4, <1>3
<1> QED BY <1>2, <1>3, <1>4, <1>5 DEF WorksFit, WorksOrdered

(* The application's requests fit the state they meet.                      *)
LEMMA AppWork ==
  ASSUME Types, VectorInv, WorkInv, NEW by \in {"app", "worker"}, NEW c \in Conns,
         AppConnects(c, by) \/ AppCancels(c, by) \/ AppShutsDown(c, by)
  PROVE  WorkInv'
<1>1. conn \in [Conns -> [state: States, left: 0 .. FileSteps]] BY DEF Types
<1>2. \A i \in 1 .. Len(queue) : /\ queue[i].conn \in Conns
                                 /\ queue[i].do \in {"init", "connect", "opened", "pull", "close"}
  BY WorkTypes
<1>3. \A t \in timers : t.conn \in Conns BY WorkTypes
<1>4. CASE AppConnects(c, by)
  <2>1. conn[c].state \in {"closed", "cancelled"} BY <1>4 DEF AppConnects, Unconnected
  <2>2. conn'[c].state = "scheduled" /\ \A d \in Conns : d # c => conn'[d] = conn[d]
    BY <1>1, <1>4 DEF AppConnects
  <2>3. PICK new : new.conn = c /\ timers' = timers \cup {new} BY <1>4 DEF AppConnects
  <2>4. UNCHANGED <<queue, files, peer>> BY <1>4 DEF AppConnects
  <2>5. (\A i \in 1 .. Len(queue) : queue[i].conn # c) /\ (\A t \in timers : t.conn # c)
    BY <2>1, NoWorkFor
  <2>6. TimersFit' BY <1>3, <2>2, <2>3, <2>4, <2>5 DEF WorkInv, TimersFit
  <2>7. WorksFit' BY <1>2, <2>2, <2>4, <2>5 DEF WorkInv, WorksFit, Fits
  <2>8. WorksOrdered' BY <2>4 DEF WorkInv, WorksOrdered
  <2>9. PeersFit' BY <2>1, <2>2, <2>4 DEF WorkInv, PeersFit, Socketed
  <2> QED BY <2>6, <2>7, <2>8, <2>9 DEF WorkInv
<1>5. CASE AppCancels(c, by)
  <2>1. PICK t \in timers : t.conn = c /\ timers' = timers \ {t} BY <1>5 DEF AppCancels
  <2>2. conn[c].state = "scheduled" /\ \A i \in 1 .. Len(queue) : queue[i].conn # c
    BY <2>1 DEF WorkInv, TimersFit
  <2>3. conn'[c].state = "cancelled" /\ \A d \in Conns : d # c => conn'[d] = conn[d]
    BY <1>1, <1>5 DEF AppCancels
  <2>4. UNCHANGED <<queue, files, peer>> BY <1>5 DEF AppCancels
  <2>5. TimersFit' BY <1>3, <2>1, <2>3, <2>4 DEF WorkInv, TimersFit
  <2>6. WorksFit' BY <1>2, <2>2, <2>3, <2>4 DEF WorkInv, WorksFit, Fits
  <2>7. WorksOrdered' BY <2>4 DEF WorkInv, WorksOrdered
  <2>8. PeersFit' BY <2>2, <2>3, <2>4 DEF WorkInv, PeersFit, Socketed
  <2> QED BY <2>5, <2>6, <2>7, <2>8 DEF WorkInv
<1>6. CASE AppShutsDown(c, by)
  <2>1. conn[c].state = "open" /\ UNCHANGED <<timers, files, peer>> BY <1>6 DEF AppShutsDown
  <2>2. conn'[c].state = "closing" /\ \A d \in Conns : d # c => conn'[d] = conn[d]
    BY <1>1, <1>6 DEF AppShutsDown
  <2>3. PICK w \in Works : w.conn = c /\ w.do = "close" /\ queue' = Append(queue, w)
    BY <1>6 DEF AppShutsDown, Posted, Work, Works
  <2>4. \A i \in 1 .. Len(queue) : queue[i].conn = c => queue[i].do \in {"opened", "pull"}
    BY <1>2, <2>1 DEF WorkInv, WorksFit, Fits
  <2>5. Fits(w, w.conn)' BY <2>2, <2>3 DEF Fits
  <2>6. WorksFit' /\ WorksOrdered' /\ \A i \in 1 .. Len(queue') :
                                        \/ i \in 1 .. Len(queue) /\ queue'[i] = queue[i]
                                        \/ i = Len(queue) + 1 /\ queue'[i] = w
    BY <2>1, <2>2, <2>3, <2>4, <2>5, WorkPosted
  <2>7. TimersFit' BY <1>3, <2>1, <2>2, <2>3, <2>6 DEF WorkInv, TimersFit
  <2>8. PeersFit' BY <2>1, <2>2 DEF WorkInv, PeersFit, Socketed
  <2> QED BY <2>6, <2>7, <2>8 DEF WorkInv
<1> QED BY <1>4, <1>5, <1>6

(* The handlers of files, sockets and time events queue what fits.          *)
LEMMA HandlerWork ==
  ASSUME Types, VectorInv, WorkInv, FileHandler \/ WalkSocket \/ TimeEvent \/ TimeEventFails
  PROVE  WorkInv'
<1>1. conn \in [Conns -> [state: States, left: 0 .. FileSteps]] BY DEF Types
<1>2. \A i \in 1 .. Len(queue) : /\ queue[i].conn \in Conns
                                 /\ queue[i].do \in {"init", "connect", "opened", "pull", "close"}
  BY WorkTypes
<1>3. \A t \in timers : t.conn \in Conns BY WorkTypes
<1>4. loop \in LoopType /\ sockets \in Seq(Conns) /\ files \in Seq(Conns) BY DEF Types
<1>5. CASE FileHandler
  <2>1. PICK c \in Conns : c = files[loop.i] /\ c \in Elements(files)
    <3>1. loop.i \in 1 .. Len(files) BY <1>4, <1>5 DEF FileHandler, LoopType, Places
    <3> QED BY <1>4, <3>1, ElementsOf
  <2>2. conn[c].state = "loading" BY <2>1 DEF VectorInv
  <2>3. \A d \in Conns : conn'[d].state = conn[d].state BY <1>1, <1>5, <2>1 DEF FileHandler
  <2>4. UNCHANGED <<timers, peer>> BY <1>5 DEF FileHandler
  <2>5. PICK rest \in Seq(Conns) : /\ rest = Unregistered(files, c) /\ NoRepeats(rest)
                                   /\ Elements(rest) = Elements(files) \ {c}
    BY <1>4, TakenOut DEF VectorInv
  <2>6. PeersFit' BY <2>3, <2>4 DEF WorkInv, PeersFit
  <2>7. \A i \in 1 .. Len(queue) : queue[i].conn # c
    BY <1>2, <2>1, <2>2 DEF WorkInv, WorksFit, Fits
  <2>8. CASE files' = Append(rest, c) /\ UNCHANGED queue
    <3>1. c \notin Elements(rest) BY <2>5
    <3>6. Elements(files') = Elements(rest) \cup {c} BY <2>5, <2>8, <3>1, Entered
    <3>2. Elements(files') = Elements(files) BY <2>1, <2>5, <3>6
    <3>3. TimersFit' BY <1>3, <2>3, <2>4, <2>8 DEF WorkInv, TimersFit
    <3>4. WorksFit' BY <1>2, <2>3, <2>8, <3>2 DEF WorkInv, WorksFit, Fits
    <3>5. WorksOrdered' BY <2>8 DEF WorkInv, WorksOrdered
    <3> QED BY <2>6, <3>3, <3>4, <3>5 DEF WorkInv
  <2>9. CASE files' = rest /\ queue' = Append(queue, Work("connect", c, "loop"))
    <3>1. PICK w \in Works : w.conn = c /\ w.do = "connect" /\ queue' = Append(queue, w)
      BY <2>9 DEF Work, Works
    <3>2. c \notin Elements(files') /\ Elements(files') \subseteq Elements(files) BY <2>5, <2>9
    <3>3. Fits(w, w.conn)' BY <2>2, <2>3, <3>1, <3>2 DEF Fits
    <3>4. WorksFit' /\ WorksOrdered' /\ \A i \in 1 .. Len(queue') :
                                          \/ i \in 1 .. Len(queue) /\ queue'[i] = queue[i]
                                          \/ i = Len(queue) + 1 /\ queue'[i] = w
      BY <2>3, <2>7, <3>1, <3>2, <3>3, WorkPosted
    <3>5. \A t \in timers : t.conn # c BY <2>2 DEF WorkInv, TimersFit
    <3>6. TimersFit' BY <1>3, <2>3, <2>4, <3>1, <3>4, <3>5 DEF WorkInv, TimersFit
    <3> QED BY <2>6, <3>4, <3>6 DEF WorkInv
  <2> QED BY <1>5, <2>1, <2>5, <2>8, <2>9 DEF FileHandler, Posted
<1>6. CASE WalkSocket
  <2>1. PICK c \in Conns : c = sockets[loop.i]
    BY <1>4, <1>6 DEF WalkSocket, LoopType, Places
  <2>2. UNCHANGED <<timers, files>> BY <1>6 DEF WalkSocket
  <2>3. CASE UNCHANGED <<queue, conn, peer>> BY <2>2, <2>3, WorkFrame
  <2>4. ASSUME NEW do \in {"opened", "pull", "close"}, NEW s \in {"open", "closing"},
               conn[c].state \in {"connecting", "open"},
               queue' = Append(queue, Work(do, c, "loop")),
               conn' = [conn EXCEPT ![c].state = s],
               do = "close" <=> s = "closing",
               do = "close" => UNCHANGED peer /\ peer[c] = "reset",
               do # "close" => peer' = [peer EXCEPT ![c] = "quiet"],
               do = "opened" => peer[c] = "connected",
               do = "pull" => peer[c] = "data"
        PROVE  WorkInv'
    <3>1. PICK w \in Works : w.conn = c /\ w.do = do /\ queue' = Append(queue, w)
      BY <2>4 DEF Work, Works
    <3>2. conn'[c].state = s /\ \A d \in Conns : d # c => conn'[d] = conn[d]
      BY <1>1, <2>4
    <3>3. Fits(w, w.conn)' BY <2>4, <3>1, <3>2 DEF Fits
    <3>4. do = "opened" => conn[c].state = "connecting"
      BY <2>4 DEF WorkInv, PeersFit
    <3>5. \A i \in 1 .. Len(queue) : queue[i].conn = c =>
            queue[i].do \in {"opened", "pull"} /\ do \in {"pull", "close"}
      BY <1>2, <2>4, <3>4 DEF WorkInv, WorksFit, Fits
    <3>6. WorksFit' /\ WorksOrdered' /\ \A i \in 1 .. Len(queue') :
                                          \/ i \in 1 .. Len(queue) /\ queue'[i] = queue[i]
                                          \/ i = Len(queue) + 1 /\ queue'[i] = w
      BY <2>2, <3>1, <3>2, <3>3, <3>5, WorkPosted
    <3>7. \A t \in timers : t.conn # c BY <2>4 DEF WorkInv, TimersFit
    <3>8. TimersFit' BY <1>3, <2>2, <3>1, <3>2, <3>6, <3>7 DEF WorkInv, TimersFit
    <3>9. peer \in [Conns -> {"quiet", "connected", "data", "reset"}] BY DEF Types
    <3>10. PeersFit'
      <4> SUFFICES ASSUME NEW d \in Conns
                   PROVE  /\ peer'[d] = "connected" => conn'[d].state = "connecting"
                          /\ peer'[d] = "data" => conn'[d].state \in {"open", "closing"}
                          /\ peer'[d] = "reset" => conn'[d].state \in Socketed
        BY DEF PeersFit
      <4>1. CASE d = c BY <4>1, <2>4, <3>2, <3>9 DEF Socketed
      <4>2. CASE d # c BY <4>2, <2>4, <3>2, <3>9 DEF WorkInv, PeersFit
      <4> QED BY <4>1, <4>2
    <3> QED BY <3>6, <3>8, <3>10 DEF WorkInv
  <2>5. CASE /\ peer[c] \in {"connected", "data"} /\ conn[c].state \in {"connecting", "open"}
             /\ queue' = Append(queue, Work(IF peer[c] = "data" THEN "pull" ELSE "opened", c, "loop"))
             /\ peer' = [peer EXCEPT ![c] = "quiet"]
             /\ conn' = [conn EXCEPT ![c].state = "open"]
    <3>1. CASE peer[c] = "data"
      <4>1. queue' = Append(queue, Work("pull", c, "loop")) BY <2>5, <3>1
      <4> QED BY <2>4, <2>5, <3>1, <4>1
    <3>2. CASE peer[c] = "connected"
      <4>1. queue' = Append(queue, Work("opened", c, "loop")) BY <2>5, <3>2
      <4> QED BY <2>4, <2>5, <3>2, <4>1
    <3> QED BY <2>5, <3>1, <3>2
  <2>6. CASE /\ peer[c] = "reset" /\ conn[c].state \in {"connecting", "open"}
             /\ queue' = Append(queue, Work("close", c, "loop"))
             /\ conn' = [conn EXCEPT ![c].state = "closing"] /\ UNCHANGED peer
    BY <2>4, <2>6
  <2> QED BY <1>6, <2>1, <2>3, <2>5, <2>6 DEF WalkSocket, HandleSocket, SocketHandler, Posted
<1>7. CASE TimeEvent
  <2>1. PICK t \in timers : /\ timers' = timers \ {t}
                            /\ queue' = Append(queue, Work("init", t.conn, "loop"))
    BY <1>7 DEF TimeEvent, Due, Posted
  <2>2. UNCHANGED <<files, conn, peer>> BY <1>7 DEF TimeEvent
  <2>3. /\ conn[t.conn].state = "scheduled" /\ \A i \in 1 .. Len(queue) : queue[i].conn # t.conn
        /\ \A u \in timers' : u.conn # t.conn
    BY <2>1 DEF WorkInv, TimersFit
  <2>4. PICK w \in Works : w.conn = t.conn /\ w.do = "init" /\ queue' = Append(queue, w)
    BY <1>3, <2>1 DEF Work, Works
  <2>5. Fits(w, w.conn)' BY <2>2, <2>3, <2>4 DEF Fits
  <2>6. WorksFit' /\ WorksOrdered' /\ \A i \in 1 .. Len(queue') :
                                        \/ i \in 1 .. Len(queue) /\ queue'[i] = queue[i]
                                        \/ i = Len(queue) + 1 /\ queue'[i] = w
    BY <2>2, <2>3, <2>4, <2>5, WorkPosted
  <2>7. TimersFit' BY <2>1, <2>2, <2>3, <2>4, <2>6 DEF WorkInv, TimersFit
  <2>8. PeersFit' BY <2>2 DEF WorkInv, PeersFit
  <2> QED BY <2>6, <2>7, <2>8 DEF WorkInv
<1>8. CASE TimeEventFails
  <2>1. PICK t \in timers : /\ timers' = timers \ {t}
                            /\ conn' = [conn EXCEPT ![t.conn].state = "closed"]
    BY <1>8 DEF TimeEventFails, Due
  <2>2. PICK c \in Conns : c = t.conn BY <1>3
  <2>3. UNCHANGED <<queue, files, peer>> BY <1>8 DEF TimeEventFails
  <2>4. conn[c].state = "scheduled" /\ \A i \in 1 .. Len(queue) : queue[i].conn # c
    BY <2>1, <2>2 DEF WorkInv, TimersFit
  <2>5. conn'[c].state = "closed" /\ \A d \in Conns : d # c => conn'[d] = conn[d]
    BY <1>1, <2>1, <2>2
  <2>6. TimersFit' BY <1>3, <2>1, <2>2, <2>3, <2>5 DEF WorkInv, TimersFit
  <2>7. WorksFit' BY <1>2, <2>3, <2>4, <2>5 DEF WorkInv, WorksFit, Fits
  <2>8. WorksOrdered' BY <2>3 DEF WorkInv, WorksOrdered
  <2>9. PeersFit' BY <2>3, <2>4, <2>5 DEF WorkInv, PeersFit, Socketed
  <2> QED BY <2>6, <2>7, <2>8, <2>9 DEF WorkInv
<1> QED BY <1>5, <1>6, <1>7, <1>8

(* A call is taken from the queue: what is left fits the new state.          *)
LEMMA CallWork ==
  ASSUME Types, VectorInv, WorkInv, CallQueued
  PROVE  WorkInv'
<1>1. conn \in [Conns -> [state: States, left: 0 .. FileSteps]] BY DEF Types
<1>2. queue \in Seq(Works) /\ queue # <<>> /\ queue' = Tail(queue) /\ timers' = timers
  BY DEF Types, CallQueued
<1>3. PICK n \in Nat : /\ n = Len(queue) /\ n >= 1 /\ Len(queue') = n - 1
                       /\ \A i \in 1 .. (n - 1) : queue'[i] = queue[i + 1]
  BY <1>2, Shifted
<1>4. \A i \in 1 .. (n - 1) : i + 1 \in 1 .. n /\ i + 1 # 1 /\ i + 1 > 1 OBVIOUS
<1>5. Head(queue) = queue[1] /\ 1 \in 1 .. n BY <1>2, <1>3
<1>6. PICK c \in Conns : c = Head(queue).conn BY <1>3, <1>5, WorkTypes
<1>7. \A i \in 1 .. n : queue[i].conn \in Conns BY <1>3, WorkTypes
<1>8. \A t \in timers : t.conn \in Conns /\ t.conn # c
  BY <1>3, <1>5, <1>6, WorkTypes DEF WorkInv, TimersFit
<1>9. WorksOrdered'
  <2> SUFFICES ASSUME NEW i \in 1 .. (n - 1), NEW j \in 1 .. (n - 1), queue'[i].conn = queue'[j].conn
               PROVE  /\ queue'[i].do \in {"init", "connect"} => i = j
                      /\ queue'[i].do = "opened" => i <= j
                      /\ queue'[i].do = "close" => j <= i
    BY <1>3 DEF WorksOrdered
  <2>1. i + 1 \in 1 .. n /\ j + 1 \in 1 .. n /\ queue'[i] = queue[i + 1] /\ queue'[j] = queue[j + 1]
    BY <1>3, <1>4
  <2>2. /\ queue[i + 1].do \in {"init", "connect"} => i + 1 = j + 1
        /\ queue[i + 1].do = "opened" => i + 1 <= j + 1
        /\ queue[i + 1].do = "close" => j + 1 <= i + 1
    BY <1>3, <2>1 DEF WorkInv, WorksOrdered
  <2> QED BY <2>1, <2>2
<1>10. CASE UNCHANGED <<conn, files, peer>>
  <2>1. TimersFit' BY <1>2, <1>3, <1>4, <1>10 DEF WorkInv, TimersFit
  <2>2. WorksFit' BY <1>3, <1>4, <1>10 DEF WorkInv, WorksFit, Fits
  <2>3. PeersFit' BY <1>10 DEF WorkInv, PeersFit
  <2> QED BY <1>9, <2>1, <2>2, <2>3 DEF WorkInv
<1>11. ASSUME Head(queue).do \in {"init", "connect", "close"}
       PROVE  \A i \in 1 .. (n - 1) : queue'[i].conn # c
  <2> SUFFICES ASSUME NEW i \in 1 .. (n - 1), queue'[i].conn = c PROVE FALSE OBVIOUS
  <2>1. i + 1 \in 1 .. n /\ queue[i + 1].conn = queue[1].conn /\ i + 1 > 1
    BY <1>3, <1>4, <1>5, <1>6
  <2> QED BY <1>3, <1>5, <1>11, <2>1 DEF WorkInv, WorksOrdered
<1>12. ASSUME Head(queue).do \in {"init", "connect", "close"},
              \A d \in Conns : d # c => conn'[d].state = conn[d].state,
              \A d \in Conns : d # c => (d \in Elements(files') <=> d \in Elements(files)),
              PeersFit'
       PROVE  WorkInv'
  <2>1. TimersFit' BY <1>2, <1>3, <1>4, <1>8, <1>12 DEF WorkInv, TimersFit
  <2>2. WorksFit'
    <3> SUFFICES ASSUME NEW i \in 1 .. (n - 1) PROVE Fits(queue[i], queue[i].conn)'
      BY <1>3 DEF WorksFit
    <3>1. queue'[i] = queue[i + 1] /\ i + 1 \in 1 .. n BY <1>3, <1>4
    <3>2. Fits(queue[i + 1], queue[i + 1].conn) BY <1>3, <3>1 DEF WorkInv, WorksFit
    <3>3. queue[i + 1].conn \in Conns /\ queue[i + 1].conn # c BY <1>7, <1>11, <1>12, <3>1
    <3> QED BY <1>12, <3>1, <3>2, <3>3 DEF Fits
  <2> QED BY <1>9, <1>12, <2>1, <2>2 DEF WorkInv
<1>13. Fits(Head(queue), c) BY <1>3, <1>5, <1>6 DEF WorkInv, WorksFit
<1>14. sockets \in Seq(Conns) /\ files \in Seq(Conns) /\ NoRepeats(files)
  BY DEF Types, VectorInv
<1>15. peer \in [Conns -> {"quiet", "connected", "data", "reset"}] BY DEF Types
<1>16. CASE Head(queue).do = "init" /\ InitCalled(c)
  <2>1. conn[c].state = "scheduled" BY <1>13, <1>16 DEF Fits
  <2>2. conn'[c].state = "loading" /\ \A d \in Conns : d # c => conn'[d] = conn[d]
    BY <1>1, <1>16 DEF InitCalled
  <2>3. c \notin Elements(files) BY <2>1 DEF VectorInv
  <2>4. Elements(files') = Elements(files) \cup {c}
    BY <1>14, <1>16, <2>3, Entered DEF InitCalled
  <2>5. peer' = peer BY <1>16 DEF InitCalled
  <2>6. PeersFit' BY <2>1, <2>2, <2>5 DEF WorkInv, PeersFit, Socketed
  <2> QED BY <1>12, <1>16, <2>2, <2>4, <2>6
<1>17. CASE Head(queue).do = "connect" /\ ConnectCalled(c)
  <2>1. conn[c].state = "loading" BY <1>13, <1>17 DEF Fits
  <2>2. conn'[c].state = "connecting" /\ \A d \in Conns : d # c => conn'[d] = conn[d]
    BY <1>1, <1>17 DEF ConnectCalled
  <2>3. files' = files /\ peer' = peer BY <1>17 DEF ConnectCalled
  <2>4. PeersFit' BY <2>1, <2>2, <2>3 DEF WorkInv, PeersFit, Socketed
  <2> QED BY <1>12, <1>17, <2>2, <2>3, <2>4
<1>18. CASE Head(queue).do = "close" /\ CloseCalled(c)
  <2>1. conn'[c].state = "closed" /\ \A d \in Conns : d # c => conn'[d] = conn[d]
    BY <1>1, <1>18 DEF CloseCalled
  <2>2. files' = files /\ peer'[c] = "quiet" /\ \A d \in Conns : d # c => peer'[d] = peer[d]
    BY <1>15, <1>18 DEF CloseCalled
  <2>3. PeersFit' BY <2>1, <2>2 DEF WorkInv, PeersFit, Socketed
  <2> QED BY <1>12, <1>18, <2>1, <2>2, <2>3
<1> QED BY <1>6, <1>10, <1>16, <1>17, <1>18 DEF CallQueued

(* So does what is left when a connect failed at once.                       *)
LEMMA FailedWork ==
  ASSUME Types, VectorInv, WorkInv, ConnectFails
  PROVE  WorkInv'
<1>1. PICK c \in Conns, n \in Nat \ {0} :
        /\ conn[c].state = "loading"
        /\ conn'[c].state = "closing" /\ \A d \in Conns : d # c => conn'[d] = conn[d]
        /\ n = Len(queue) /\ n = Len(queue')
        /\ queue'[n].conn = c /\ queue'[n].do = "close"
        /\ \A i \in 1 .. (n - 1) : queue'[i] = queue[i + 1] /\ queue'[i].conn # c
  BY ConnectFailsFacts
<1>2. UNCHANGED <<files, timers, peer>> BY DEF ConnectFails
<1>3. \A i \in 1 .. (n - 1) : i + 1 \in 1 .. n /\ queue[i + 1].conn \in Conns
  <2> SUFFICES ASSUME NEW i \in 1 .. (n - 1) PROVE i + 1 \in 1 .. n /\ queue[i + 1].conn \in Conns
    OBVIOUS
  <2>1. i + 1 \in 1 .. n OBVIOUS
  <2> QED BY <1>1, <2>1, WorkTypes
<1>4. \A i \in 1 .. n : i \in 1 .. (n - 1) \/ i = n OBVIOUS
<1>5. TimersFit'
  <2> SUFFICES ASSUME NEW t \in timers
               PROVE  /\ conn'[t.conn].state = "scheduled"
                      /\ \A u \in timers : t.conn = u.conn => t = u
                      /\ \A i \in 1 .. n : queue'[i].conn # t.conn
    BY <1>1, <1>2 DEF TimersFit
  <2>1. t.conn \in Conns BY WorkTypes
  <2>2. /\ conn[t.conn].state = "scheduled"
        /\ \A u \in timers : t.conn = u.conn => t = u
        /\ \A i \in 1 .. n : queue[i].conn # t.conn
    BY <1>1 DEF WorkInv, TimersFit
  <2>3. t.conn # c BY <1>1, <2>2
  <2> QED BY <1>1, <1>3, <1>4, <2>1, <2>2, <2>3
<1>6. WorksFit'
  <2> SUFFICES ASSUME NEW i \in 1 .. n PROVE Fits(queue[i], queue[i].conn)'
    BY <1>1 DEF WorksFit
  <2>1. CASE i = n BY <1>1, <2>1 DEF Fits
  <2>2. CASE i \in 1 .. (n - 1)
    <3>1. /\ i + 1 \in 1 .. n /\ queue[i + 1].conn \in Conns
          /\ queue'[i] = queue[i + 1] /\ queue[i + 1].conn # c
      BY <1>1, <1>3, <2>2
    <3>2. Fits(queue[i + 1], queue[i + 1].conn) BY <1>1, <3>1 DEF WorkInv, WorksFit
    <3> QED BY <1>1, <1>2, <3>1, <3>2 DEF Fits
  <2> QED BY <1>4, <2>1, <2>2
<1>7. WorksOrdered'
  <2> SUFFICES ASSUME NEW i \in 1 .. n, NEW j \in 1 .. n, queue'[i].conn = queue'[j].conn
               PROVE  /\ queue'[i].do \in {"init", "connect"} => i = j
                      /\ queue'[i].do = "opened" => i <= j
                      /\ queue'[i].do = "close" => j <= i
    BY <1>1 DEF WorksOrdered
  <2>1. CASE i = n \/ j = n
    <3>1. i = n /\ j = n BY <1>1, <1>4, <2>1
    <3> QED BY <3>1
  <2>2. CASE i \in 1 .. (n - 1) /\ j \in 1 .. (n - 1)
    <3>1. /\ i + 1 \in 1 .. n /\ queue'[i] = queue[i + 1]
          /\ j + 1 \in 1 .. n /\ queue'[j] = queue[j + 1]
      BY <1>1, <1>3, <2>2
    <3>2. /\ queue[i + 1].do \in {"init", "connect"} => i + 1 = j + 1
          /\ queue[i + 1].do = "opened" => i + 1 <= j + 1
          /\ queue[i + 1].do = "close" => j + 1 <= i + 1
      BY <1>1, <3>1 DEF WorkInv, WorksOrdered
    <3> QED BY <3>1, <3>2
  <2> QED BY <1>4, <2>1, <2>2
<1>8. PeersFit'
  BY <1>1, <1>2 DEF WorkInv, PeersFit, Socketed
<1> QED BY <1>5, <1>6, <1>7, <1>8 DEF WorkInv

LEMMA WorkStep ==
  ASSUME Types, VectorInv, WorkInv, Step
  PROVE  WorkInv'
<1>1. ASSUME NEW c \in Conns, ServerAnswers(c) \/ ServerSends(c) PROVE WorkInv'
  <2>1. peer \in [Conns -> {"quiet", "connected", "data", "reset"}] BY DEF Types
  <2>2. UNCHANGED <<timers, queue, conn, files>>
    BY <1>1 DEF ServerAnswers, ServerSends, Dispatcher
  <2>3. /\ \A d \in Conns : d # c => peer'[d] = peer[d]
        /\ \/ conn[c].state = "connecting" /\ peer'[c] \in {"connected", "reset"}
           \/ conn[c].state = "open" /\ peer'[c] \in {"data", "reset"}
    BY <1>1, <2>1 DEF ServerAnswers, ServerSends
  <2>4. PeersFit' BY <2>2, <2>3 DEF WorkInv, PeersFit, Socketed
  <2>5. TimersFit' /\ WorksOrdered' BY <2>2 DEF WorkInv, TimersFit, WorksOrdered
  <2>6. WorksFit' BY <2>2 DEF WorkInv, WorksFit, Fits
  <2> QED BY <2>4, <2>5, <2>6 DEF WorkInv
<1>2. CASE \/ BeginIteration \/ EndFiles \/ TimePasses \/ Select \/ SelectFails \/ EndWalk
           \/ EndTimers \/ EndCalls \/ Worker \/ DestroyPool \/ Join \/ AppDeletes
           \/ \E by \in {"app", "worker"} : AppStops(by)
  <2>1. UNCHANGED <<timers, queue, conn, files, peer>>
    BY <1>2 DEF BeginIteration, EndFiles, TimePasses, Select, SelectFails, EndWalk, EndTimers,
       EndCalls, Worker, WorkerChecks, WorkerTakes, WorkerReturns, WorkerEnds, Others,
       DestroyPool, Join, AppDeletes, AppStops, Dispatcher
  <2> QED BY <2>1, WorkFrame
<1> QED BY <1>1, <1>2, AppWork, HandlerWork, CallWork, FailedWork DEF Step

-----------------------------------------------------------------------------
(* No assertion fails: sockets stand still, a connection is registered once, *)
(* and nobody calls the library after the last context was deleted.          *)
LEMMA LifeStep ==
  ASSUME Types, VectorInv, WorkInv, LifeInv, Step
  PROVE  LifeInv'
<1>1. life \in LifeType /\ loop \in LoopType /\ worker \in WorkerType BY DEF Types
<1>2. CASE UNCHANGED life /\ UNCHANGED loop.at /\ UNCHANGED worker.at
  BY <1>2 DEF LifeInv, AssertionsHold
<1>3. ASSUME NEW by \in {"app", "worker"}, AppOn(by) PROVE ~life.freed
  BY <1>3 DEF AppOn, LifeInv
<1>4. ASSUME NEW by \in {"app", "worker"}, NEW c \in Conns,
             AppConnects(c, by) \/ AppCancels(c, by) \/ AppShutsDown(c, by)
      PROVE  LifeInv'
  <2>1. ~life.freed /\ ~life.abort
    BY <1>3, <1>4 DEF AppConnects, AppCancels, AppShutsDown, LifeInv, AssertionsHold
  <2>2. /\ life' = [life EXCEPT !.abort = life.abort \/ life.freed]
        /\ UNCHANGED <<loop, worker>>
    BY <1>4 DEF AppConnects, AppCancels, AppShutsDown, MainDispatcherUsed
  <2>3. /\ life'.freed = life.freed /\ life'.deleted = life.deleted
        /\ life'.abort = (life.abort \/ life.freed)
    BY <1>1, <2>2 DEF LifeType
  <2> QED BY <2>1, <2>2, <2>3 DEF LifeInv, AssertionsHold
<1>5. ASSUME NEW by \in {"app", "worker"}, AppStops(by) PROVE LifeInv'
  <2>1. ~life.freed /\ ~life.abort
    BY <1>3, <1>5 DEF AppStops, LifeInv, AssertionsHold
  <2>2. /\ life' = [life EXCEPT !.stop = TRUE, !.abort = life.abort \/ life.freed]
        /\ UNCHANGED <<loop, worker>>
    BY <1>5 DEF AppStops
  <2>3. /\ life'.freed = life.freed /\ life'.deleted = life.deleted
        /\ life'.abort = (life.abort \/ life.freed)
    BY <1>1, <2>2 DEF LifeType
  <2> QED BY <2>1, <2>2, <2>3 DEF LifeInv, AssertionsHold
<1>6. CASE AppDeletes
  <2>1. /\ life'.deleted = TRUE /\ life'.freed = TRUE /\ life'.abort = life.abort
        /\ loop'.at = "destroy" /\ worker' = worker /\ worker.at # "calling"
    BY <1>1, <1>6 DEF AppDeletes, LifeType, LoopType
  <2> QED BY <2>1 DEF LifeInv, AssertionsHold
<1>7. CASE DestroyPool \/ Join
  <2>1. life' = life /\ loop'.at \in {"join", "gone"} /\ worker'.at = worker.at
    BY <1>1, <1>7 DEF DestroyPool, Join, Goes, StopWorker, LoopType, WorkerType
  <2> QED BY <2>1 DEF LifeInv, AssertionsHold
<1>8. CASE Worker
  <2>1. UNCHANGED <<life, loop>>
    BY <1>8 DEF Worker, WorkerChecks, WorkerTakes, WorkerReturns, WorkerEnds, Others
  <2>2. worker'.at = "calling" => worker.at = "calling" \/ ~life.deleted
    BY <1>1, <1>8 DEF Worker, WorkerChecks, WorkerTakes, WorkerReturns, WorkerEnds, Found, WorkerType
  <2> QED BY <2>1, <2>2 DEF LifeInv, AssertionsHold
<1>9. CASE \/ BeginIteration \/ EndFiles \/ Select \/ SelectFails \/ EndWalk \/ EndTimers \/ EndCalls
           \/ FileHandler
  <2>1. UNCHANGED <<life, worker>> /\ loop.at \notin {"destroy", "join", "gone"}
    BY <1>9 DEF BeginIteration, EndFiles, Select, SelectFails, EndWalk, EndTimers, EndCalls, FileHandler
  <2>2. ~life.deleted BY <2>1 DEF LifeInv
  <2> QED BY <2>1, <2>2 DEF LifeInv, AssertionsHold
<1>10. CASE WalkSocket
  <2>1. /\ loop.at = "walk" /\ loop.i \in 1 .. Len(sockets) /\ worker' = worker
    BY <1>1, <1>10 DEF WalkSocket, LoopType, Places
  <2>2. sockets = loop.noted BY <2>1 DEF VectorInv, SocketsStandStill
  <2> DEFINE misplaced == life.abort \/ loop.i > Len(loop.noted) \/ loop.noted[loop.i] # sockets[loop.i]
  <2>3. sockets \in Seq(Conns) BY DEF Types
  <2>4. ~misplaced BY <2>1, <2>2, <2>3 DEF LifeInv, AssertionsHold
  <2>5. life' = [life EXCEPT !.abort = misplaced] BY <1>10 DEF WalkSocket
  <2> HIDE DEF misplaced
  <2>6. life'.freed = life.freed /\ life'.deleted = life.deleted /\ life'.abort = misplaced
    BY <1>1, <2>5 DEF LifeType
  <2>7. ~life.deleted BY <2>1 DEF LifeInv
  <2> QED BY <2>4, <2>6, <2>7 DEF LifeInv, AssertionsHold
<1>11. CASE CallQueued
  <2>1. loop.at = "calls" /\ loop' = loop /\ queue # <<>> BY <1>11 DEF CallQueued
  <2>2. worker'.at = worker.at
    BY <1>1, <1>11 DEF CallQueued, InitCalled, ConnectCalled, CloseCalled, Callback, WorkerType
  <2>3. queue \in Seq(Works) BY DEF Types
  <2>4. Head(queue) = queue[1] /\ 1 \in 1 .. Len(queue) BY <2>1, <2>3, Shifted
  <2>5. Fits(Head(queue), Head(queue).conn) /\ Head(queue).conn \in Conns
    BY <2>4, WorkTypes DEF WorkInv, WorksFit
  <2> DEFINE twice == \/ life.abort
                      \/ Head(queue).do = "connect" /\ Head(queue).conn \in Elements(sockets)
  <2>6. ~twice BY <2>5 DEF Fits, VectorInv, Socketed, LifeInv, AssertionsHold
  <2>7. life' = [life EXCEPT !.abort = twice] BY <1>11 DEF CallQueued
  <2> HIDE DEF twice
  <2>8. life'.freed = life.freed /\ life'.deleted = life.deleted /\ life'.abort = twice
    BY <1>1, <2>7 DEF LifeType
  <2>9. ~life.deleted BY <2>1 DEF LifeInv
  <2> QED BY <2>6, <2>8, <2>9 DEF LifeInv, AssertionsHold
<1>12. CASE TimeEventFails
  <2>1. /\ life'.freed = life.freed /\ life'.deleted = life.deleted /\ life'.abort = life.abort
        /\ UNCHANGED <<loop, worker>>
    BY <1>1, <1>12 DEF TimeEventFails, LifeType
  <2> QED BY <2>1 DEF LifeInv, AssertionsHold
<1>13. CASE TimePasses \/ TimeEvent \/ \E c \in Conns : ServerAnswers(c) \/ ServerSends(c)
  BY <1>2, <1>13 DEF TimePasses, TimeEvent, ServerAnswers, ServerSends
<1>14. CASE ConnectFails
  <2>1. PICK c \in Conns : c = Head(queue).conn /\ c \notin Elements(sockets)
    BY <1>14, ConnectFailsFacts
  <2>2. loop.at = "calls" /\ UNCHANGED <<loop, worker>> BY <1>14 DEF ConnectFails
  <2> DEFINE twice == life.abort \/ c \in Elements(sockets)
  <2>3. ~twice BY <2>1 DEF LifeInv, AssertionsHold
  <2>4. life' = [life EXCEPT !.abort = twice] BY <1>14, <2>1 DEF ConnectFails
  <2> HIDE DEF twice
  <2>5. life'.freed = life.freed /\ life'.deleted = life.deleted /\ life'.abort = twice
    BY <1>1, <2>4 DEF LifeType
  <2>6. ~life.deleted BY <2>2 DEF LifeInv
  <2> QED BY <2>2, <2>3, <2>5, <2>6 DEF LifeInv, AssertionsHold
<1> QED BY <1>4, <1>5, <1>6, <1>7, <1>8, <1>9, <1>10, <1>11, <1>12, <1>13, <1>14 DEF Step

-----------------------------------------------------------------------------
LEMMA DeletedStays ==
  ASSUME Types, Step, life.deleted
  PROVE  life'.deleted
<1>1. life \in LifeType BY DEF Types
<1>2. CASE UNCHANGED life BY <1>2
<1>3. ASSUME NEW b, life' = [life EXCEPT !.abort = b] PROVE life'.deleted
  BY <1>1, <1>3 DEF LifeType
<1>4. ASSUME NEW b, life' = [life EXCEPT !.stop = TRUE, !.abort = b] PROVE life'.deleted
  BY <1>1, <1>4 DEF LifeType
<1>5. CASE life' = [life EXCEPT !.stop = TRUE] BY <1>1, <1>5 DEF LifeType
<1>6. CASE life' = [life EXCEPT !.deleted = TRUE, !.freed = TRUE] BY <1>1, <1>6 DEF LifeType
<1>7. CASE \/ BeginIteration \/ FileHandler \/ EndFiles \/ TimePasses \/ Select \/ SelectFails
           \/ EndWalk \/ TimeEvent \/ EndTimers \/ EndCalls \/ Worker \/ DestroyPool \/ Join
           \/ \E c \in Conns : ServerAnswers(c) \/ ServerSends(c)
  BY <1>2, <1>7 DEF BeginIteration, FileHandler, EndFiles, TimePasses, Select, SelectFails,
     EndWalk, TimeEvent, EndTimers, EndCalls, Worker, WorkerChecks, WorkerTakes, WorkerReturns,
     WorkerEnds, Others, DestroyPool, Join, ServerAnswers, ServerSends
<1>8. CASE WalkSocket \/ CallQueued \/ ConnectFails
  BY <1>3, <1>8 DEF WalkSocket, CallQueued, ConnectFails
<1>9. CASE TimeEventFails BY <1>5, <1>9 DEF TimeEventFails
<1>10. CASE AppDeletes BY <1>6, <1>10 DEF AppDeletes
<1>11. CASE \E by \in {"app", "worker"} : AppStops(by) BY <1>4, <1>11 DEF AppStops
<1>12. CASE \E by \in {"app", "worker"}, c \in Conns :
              AppConnects(c, by) \/ AppCancels(c, by) \/ AppShutsDown(c, by)
  BY <1>3, <1>12 DEF AppConnects, AppCancels, AppShutsDown, MainDispatcherUsed
<1> QED BY <1>7, <1>8, <1>9, <1>10, <1>11, <1>12 DEF Step

(* A step that neither queues nor makes a callback, and neither opens a      *)
(* connection nor gives up one.                                              *)
LEMMA OrderFrame ==
  ASSUME OrderInv, worker'.queue = worker.queue, told' = told, queue' = queue,
         \A c \in Conns : /\ conn'[c].state \in {"open", "closing"} <=> conn[c].state \in {"open", "closing"}
                          /\ conn'[c].state = "open" => conn[c].state = "open"
  PROVE  OrderInv'
<1>1. \A c, s : WillKnow(c, s)' <=> WillKnow(c, s) BY DEF WillKnow, Known
<1>2. CallsOrdered' BY DEF OrderInv, CallsOrdered
<1>3. WorkTells' BY <1>1 DEF OrderInv, WorkTells, OpenedAt
<1>4. StatesTold' BY <1>1 DEF OrderInv, StatesTold, OpenedAt
<1> QED BY <1>2, <1>3, <1>4 DEF OrderInv

(* A call is queued in the main queue: the first one for a connection that   *)
(* is not open yet tells that it is.                                         *)
LEMMA OrderPosted ==
  ASSUME Types, OrderInv, worker' = worker, told' = told, NEW w \in Works, queue' = Append(queue, w),
         \A c \in Conns :
           /\ conn[c].state \in {"open", "closing"} => conn'[c].state \in {"open", "closing"}
           /\ conn'[c].state = "open" => conn[c].state = "open" \/ (w.conn = c /\ w.do = "opened"),
         w.do = "opened" => conn[w.conn].state \notin {"open", "closing"},
         w.do = "pull" => conn[w.conn].state = "open"
  PROVE  OrderInv'
<1>1. \A c, s : WillKnow(c, s)' <=> WillKnow(c, s) BY DEF WillKnow, Known
<1>2. queue \in Seq(Works) /\ w.conn \in Conns BY DEF Types, Works
<1>3. PICK n \in Nat : /\ n = Len(queue) /\ Len(queue') = n + 1 /\ queue'[n + 1] = w
                       /\ \A i \in 1 .. n : queue'[i] = queue[i]
  BY <1>2, Appended
<1>4. \A i \in 1 .. n : i \in 1 .. (n + 1) /\ \A c : OpenedAt(c, i)' <=> OpenedAt(c, i)
  BY <1>3 DEF OpenedAt
<1>5. n + 1 \in 1 .. (n + 1) /\ \A c : OpenedAt(c, n + 1)' <=> w.conn = c /\ w.do = "opened"
  BY <1>3 DEF OpenedAt
<1>6. CallsOrdered' BY DEF OrderInv, CallsOrdered
<1>7. WorkTells'
  <2> SUFFICES ASSUME NEW i \in 1 .. (n + 1)
               PROVE  /\ queue'[i].do = "opened" => WillKnow(queue[i].conn, "closed")'
                      /\ queue'[i].do = "pull" =>
                           \/ WillKnow(queue[i].conn, "opened")'
                           \/ \E j \in 1 .. (i - 1) : OpenedAt(queue[i].conn, j)'
    BY <1>3 DEF WorkTells
  <2>1. CASE i \in 1 .. n
    <3>1. queue'[i] = queue[i] /\ \A j \in 1 .. (i - 1) : j \in 1 .. n BY <1>3, <2>1
    <3>2. \A c, s : c = queue'[i].conn => (WillKnow(c, s)' <=> WillKnow(c, s)) BY <1>1
    <3> QED BY <1>1, <1>3, <1>4, <2>1, <3>1 DEF OrderInv, WorkTells
  <2>2. CASE i = n + 1
    <3>1. queue'[i] = w BY <1>3, <2>2
    <3>2. CASE w.do = "opened"
      <4>1. WillKnow(w.conn, "closed") BY <1>2, <3>2 DEF OrderInv, StatesTold
      <4> QED BY <1>1, <3>1, <3>2, <4>1
    <3>3. CASE w.do = "pull"
      <4>1. WillKnow(w.conn, "opened") \/ \E j \in 1 .. n : OpenedAt(w.conn, j)
        BY <1>2, <1>3, <3>3 DEF OrderInv, StatesTold
      <4>2. i - 1 = n BY <2>2
      <4> QED BY <1>1, <1>4, <3>1, <3>3, <4>1, <4>2
    <3> QED BY <3>1, <3>2, <3>3
  <2>3. i \in 1 .. n \/ i = n + 1 OBVIOUS
  <2> QED BY <2>1, <2>2, <2>3
<1>8. StatesTold'
  <2> SUFFICES ASSUME NEW c \in Conns
               PROVE  /\ conn'[c].state \notin {"open", "closing"} => WillKnow(c, "closed")'
                      /\ conn'[c].state = "open" =>
                           WillKnow(c, "opened")' \/ \E i \in 1 .. (n + 1) : OpenedAt(c, i)'
    BY <1>3 DEF StatesTold
  <2>1. conn'[c].state \notin {"open", "closing"} => WillKnow(c, "closed")'
    BY <1>1 DEF OrderInv, StatesTold
  <2>2. ASSUME conn'[c].state = "open"
        PROVE  WillKnow(c, "opened")' \/ \E i \in 1 .. (n + 1) : OpenedAt(c, i)'
    <3>1. CASE conn[c].state = "open"
      BY <1>1, <1>3, <1>4, <3>1 DEF OrderInv, StatesTold
    <3>2. CASE w.conn = c /\ w.do = "opened" BY <1>5, <3>2
    <3> QED BY <2>2, <3>1, <3>2
  <2> QED BY <2>1, <2>2
<1> QED BY <1>6, <1>7, <1>8 DEF OrderInv

(* A call is taken from the main queue; what it leads to is a callback that  *)
(* the application waits for, or nothing yet.                                *)
LEMMA OrderTaken ==
  ASSUME Types, WorkInv, OrderInv, queue # <<>>, queue' = Tail(queue),
         NEW c \in Conns, c = Head(queue).conn,
         \A d \in Conns : d # c => /\ conn'[d].state = conn[d].state
                                   /\ \A s : WillKnow(d, s)' <=> WillKnow(d, s),
         \/ /\ Head(queue).do \in {"init", "connect"} /\ conn'[c].state \notin {"open", "closing"}
            /\ WillKnow(c, "closed")'
         \/ /\ Head(queue).do \in {"opened", "pull"} /\ conn'[c].state = conn[c].state
            /\ WillKnow(c, "opened")'
         \/ /\ Head(queue).do = "close" /\ conn'[c].state = "closed"
            /\ WillKnow(c, "closed")'
  PROVE  WorkTells' /\ StatesTold'
<1>1. queue \in Seq(Works) BY DEF Types
<1>2. PICK n \in Nat : /\ n = Len(queue) /\ n >= 1 /\ Len(queue') = n - 1
                       /\ \A i \in 1 .. (n - 1) : queue'[i] = queue[i + 1]
  BY <1>1, Shifted
<1>3. Head(queue) = queue[1] /\ 1 \in 1 .. n BY <1>1, <1>2, Shifted
<1>4. \A i \in 1 .. (n - 1) : i + 1 \in 1 .. n /\ i + 1 # 1 /\ ~(i + 1 <= 1) OBVIOUS
<1>5. \A i \in 1 .. n : queue[i].conn \in Conns BY <1>2, WorkTypes
<1>6. ASSUME NEW d \in Conns, d # c, NEW i \in 1 .. n, OpenedAt(d, i)
      PROVE  i - 1 \in 1 .. (n - 1) /\ OpenedAt(d, i - 1)'
  <2>1. i # 1 BY <1>3, <1>6 DEF OpenedAt
  <2>2. i - 1 \in 1 .. (n - 1) /\ (i - 1) + 1 = i BY <2>1
  <2>3. queue'[i - 1] = queue[i] BY <1>2, <2>2
  <2> QED BY <1>6, <2>2, <2>3 DEF OpenedAt
<1>7. ASSUME NEW i \in 1 .. (n - 1), queue'[i].conn = c
      PROVE  queue'[i].do # "opened" /\ (queue'[i].do = "pull" => WillKnow(c, "opened")')
  <2>1. i + 1 \in 1 .. n /\ queue'[i] = queue[i + 1] /\ i + 1 # 1 /\ ~(i + 1 <= 1)
    BY <1>2, <1>4
  <2>2. /\ Head(queue).do \in {"init", "connect"} => 1 = i + 1
        /\ Head(queue).do = "close" => i + 1 <= 1
    BY <1>2, <1>3, <1>7, <2>1 DEF WorkInv, WorksOrdered
  <2>3. queue[i + 1].do = "opened" => i + 1 <= 1
    BY <1>2, <1>3, <1>7, <2>1 DEF WorkInv, WorksOrdered
  <2> QED BY <2>1, <2>2, <2>3
<1>8. ASSUME NEW i \in 1 .. (n - 1), NEW d \in Conns, queue'[i].conn = d
      PROVE  /\ queue'[i].do = "opened" => WillKnow(d, "closed")'
             /\ queue'[i].do = "pull" =>
                  \/ WillKnow(d, "opened")'
                  \/ \E j \in 1 .. (i - 1) : OpenedAt(d, j)'
  <2>1. CASE d = c BY <1>7, <1>8, <2>1
  <2>2. CASE d # c
    <3>1. i + 1 \in 1 .. n /\ queue'[i] = queue[i + 1] /\ (i + 1) - 1 = i BY <1>2, <1>4
    <3>2. /\ queue[i + 1].do = "opened" => WillKnow(d, "closed")
          /\ queue[i + 1].do = "pull" => WillKnow(d, "opened") \/ \E j \in 1 .. i : OpenedAt(d, j)
      BY <1>2, <1>8, <3>1 DEF OrderInv, WorkTells
    <3>3. ASSUME NEW j \in 1 .. i, OpenedAt(d, j) PROVE \E k \in 1 .. (i - 1) : OpenedAt(d, k)'
      <4>1. j \in 1 .. n OBVIOUS
      <4>2. j - 1 \in 1 .. (n - 1) /\ OpenedAt(d, j - 1)' BY <1>6, <2>2, <3>3, <4>1
      <4>3. j - 1 \in 1 .. (i - 1) BY <4>2
      <4> QED BY <4>2, <4>3
    <3> QED BY <2>2, <3>1, <3>2, <3>3
  <2> QED BY <2>1, <2>2
<1>9. WorkTells'
  <2> SUFFICES ASSUME NEW i \in 1 .. (n - 1)
               PROVE  /\ queue'[i].do = "opened" => WillKnow(queue[i].conn, "closed")'
                      /\ queue'[i].do = "pull" =>
                           \/ WillKnow(queue[i].conn, "opened")'
                           \/ \E j \in 1 .. (i - 1) : OpenedAt(queue[i].conn, j)'
    BY <1>2 DEF WorkTells
  <2>1. PICK d \in Conns : d = queue'[i].conn BY <1>2, <1>4, <1>5
  <2>2. /\ queue'[i].do = "opened" => WillKnow(d, "closed")'
        /\ queue'[i].do = "pull" => WillKnow(d, "opened")' \/ \E j \in 1 .. (i - 1) : OpenedAt(d, j)'
    BY <1>8, <2>1
  <2> QED BY <2>1, <2>2
<1>10. StatesTold'
  <2> SUFFICES ASSUME NEW d \in Conns
               PROVE  /\ conn'[d].state \notin {"open", "closing"} => WillKnow(d, "closed")'
                      /\ conn'[d].state = "open" =>
                           WillKnow(d, "opened")' \/ \E i \in 1 .. (n - 1) : OpenedAt(d, i)'
    BY <1>2 DEF StatesTold
  <2>1. CASE d = c
    <3>1. Fits(Head(queue), c) BY <1>2, <1>3 DEF WorkInv, WorksFit
    <3>2. Head(queue).do \in {"opened", "pull"} => conn[c].state \in {"open", "closing"}
      BY <3>1 DEF Fits
    <3> QED BY <2>1, <3>2
  <2>2. CASE d # c
    <3>1. /\ conn[d].state \notin {"open", "closing"} => WillKnow(d, "closed")
          /\ conn[d].state = "open" => WillKnow(d, "opened") \/ \E i \in 1 .. n : OpenedAt(d, i)
      BY <1>2 DEF OrderInv, StatesTold
    <3> QED BY <1>6, <2>2, <3>1
  <2> QED BY <2>1, <2>2
<1> QED BY <1>9, <1>10

(* A callback is queued for the worker after all others.                     *)
LEMMA CallsAppended ==
  ASSUME Types, CallsOrdered, NEW w \in Calls, told' = told,
         worker' = [worker EXCEPT !.queue = Append(worker.queue, w)],
         w.do = "opened" => WillKnow(w.conn, "closed"),
         w.do = "message" => WillKnow(w.conn, "opened")
  PROVE  /\ CallsOrdered'
         /\ \A d \in Conns : \A s : d # w.conn => (WillKnow(d, s)' <=> WillKnow(d, s))
         /\ WillKnow(w.conn, IF w.do = "closed" THEN "closed" ELSE "opened")'
<1>1. PICK q \in Seq(Calls) : q = worker.queue BY DEF Types, WorkerType
<1>2. PICK r \in Seq(Calls) : r = Append(q, w) BY Appended
<1>3. PICK n \in Nat : n = Len(q) OBVIOUS
<1>4. Len(r) = n + 1 /\ r[n + 1] = w /\ \A i \in 1 .. n : r[i] = q[i]
  BY <1>2, <1>3, Appended
<1>5. worker'.queue = r BY <1>1, <1>2 DEF Types, WorkerType
<1>6. \A t, d, s : \A i \in 1 .. (n + 1) : Known(r, t, d, i, s) <=> Known(q, t, d, i, s)
  BY <1>2, <1>3, KnownAppended
<1>7. CallsOrdered'
  <2> SUFFICES ASSUME NEW i \in 1 .. (n + 1)
               PROVE  /\ r[i].do = "opened" => Known(r, told[r[i].conn], r[i].conn, i, "closed")
                      /\ r[i].do = "message" => Known(r, told[r[i].conn], r[i].conn, i, "opened")
    BY <1>4, <1>5 DEF CallsOrdered
  <2>1. CASE i \in 1 .. n
    <3>1. r[i] = q[i] BY <1>4, <2>1
    <3>2. /\ q[i].do = "opened" => Known(q, told[q[i].conn], q[i].conn, i, "closed")
          /\ q[i].do = "message" => Known(q, told[q[i].conn], q[i].conn, i, "opened")
      BY <1>1, <1>3, <2>1 DEF CallsOrdered
    <3> QED BY <1>6, <3>1, <3>2
  <2>2. CASE i = n + 1
    <3>1. /\ w.do = "opened" => Known(q, told[w.conn], w.conn, n + 1, "closed")
          /\ w.do = "message" => Known(q, told[w.conn], w.conn, n + 1, "opened")
      BY <1>1, <1>3 DEF WillKnow
    <3> QED BY <1>4, <1>6, <2>2, <3>1
  <2> QED BY <2>1, <2>2
<1>8. Len(r) + 1 = n + 2 BY <1>4
<1>9. ASSUME NEW d \in Conns, NEW s, d # w.conn PROVE WillKnow(d, s)' <=> WillKnow(d, s)
  <2>1. Known(r, told[d], d, n + 2, s) <=> Known(q, told[d], d, n + 1, s)
    BY <1>2, <1>3, <1>9, KnownAppended
  <2> QED BY <1>1, <1>3, <1>5, <1>8, <2>1 DEF WillKnow
<1>10. WillKnow(w.conn, IF w.do = "closed" THEN "closed" ELSE "opened")'
  <2>1. PICK s : s = IF w.do = "closed" THEN "closed" ELSE "opened" OBVIOUS
  <2>2. Known(r, told[w.conn], w.conn, n + 2, s) BY <1>2, <1>3, <2>1, KnownAppended
  <2> QED BY <1>5, <1>8, <2>1, <2>2 DEF WillKnow
<1> QED BY <1>7, <1>9, <1>10

LEMMA CallRecord ==
  ASSUME NEW do \in {"opened", "message", "closed"}, NEW c \in Conns
  PROVE  \E w \in Calls : w = [do |-> do, conn |-> c] /\ w.conn = c /\ w.do = do
<1>1. [do |-> do, conn |-> c] \in Calls BY DEF Calls
<1> QED BY <1>1

(* A call of the main queue keeps the order of callbacks.                    *)
LEMMA CallOrder ==
  ASSUME Types, WorkInv, OrderInv, CallQueued
  PROVE  OrderInv'
<1>1. queue \in Seq(Works) /\ queue # <<>> /\ queue' = Tail(queue) /\ told' = told
  BY DEF Types, CallQueued
<1>2. conn \in [Conns -> [state: States, left: 0 .. FileSteps]] BY DEF Types
<1>3. Head(queue) = queue[1] /\ 1 \in 1 .. Len(queue) BY <1>1, Shifted
<1>4. PICK c \in Conns : c = Head(queue).conn BY <1>3, WorkTypes
<1>5. Fits(Head(queue), c) BY <1>3, <1>4 DEF WorkInv, WorksFit
<1>6. CASE \/ Head(queue).do = "init" /\ InitCalled(c)
           \/ Head(queue).do = "connect" /\ ConnectCalled(c)
  <2>1. worker' = worker BY <1>6 DEF InitCalled, ConnectCalled
  <2>2. \A d, s : WillKnow(d, s)' <=> WillKnow(d, s) BY <1>1, <2>1 DEF WillKnow
  <2>3. /\ conn'[c].state \notin {"open", "closing"}
        /\ \A d \in Conns : d # c => conn'[d].state = conn[d].state
    BY <1>2, <1>6 DEF InitCalled, ConnectCalled
  <2>4. conn[c].state \notin {"open", "closing"} BY <1>5, <1>6 DEF Fits
  <2>5. WillKnow(c, "closed")' BY <2>2, <2>4 DEF OrderInv, StatesTold
  <2>6. WorkTells' /\ StatesTold' BY <1>1, <1>4, <1>6, <2>2, <2>3, <2>5, OrderTaken
  <2>7. CallsOrdered' BY <1>1, <2>1 DEF OrderInv, CallsOrdered
  <2> QED BY <2>6, <2>7 DEF OrderInv
<1>7. CASE Head(queue).do \in {"opened", "pull"} /\ conn' = conn
           /\ Callback(IF Head(queue).do = "opened" THEN "opened" ELSE "message", c)
  <2>0. PICK do \in {"opened", "message"} :
          do = IF Head(queue).do = "opened" THEN "opened" ELSE "message"
    OBVIOUS
  <2>1. PICK w \in Calls : w = [do |-> do, conn |-> c] /\ w.conn = c /\ w.do = do
    BY CallRecord
  <2>2. worker' = [worker EXCEPT !.queue = Append(worker.queue, w)]
    BY <1>7, <2>0, <2>1 DEF Callback, Posted
  <2>3. /\ Head(queue).do = "opened" => WillKnow(c, "closed")
        /\ Head(queue).do = "pull" => WillKnow(c, "opened")
    BY <1>3, <1>4 DEF OrderInv, WorkTells
  <2>4. w.do # "closed" BY <2>1
  <2>5. CallsOrdered BY DEF OrderInv
  <2>6. /\ CallsOrdered' /\ WillKnow(c, "opened")'
        /\ \A d \in Conns : \A s : d # c => (WillKnow(d, s)' <=> WillKnow(d, s))
    BY <1>1, <1>7, <2>0, <2>1, <2>2, <2>3, <2>4, <2>5, CallsAppended
  <2>7. WorkTells' /\ StatesTold' BY <1>1, <1>4, <1>7, <2>6, OrderTaken
  <2> QED BY <2>6, <2>7 DEF OrderInv
<1>8. CASE Head(queue).do = "close" /\ CloseCalled(c)
  <2>1. PICK w \in Calls : w = [do |-> "closed", conn |-> c] /\ w.conn = c /\ w.do = "closed"
    BY CallRecord
  <2>2. worker' = [worker EXCEPT !.queue = Append(worker.queue, w)]
    BY <1>8, <2>1 DEF CloseCalled, Callback, Posted
  <2>3. CallsOrdered BY DEF OrderInv
  <2>4. /\ CallsOrdered' /\ WillKnow(c, "closed")'
        /\ \A d \in Conns : \A s : d # c => (WillKnow(d, s)' <=> WillKnow(d, s))
    BY <1>1, <2>1, <2>2, <2>3, CallsAppended
  <2>5. conn'[c].state = "closed" /\ \A d \in Conns : d # c => conn'[d].state = conn[d].state
    BY <1>2, <1>8 DEF CloseCalled
  <2>6. WorkTells' /\ StatesTold' BY <1>1, <1>4, <1>8, <2>4, <2>5, OrderTaken
  <2> QED BY <2>4, <2>6 DEF OrderInv
<1>9. CASE Head(queue).do = "opened" /\ Callback("opened", c) /\ conn' = conn BY <1>7, <1>9
<1>10. CASE Head(queue).do = "pull" /\ Callback("message", c) /\ conn' = conn BY <1>7, <1>10
<1> QED BY <1>4, <1>6, <1>8, <1>9, <1>10 DEF CallQueued

(* A connect that fails at once tells the application nothing yet.           *)
LEMMA FailedOrder ==
  ASSUME Types, VectorInv, WorkInv, OrderInv, ConnectFails
  PROVE  OrderInv'
<1>1. PICK c \in Conns, n \in Nat \ {0} :
        /\ conn[c].state = "loading"
        /\ conn'[c].state = "closing" /\ \A d \in Conns : d # c => conn'[d] = conn[d]
        /\ n = Len(queue) /\ n = Len(queue')
        /\ queue'[n].conn = c /\ queue'[n].do = "close"
        /\ queue[1].conn = c /\ queue[1].do = "connect"
        /\ \A i \in 1 .. (n - 1) : queue'[i] = queue[i + 1] /\ queue'[i].conn # c
  BY ConnectFailsFacts
<1>2. UNCHANGED <<worker, told>> BY DEF ConnectFails
<1>3. \A d, s : WillKnow(d, s)' <=> WillKnow(d, s) BY <1>2 DEF WillKnow
<1>4. CallsOrdered' BY <1>2 DEF OrderInv, CallsOrdered
<1>5. ASSUME NEW d, NEW i \in 1 .. n, OpenedAt(d, i)
      PROVE  i - 1 \in 1 .. (n - 1) /\ OpenedAt(d, i - 1)'
  <2>1. i # 1 BY <1>1, <1>5 DEF OpenedAt
  <2>2. i - 1 \in 1 .. (n - 1) /\ (i - 1) + 1 = i BY <2>1
  <2>3. queue'[i - 1] = queue[i] BY <1>1, <2>2
  <2> QED BY <1>5, <2>2, <2>3 DEF OpenedAt
<1>6. WorkTells'
  <2> SUFFICES ASSUME NEW i \in 1 .. n
               PROVE  /\ queue'[i].do = "opened" => WillKnow(queue[i].conn, "closed")'
                      /\ queue'[i].do = "pull" =>
                           \/ WillKnow(queue[i].conn, "opened")'
                           \/ \E j \in 1 .. (i - 1) : OpenedAt(queue[i].conn, j)'
    BY <1>1 DEF WorkTells
  <2>1. CASE i = n BY <1>1, <2>1
  <2>2. CASE i \in 1 .. (n - 1)
    <3>1. i + 1 \in 1 .. n /\ queue'[i] = queue[i + 1] /\ (i + 1) - 1 = i BY <1>1, <2>2
    <3>2. PICK d \in Conns : d = queue[i + 1].conn BY <1>1, <3>1, WorkTypes
    <3>3. /\ queue[i + 1].do = "opened" => WillKnow(d, "closed")
          /\ queue[i + 1].do = "pull" => WillKnow(d, "opened") \/ \E j \in 1 .. i : OpenedAt(d, j)
      BY <1>1, <3>1, <3>2 DEF OrderInv, WorkTells
    <3>4. ASSUME NEW j \in 1 .. i, OpenedAt(d, j) PROVE \E k \in 1 .. (i - 1) : OpenedAt(d, k)'
      <4>1. j \in 1 .. n BY <2>2
      <4>2. j - 1 \in 1 .. (n - 1) /\ OpenedAt(d, j - 1)' BY <1>5, <3>4, <4>1
      <4>3. j - 1 \in 1 .. (i - 1) BY <4>2
      <4> QED BY <4>2, <4>3
    <3>5. d = queue'[i].conn BY <3>1, <3>2
    <3>6. /\ queue'[i].do = "opened" => WillKnow(d, "closed")'
          /\ queue'[i].do = "pull" =>
               WillKnow(d, "opened")' \/ \E j \in 1 .. (i - 1) : OpenedAt(d, j)'
      BY <1>3, <3>1, <3>3, <3>4
    <3> QED BY <3>5, <3>6
  <2> QED BY <2>1, <2>2
<1>7. StatesTold'
  <2> SUFFICES ASSUME NEW d \in Conns
               PROVE  /\ conn'[d].state \notin {"open", "closing"} => WillKnow(d, "closed")'
                      /\ conn'[d].state = "open" =>
                           WillKnow(d, "opened")' \/ \E i \in 1 .. n : OpenedAt(d, i)'
    BY <1>1 DEF StatesTold
  <2>1. CASE d = c BY <1>1, <2>1
  <2>2. CASE d # c
    <3>1. /\ conn[d].state \notin {"open", "closing"} => WillKnow(d, "closed")
          /\ conn[d].state = "open" => WillKnow(d, "opened") \/ \E i \in 1 .. n : OpenedAt(d, i)
      BY <1>1 DEF OrderInv, StatesTold
    <3>2. ASSUME NEW i \in 1 .. n, OpenedAt(d, i) PROVE \E k \in 1 .. n : OpenedAt(d, k)'
      <4>1. i - 1 \in 1 .. (n - 1) /\ OpenedAt(d, i - 1)' BY <1>5, <3>2
      <4>2. i - 1 \in 1 .. n BY <4>1
      <4> QED BY <4>1, <4>2
    <3>3. conn'[d] = conn[d] BY <1>1, <2>2
    <3> QED BY <1>3, <3>1, <3>2, <3>3
  <2> QED BY <2>1, <2>2
<1> QED BY <1>4, <1>6, <1>7 DEF OrderInv

(* The worker makes its first callback.                                      *)
LEMMA TakesOrder ==
  ASSUME Types, OrderInv, ~life.deleted, WorkerTakes
  PROVE  /\ OrderInv'
         /\ worker'.call.do = "opened" => told[worker'.call.conn] = "closed"
         /\ worker'.call.do = "message" => told[worker'.call.conn] = "opened"
<1>0. worker \in WorkerType BY DEF Types
<1>1. PICK q \in Seq(Calls) : q = worker.queue BY <1>0 DEF WorkerType
<1>2. q # <<>> BY <1>1 DEF WorkerTakes
<1>3. PICK n \in Nat : n = Len(q) /\ n >= 1 BY <1>2
<1>a. PICK r \in Seq(Calls) : r = Tail(q) BY <1>2, Shifted
<1>4. r = Tail(q) /\ Len(r) = n - 1 /\ \A i \in 1 .. (n - 1) : r[i] = q[i + 1]
  BY <1>2, <1>3, <1>a, Shifted
<1>5. Head(q) = q[1] /\ q[1] \in Calls /\ 1 \in 1 .. n BY <1>2, <1>3, Shifted
<1>6. q[1].conn \in Conns /\ q[1].do \in {"opened", "message", "closed"} BY <1>5 DEF Calls
<1>7. /\ worker' = [worker EXCEPT !.queue = r, !.at = "calling", !.call = q[1]]
      /\ told' = [told EXCEPT ![q[1].conn] = IF q[1].do = "message" THEN @ ELSE q[1].do]
      /\ queue' = queue /\ conn' = conn
  BY <1>1, <1>4, <1>5 DEF WorkerTakes, Found, Others, Dispatcher
<1>8. worker'.queue = r /\ worker'.call = q[1] BY <1>0, <1>7 DEF WorkerType
<1>9. /\ q[1].do = "opened" => Known(q, told[q[1].conn], q[1].conn, 1, "closed")
      /\ q[1].do = "message" => Known(q, told[q[1].conn], q[1].conn, 1, "opened")
  BY <1>1, <1>3, <1>5 DEF OrderInv, CallsOrdered
<1>10. \A t, c, s : Known(q, t, c, 1, s) => t = s BY DEF Known
<1>11. /\ q[1].do = "opened" => told[q[1].conn] = "closed"
       /\ q[1].do = "message" => told[q[1].conn] = "opened"
  BY <1>9, <1>10
<1>12. told \in [Conns -> {"opened", "closed"}] BY DEF Types
<1>13. /\ \A d \in Conns : d # q[1].conn => told'[d] = told[d]
       /\ told'[q[1].conn] = IF q[1].do = "closed" THEN "closed" ELSE "opened"
  BY <1>6, <1>7, <1>11, <1>12
<1>14. \A d \in Conns, s \in {"opened", "closed"}, i \in 1 .. n :
         Known(q, told[d], d, i + 1, s) => Known(r, told'[d], d, i, s)
  <2> SUFFICES ASSUME NEW d \in Conns, NEW s \in {"opened", "closed"}, NEW i \in 1 .. n,
                      Known(q, told[d], d, i + 1, s)
               PROVE  Known(r, told'[d], d, i, s)
    OBVIOUS
  <2>1. /\ Head(q).conn # d => told'[d] = told[d]
        /\ Head(q).conn = d => told'[d] = (IF Head(q).do = "closed" THEN "closed" ELSE "opened")
    BY <1>5, <1>13
  <2> QED BY <1>2, <1>3, <1>4, <2>1, KnownShifted
<1>15. \A d \in Conns, s \in {"opened", "closed"} : WillKnow(d, s) => WillKnow(d, s)'
  <2>1. Len(r) + 1 = n /\ n \in 1 .. n BY <1>3, <1>4
  <2> QED BY <1>1, <1>3, <1>8, <1>14, <2>1 DEF WillKnow
<1>16. CallsOrdered'
  <2> SUFFICES ASSUME NEW i \in 1 .. (n - 1)
               PROVE  /\ r[i].do = "opened" => Known(r, told'[r[i].conn], r[i].conn, i, "closed")
                      /\ r[i].do = "message" => Known(r, told'[r[i].conn], r[i].conn, i, "opened")
    BY <1>4, <1>8 DEF CallsOrdered
  <2>1. r[i] = q[i + 1] /\ i + 1 \in 1 .. n /\ i \in 1 .. n BY <1>4
  <2>2. r[i].conn \in Conns
    <3>1. r[i] \in Calls BY <1>4
    <3> QED BY <3>1 DEF Calls
  <2>3. /\ r[i].do = "opened" => Known(q, told[r[i].conn], r[i].conn, i + 1, "closed")
        /\ r[i].do = "message" => Known(q, told[r[i].conn], r[i].conn, i + 1, "opened")
    BY <1>1, <1>3, <2>1 DEF OrderInv, CallsOrdered
  <2> QED BY <1>14, <2>1, <2>2, <2>3
<1>17. WorkTells'
  <2> SUFFICES ASSUME NEW i \in 1 .. Len(queue)
               PROVE  /\ queue[i].do = "opened" => WillKnow(queue[i].conn, "closed")'
                      /\ queue[i].do = "pull" =>
                           \/ WillKnow(queue[i].conn, "opened")'
                           \/ \E j \in 1 .. (i - 1) : OpenedAt(queue[i].conn, j)'
    BY <1>7 DEF WorkTells
  <2>1. PICK d \in Conns : d = queue[i].conn BY WorkTypes
  <2>2. d = queue'[i].conn BY <1>7, <2>1
  <2>3. /\ queue[i].do = "opened" => WillKnow(d, "closed")'
        /\ queue[i].do = "pull" => WillKnow(d, "opened")' \/ \E j \in 1 .. (i - 1) : OpenedAt(d, j)
    BY <1>15, <2>1 DEF OrderInv, WorkTells
  <2>4. \A j : OpenedAt(d, j)' <=> OpenedAt(d, j) BY <1>7 DEF OpenedAt
  <2> QED BY <2>2, <2>3, <2>4
<1>18. StatesTold' BY <1>7, <1>15 DEF OrderInv, StatesTold, OpenedAt
<1> QED BY <1>8, <1>11, <1>16, <1>17, <1>18 DEF OrderInv

(* A step that changes the queue of calls through a handler, or not at all.  *)
LEMMA HandlerOrder ==
  ASSUME Types, VectorInv, WorkInv, OrderInv, FileHandler \/ WalkSocket \/ TimeEvent \/ TimeEventFails
  PROVE  OrderInv'
<1>1. conn \in [Conns -> [state: States, left: 0 .. FileSteps]] BY DEF Types
<1>2. \A t \in timers : t.conn \in Conns BY WorkTypes
<1>3. loop \in LoopType /\ sockets \in Seq(Conns) /\ files \in Seq(Conns) BY DEF Types
<1>4. worker' = worker /\ told' = told BY DEF FileHandler, WalkSocket, TimeEvent, TimeEventFails
<1>5. CASE FileHandler
  <2>1. PICK c \in Conns : c = files[loop.i]
    BY <1>3, <1>5 DEF FileHandler, LoopType, Places
  <2>2. \A d \in Conns : conn'[d].state = conn[d].state BY <1>1, <1>5, <2>1 DEF FileHandler
  <2>3. CASE queue' = queue BY <1>4, <2>2, <2>3, OrderFrame
  <2>4. CASE queue' = Append(queue, Work("connect", c, "loop"))
    <3>1. PICK w \in Works : w.do = "connect" /\ queue' = Append(queue, w)
      BY <2>4 DEF Work, Works
    <3> QED BY <1>4, <2>2, <3>1, OrderPosted
  <2> QED BY <1>5, <2>1, <2>3, <2>4 DEF FileHandler, Posted
<1>6. CASE WalkSocket
  <2>1. PICK c \in Conns : c = sockets[loop.i]
    BY <1>3, <1>6 DEF WalkSocket, LoopType, Places
  <2>2. CASE UNCHANGED <<queue, conn>> BY <1>4, <2>2, OrderFrame
  <2>3. CASE /\ peer[c] = "data" /\ queue' = Append(queue, Work("pull", c, "loop"))
             /\ conn[c].state \in {"connecting", "open"} /\ conn' = [conn EXCEPT ![c].state = "open"]
    <3>1. PICK w \in Works : w.conn = c /\ w.do = "pull" /\ queue' = Append(queue, w)
      BY <2>3 DEF Work, Works
    <3>2. conn[c].state = "open" BY <2>3 DEF WorkInv, PeersFit
    <3>3. \A d \in Conns : conn'[d].state = conn[d].state BY <1>1, <2>3, <3>2
    <3> QED BY <1>4, <3>1, <3>2, <3>3, OrderPosted
  <2>4. CASE /\ peer[c] = "connected" /\ queue' = Append(queue, Work("opened", c, "loop"))
             /\ conn' = [conn EXCEPT ![c].state = "open"]
    <3>1. PICK w \in Works : w.conn = c /\ w.do = "opened" /\ queue' = Append(queue, w)
      BY <2>4 DEF Work, Works
    <3>2. conn[c].state = "connecting" BY <2>4 DEF WorkInv, PeersFit
    <3>3. conn'[c].state = "open" /\ \A d \in Conns : d # c => conn'[d].state = conn[d].state
      BY <1>1, <2>4
    <3> QED BY <1>4, <3>1, <3>2, <3>3, OrderPosted
  <2>5. CASE /\ queue' = Append(queue, Work("close", c, "loop"))
             /\ conn' = [conn EXCEPT ![c].state = "closing"]
    <3>1. PICK w \in Works : w.conn = c /\ w.do = "close" /\ queue' = Append(queue, w)
      BY <2>5 DEF Work, Works
    <3>2. conn'[c].state = "closing" /\ \A d \in Conns : d # c => conn'[d].state = conn[d].state
      BY <1>1, <2>5
    <3> QED BY <1>4, <3>1, <3>2, OrderPosted
  <2>6. CASE /\ peer[c] \in {"connected", "data"} /\ conn[c].state \in {"connecting", "open"}
             /\ queue' = Append(queue, Work(IF peer[c] = "data" THEN "pull" ELSE "opened", c, "loop"))
             /\ conn' = [conn EXCEPT ![c].state = "open"]
    <3>1. CASE peer[c] = "data"
      <4>1. queue' = Append(queue, Work("pull", c, "loop")) BY <2>6, <3>1
      <4> QED BY <2>3, <2>6, <3>1, <4>1
    <3>2. CASE peer[c] = "connected"
      <4>1. queue' = Append(queue, Work("opened", c, "loop")) BY <2>6, <3>2
      <4> QED BY <2>4, <2>6, <3>2, <4>1
    <3> QED BY <2>6, <3>1, <3>2
  <2> QED BY <1>6, <2>1, <2>2, <2>5, <2>6 DEF WalkSocket, HandleSocket, SocketHandler, Posted
<1>7. CASE TimeEvent
  <2>1. PICK t \in timers : queue' = Append(queue, Work("init", t.conn, "loop"))
    BY <1>7 DEF TimeEvent, Due, Posted
  <2>2. PICK w \in Works : w.do = "init" /\ queue' = Append(queue, w)
    BY <1>2, <2>1 DEF Work, Works
  <2>3. conn' = conn BY <1>7 DEF TimeEvent
  <2> QED BY <1>4, <2>2, <2>3, OrderPosted
<1>8. CASE TimeEventFails
  <2>1. PICK t \in timers : conn' = [conn EXCEPT ![t.conn].state = "closed"]
    BY <1>8 DEF TimeEventFails, Due
  <2>2. PICK c \in Conns : c = t.conn /\ conn[c].state = "scheduled"
    BY <1>2, <2>1 DEF WorkInv, TimersFit
  <2>3. conn'[c].state = "closed" /\ \A d \in Conns : d # c => conn'[d].state = conn[d].state
    BY <1>1, <2>1, <2>2
  <2>4. queue' = queue BY <1>8 DEF TimeEventFails
  <2> QED BY <1>4, <2>2, <2>3, <2>4, OrderFrame
<1> QED BY <1>5, <1>6, <1>7, <1>8

LEMMA OrderStep ==
  ASSUME Types, VectorInv, WorkInv, OrderInv, ~life.deleted, Step
  PROVE  OrderInv'
<1>1. conn \in [Conns -> [state: States, left: 0 .. FileSteps]] /\ worker \in WorkerType BY DEF Types
<1>2. CASE \/ BeginIteration \/ EndFiles \/ TimePasses \/ Select \/ SelectFails \/ EndWalk
           \/ EndTimers \/ EndCalls \/ Join \/ AppDeletes
           \/ \E by \in {"app", "worker"} : AppStops(by)
           \/ \E c \in Conns : ServerAnswers(c) \/ ServerSends(c)
  <2>1. UNCHANGED <<queue, conn, worker, told>>
    BY <1>2 DEF BeginIteration, EndFiles, TimePasses, Select, SelectFails, EndWalk, EndTimers,
       EndCalls, Join, AppDeletes, AppStops, ServerAnswers, ServerSends, Dispatcher
  <2> QED BY <2>1, OrderFrame
<1>3. CASE WorkerChecks \/ WorkerReturns \/ WorkerEnds \/ DestroyPool
  <2>1. UNCHANGED <<queue, conn, told>>
    BY <1>3 DEF WorkerChecks, WorkerReturns, WorkerEnds, DestroyPool, Others, Dispatcher
  <2>2. worker'.queue = worker.queue
    BY <1>1, <1>3 DEF WorkerChecks, WorkerReturns, WorkerEnds, DestroyPool, StopWorker, WorkerType
  <2> QED BY <2>1, <2>2, OrderFrame
<1>4. CASE WorkerTakes BY <1>4, TakesOrder
<1>5. ASSUME NEW by \in {"app", "worker"}, NEW c \in Conns, AppConnects(c, by) \/ AppCancels(c, by)
      PROVE  OrderInv'
  <2>1. UNCHANGED <<queue, worker, told>> BY <1>5 DEF AppConnects, AppCancels
  <2>2. conn[c].state \in {"closed", "cancelled", "scheduled"}
    BY <1>5 DEF AppConnects, AppCancels, Unconnected, WorkInv, TimersFit
  <2>3. \E s \in {"scheduled", "cancelled"} : conn' = [conn EXCEPT ![c].state = s]
    BY <1>5 DEF AppConnects, AppCancels
  <2>4. /\ conn'[c].state \in {"scheduled", "cancelled"}
        /\ \A d \in Conns : d # c => conn'[d].state = conn[d].state
    BY <1>1, <2>3
  <2> QED BY <2>1, <2>2, <2>4, OrderFrame
<1>6. ASSUME NEW by \in {"app", "worker"}, NEW c \in Conns, AppShutsDown(c, by) PROVE OrderInv'
  <2>1. PICK w \in Works : w.do = "close" /\ queue' = Append(queue, w)
    BY <1>6 DEF AppShutsDown, Posted, Work, Works
  <2>2. conn'[c].state = "closing" /\ \A d \in Conns : d # c => conn'[d].state = conn[d].state
    BY <1>1, <1>6 DEF AppShutsDown
  <2>3. UNCHANGED <<worker, told>> BY <1>6 DEF AppShutsDown
  <2> QED BY <2>1, <2>2, <2>3, OrderPosted
<1> QED BY <1>2, <1>3, <1>4, <1>5, <1>6, HandlerOrder, CallOrder, FailedOrder DEF Step, Worker

-----------------------------------------------------------------------------
(* Between iterations, and until select returns, only the application queues *)
(* and only the worker arms an event.                                        *)
LEMMA SleepFrame ==
  ASSUME Types, SleepInv, loop' = loop, now' \in Nat, now' >= now,
         \/ queue' = queue
         \/ \E w \in Works : w.by # "loop" /\ queue' = Append(queue, w),
         \A t \in timers' : t \in timers \/ t.by = "worker" \/ loop.at = "app"
  PROVE  SleepInv'
<1>1. Settled => Settled'
  <2>1. CASE queue' = queue BY <2>1 DEF Settled
  <2>2. ASSUME NEW w \in Works, w.by # "loop", queue' = Append(queue, w) PROVE Settled => Settled'
    <3>1. queue \in Seq(Works) BY DEF Types
    <3>2. /\ Len(queue') = Len(queue) + 1 /\ Len(queue) \in Nat /\ queue'[Len(queue) + 1] = w
          /\ \A i \in 1 .. Len(queue) : queue'[i] = queue[i]
      BY <2>2, <3>1, Appended
    <3> QED BY <2>2, <3>2 DEF Settled
  <2> QED BY <2>1, <2>2
<1>2. now \in Nat /\ loop.wake \in Nat BY DEF Types, LoopType
<1>3. loop.wake > now' => loop.wake > now BY <1>2
<1> QED BY <1>1, <1>3 DEF SleepInv

LEMMA SleepStep ==
  ASSUME Types, SleepInv, LifeInv, Step
  PROVE  SleepInv'
<1>1. loop \in LoopType /\ now \in Nat BY DEF Types
<1>2. CASE BeginIteration
  <2>1. loop'.at = "files" /\ loop'.failed = loop.failed /\ loop.at = "app"
    BY <1>1, <1>2 DEF BeginIteration, LoopType
  <2>2. loop'.due = Least({t.due : t \in timers}, -1)
    BY <1>1, <1>2 DEF BeginIteration, LoopType
  <2>3. UNCHANGED <<queue, timers>> BY <1>2 DEF BeginIteration, Dispatcher
  <2>4. ~loop.failed => Settled' BY <2>1, <2>3 DEF SleepInv, Settled
  <2>5. \A t \in timers : loop'.due # -1 /\ loop'.due <= t.due
    <3> SUFFICES ASSUME NEW t \in timers PROVE loop'.due # -1 /\ loop'.due <= t.due OBVIOUS
    <3>1. {u.due : u \in timers} \subseteq Nat BY DEF Types
    <3>2. t.due \in {u.due : u \in timers} OBVIOUS
    <3>3. PICK least \in Nat : least = loop'.due /\ least <= t.due
      BY <2>2, <3>1, <3>2, LeastExists
    <3> QED BY <3>3
  <2> QED BY <2>1, <2>3, <2>4, <2>5 DEF SleepInv
<1>3. CASE EndFiles
  <2>1. /\ loop.at = "files" /\ loop'.at = "select" /\ loop'.failed = loop.failed
        /\ loop'.wake = now + Timeout /\ UNCHANGED <<queue, timers, now>>
    BY <1>1, <1>3 DEF EndFiles, LoopType, Dispatcher
  <2>2. CASE loop.updated
    <3>1. loop'.wake = now BY <1>1, <2>1, <2>2 DEF Timeout
    <3> QED BY <1>1, <2>1, <3>1 DEF SleepInv
  <2>3. CASE ~loop.updated /\ ~loop.failed /\ loop'.wake > now
    <3>1. Settled' BY <2>1, <2>3 DEF SleepInv, Settled
    <3>2. ASSUME NEW t \in timers, t.by # "worker" PROVE loop'.wake <= t.due
      <4>1. loop.due # -1 /\ loop.due <= t.due /\ t.due \in Nat /\ loop.due \in Nat
        <5>1. loop.due # -1 /\ loop.due <= t.due BY <2>1, <2>3, <3>2 DEF SleepInv
        <5>2. loop.due \in Nat BY <1>1, <5>1 DEF LoopType, Dues
        <5>3. t.due \in Nat BY DEF Types
        <5> QED BY <5>1, <5>2, <5>3
      <4>2. Timeout = Clamped(IF loop.due >= now THEN loop.due - now ELSE 0)
        BY <2>3, <4>1 DEF Timeout
      <4>3. MaxIdle \in Nat BY LoopAssumption
      <4>4. loop.due >= now
        <5>1. CASE loop.due < now
          <6>1. Timeout = 0 BY <1>1, <4>1, <4>2, <4>3, <5>1 DEF Clamped
          <6> QED BY <1>1, <2>1, <2>3, <6>1
        <5> QED BY <1>1, <4>1, <5>1
      <4>5. Timeout <= loop.due - now /\ Timeout \in Nat BY <1>1, <4>1, <4>2, <4>3, <4>4 DEF Clamped
      <4> QED BY <1>1, <2>1, <4>1, <4>5
    <3> QED BY <2>1, <3>1, <3>2 DEF SleepInv
  <2>4. CASE loop.failed \/ ~(loop'.wake > now) BY <2>1, <2>4 DEF SleepInv
  <2> QED BY <2>2, <2>3, <2>4
<1>4. CASE FileHandler
  <2>1. loop'.at = "files" /\ loop'.updated = TRUE BY <1>1, <1>4 DEF FileHandler, LoopType
  <2> QED BY <2>1 DEF SleepInv
<1>5. CASE TimePasses
  <2>1. UNCHANGED <<loop, queue, timers>> /\ now' = now + 1 BY <1>5 DEF TimePasses, Dispatcher
  <2> QED BY <1>1, <2>1, SleepFrame
<1>6. CASE Select \/ WalkSocket \/ EndWalk \/ EndTimers \/ TimeEvent \/ TimeEventFails \/ CallQueued
           \/ ConnectFails \/ DestroyPool \/ Join \/ AppDeletes
  <2>1. CASE Select \/ WalkSocket \/ EndWalk
    <3>1. loop'.at \in {"walk", "timers"}
      <4>1. CASE Select BY <1>1, <4>1 DEF Select, LoopType
      <4>2. CASE WalkSocket
        <5>1. loop.at = "walk" /\ loop' = [loop EXCEPT !.i = @ + 1] BY <4>2 DEF WalkSocket
        <5> QED BY <1>1, <5>1 DEF LoopType
      <4>3. CASE EndWalk BY <4>3 DEF EndWalk, Iteration
      <4> QED BY <2>1, <4>1, <4>2, <4>3
    <3> QED BY <3>1 DEF SleepInv
  <2>2. CASE TimeEvent \/ TimeEventFails \/ CallQueued \/ ConnectFails
    <3>1. loop'.at \in {"timers", "calls"}
      BY <2>2 DEF TimeEvent, TimeEventFails, CallQueued, ConnectFails
    <3> QED BY <3>1 DEF SleepInv
  <2>3. CASE EndTimers \/ DestroyPool \/ Join \/ AppDeletes
    <3>1. \E at \in {"calls", "join", "gone", "destroy"} : loop' = [loop EXCEPT !.at = at]
      BY <2>3 DEF EndTimers, DestroyPool, Join, AppDeletes, Goes
    <3>2. loop'.at \in {"calls", "join", "gone", "destroy"} BY <1>1, <3>1 DEF LoopType
    <3> QED BY <3>2 DEF SleepInv
  <2> QED BY <1>6, <2>1, <2>2, <2>3
<1>7. CASE SelectFails
  <2>1. loop'.failed = TRUE BY <1>7 DEF SelectFails, Iteration
  <2> QED BY <2>1 DEF SleepInv
<1>8. CASE EndCalls
  <2>1. loop'.at = "app" /\ queue' = <<>> BY <1>8 DEF EndCalls, Iteration, Dispatcher
  <2>2. Settled' BY <2>1 DEF Settled
  <2> QED BY <2>1, <2>2 DEF SleepInv
<1>9. CASE \/ Worker \/ \E by \in {"app", "worker"} : AppStops(by)
           \/ \E c \in Conns : ServerAnswers(c) \/ ServerSends(c)
  <2>1. UNCHANGED <<loop, queue, timers, now>>
    BY <1>9 DEF Worker, WorkerChecks, WorkerTakes, WorkerReturns, WorkerEnds, Others, AppStops,
       ServerAnswers, ServerSends, Dispatcher
  <2> QED BY <1>1, <2>1, SleepFrame
<1>10. ASSUME NEW by \in {"app", "worker"}, NEW c \in Conns, AppConnects(c, by) \/ AppCancels(c, by)
       PROVE  SleepInv'
  <2>1. UNCHANGED <<loop, queue, now>> BY <1>10 DEF AppConnects, AppCancels
  <2>2. by = "worker" \/ loop.at = "app" BY <1>10 DEF AppConnects, AppCancels, AppOn
  <2>3. \A t \in timers' : t \in timers \/ t.by = by BY <1>10 DEF AppConnects, AppCancels
  <2> QED BY <1>1, <2>1, <2>2, <2>3, SleepFrame
<1>11. ASSUME NEW by \in {"app", "worker"}, NEW c \in Conns, AppShutsDown(c, by) PROVE SleepInv'
  <2>1. UNCHANGED <<loop, timers, now>> BY <1>11 DEF AppShutsDown
  <2>2. PICK w \in Works : w.by # "loop" /\ queue' = Append(queue, w)
    BY <1>11 DEF AppShutsDown, Posted, Work, Works
  <2> QED BY <1>1, <2>1, <2>2, SleepFrame
<1> QED BY <1>2, <1>3, <1>4, <1>5, <1>6, <1>7, <1>8, <1>9, <1>10, <1>11 DEF Step

-----------------------------------------------------------------------------
LEMMA InvStep ==
  ASSUME Inv, [Next]_vars
  PROVE  Inv'
<1>1. CASE UNCHANGED vars
  <2>1. Types' BY <1>1 DEF Inv, Types, vars
  <2>2. VectorInv' BY <1>1 DEF Inv, VectorInv, NoRepeats, Elements, SocketsStandStill, vars
  <2>3. WorkInv' BY <1>1, WorkFrame DEF Inv, vars
  <2>4. LifeInv' BY <1>1 DEF Inv, LifeInv, AssertionsHold, vars
  <2>5. ~life.deleted => OrderInv' BY <1>1, OrderFrame DEF Inv, vars
  <2>6. SleepInv' BY <1>1 DEF Inv, SleepInv, Settled, vars
  <2>7. life' = life BY <1>1 DEF vars
  <2> QED BY <2>1, <2>2, <2>3, <2>4, <2>5, <2>6, <2>7 DEF Inv
<1>2. CASE Next
  <2>1. Step BY <1>2, NextSteps
  <2>2. /\ Types /\ VectorInv /\ WorkInv /\ LifeInv /\ SleepInv
        /\ ~life.deleted => OrderInv
    BY DEF Inv
  <2>3. Types' BY <2>1, <2>2, TypesStep
  <2>4. VectorInv' BY <2>1, <2>2, VectorStep
  <2>5. WorkInv' BY <2>1, <2>2, WorkStep
  <2>6. LifeInv' BY <2>1, <2>2, LifeStep
  <2>7. ~life'.deleted => OrderInv' BY <2>1, <2>2, DeletedStays, OrderStep
  <2>8. SleepInv' BY <2>1, <2>2, SleepStep
  <2> QED BY <2>3, <2>4, <2>5, <2>6, <2>7, <2>8 DEF Inv
<1> QED BY <1>1, <1>2

LEMMA InvAlways == Spec => []Inv
<1>1. Inv /\ [Next]_vars => Inv' BY InvStep
<1> QED BY <1>1, InitInv, PTL DEF Spec

(***************************************************************************)
(* The walk of xi_event_loop_with_evtds over the sockets finds each one at *)
(* the place select's answer has it, no call registers a socket twice, and *)
(* no callback of the worker uses a dispatcher that was destroyed.         *)
(***************************************************************************)
THEOREM LoopAlwaysRight == Spec => []LoopInv
<1>1. Inv => LoopInv
  <2> SUFFICES ASSUME Inv PROVE LoopInv OBVIOUS
  <2>1. Types /\ SocketsStandStill /\ AssertionsHold BY DEF Inv, VectorInv, LifeInv
  <2>2. loop.at \in Phases /\ loop.i \in 1 .. (Cardinality(Conns) + 2)
    <3>1. Cardinality(Conns) \in Nat BY LoopAssumption, FS_CardinalityType
    <3> QED BY <2>1, <3>1 DEF Types, LoopType, Places
  <2>3. {Elements(sockets), Elements(files)} \subseteq SUBSET Conns BY <2>1 DEF Types, Elements
  <2>4. Elements(queue) \subseteq Works BY <2>1 DEF Types, Elements
  <2>5. Elements(worker.queue) \subseteq Calls
    <3>1. worker.queue \in Seq(Calls) BY <2>1 DEF Types, WorkerType
    <3> QED BY <3>1 DEF Elements
  <2>6. TypeOK BY <2>1, <2>2, <2>3, <2>4, <2>5 DEF Types, TypeOK, Works, Calls, States
  <2> QED BY <2>1, <2>6 DEF LoopInv
<1> QED BY <1>1, InvAlways, PTL

(***************************************************************************)
(* The timeout that xi_event_loop_with_evtds gives select lets nothing of  *)
(* the loop wait: what handlers of files queued makes it 0, and no event   *)
(* armed before the iteration is slept over.                               *)
(***************************************************************************)
THEOREM AlwaysSleepsIdle == Spec => []SleepsOnlyIdle
<1>1. Inv => SleepsOnlyIdle
  <2> SUFFICES ASSUME Inv, loop.at = "select", loop.wake > now, ~loop.failed
               PROVE  /\ \A w \in Elements(queue) : w.by # "loop"
                      /\ \A t \in timers : t.due >= loop.wake \/ t.by = "worker"
    BY DEF SleepsOnlyIdle
  <2>1. Settled /\ \A t \in timers : t.by = "worker" \/ loop.wake <= t.due BY DEF Inv, SleepInv
  <2>2. \A w \in Elements(queue) : w.by # "loop"
    <3>1. queue \in Seq(Works) BY DEF Inv, Types
    <3> QED BY <2>1, <3>1 DEF Settled, Elements
  <2>3. loop.wake \in Nat /\ \A t \in timers : t.due \in Nat BY DEF Inv, Types, LoopType
  <2> QED BY <2>1, <2>2, <2>3
<1> QED BY <1>1, InvAlways, PTL

(***************************************************************************)
(* A callback crosses two queues, the dispatcher's and the worker's        *)
(* (xi_evtd_execute, xi_evttd_execute), and still the application is told  *)
(* that a connection is open before its messages, and of no second opening *)
(* before it is told of the end of the first.                              *)
(***************************************************************************)
THEOREM ToldInOrder == Spec => CallbacksInOrder
<1> DEFINE A == worker.at # "calling" /\ worker.at' = "calling" =>
                  LET call == worker.call' IN
                  /\ call.do = "opened"  => told[call.conn] = "closed"
                  /\ call.do = "message" => told[call.conn] = "opened"
<1>1. ASSUME Inv, Inv', Next PROVE A
  <2> SUFFICES ASSUME worker.at # "calling", worker'.at = "calling"
               PROVE  /\ worker'.call.do = "opened"  => told[worker'.call.conn] = "closed"
                      /\ worker'.call.do = "message" => told[worker'.call.conn] = "opened"
    OBVIOUS
  <2>1. Step BY <1>1, NextSteps
  <2>2. Types /\ worker \in WorkerType BY <1>1 DEF Inv, Types
  <2>3. ~life.deleted BY <1>1, <2>1, <2>2, DeletedStays DEF Inv, LifeInv
  <2>4. OrderInv BY <1>1, <2>3 DEF Inv
  <2>5. CASE WorkerTakes BY <2>2, <2>3, <2>4, <2>5, TakesOrder
  <2>6. CASE worker' = worker BY <2>6
  <2>7. CASE WorkerChecks \/ WorkerReturns \/ WorkerEnds
    BY <2>2, <2>7 DEF WorkerChecks, WorkerReturns, WorkerEnds, WorkerType
  <2>8. CASE DestroyPool BY <2>2, <2>8 DEF DestroyPool, StopWorker, WorkerType
  <2>9. CASE CallQueued
    <3>1. UNCHANGED worker \/ \E q : worker' = [worker EXCEPT !.queue = q]
      BY <2>9 DEF CallQueued, InitCalled, ConnectCalled, CloseCalled, Callback
    <3> QED BY <2>2, <3>1 DEF WorkerType
  <2>10. CASE \/ BeginIteration \/ FileHandler \/ EndFiles \/ TimePasses \/ Select \/ SelectFails
              \/ WalkSocket \/ EndWalk \/ TimeEvent \/ TimeEventFails \/ EndTimers \/ EndCalls
              \/ ConnectFails \/ Join \/ AppDeletes
    BY <2>6, <2>10 DEF BeginIteration, FileHandler, EndFiles, TimePasses, Select, SelectFails,
       WalkSocket, EndWalk, TimeEvent, TimeEventFails, EndTimers, EndCalls, ConnectFails, Join, AppDeletes
  <2>11. CASE \/ \E by \in {"app", "worker"}, c \in Conns :
                   \/ AppConnects(c, by) \/ AppCancels(c, by) \/ AppShutsDown(c, by)
                   \/ ServerAnswers(c) \/ ServerSends(c)
              \/ \E by \in {"app", "worker"} : AppStops(by)
    BY <2>6, <2>11 DEF AppConnects, AppCancels, AppShutsDown, ServerAnswers, ServerSends, AppStops
  <2> QED BY <2>1, <2>5, <2>7, <2>8, <2>9, <2>10, <2>11 DEF Step, Worker
<1>2. Inv /\ Inv' /\ [Next]_vars => [A]_vars BY <1>1 DEF vars
<1>3. Spec => [][A]_vars BY <1>2, InvAlways, PTL DEF Spec
<1> QED BY <1>3 DEF CallbacksInOrder

=============================================================================
