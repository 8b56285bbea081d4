------------------------------ MODULE TlsLayer ------------------------------
(***************************************************************************)
(* The TLS layer (tls/xi_tls_layer.c), the resource manager that reads its *)
(* CA certificates (io/fs/xi_resource_manager.c) and the io layer below it *)
(* (io/net/xi_io_net_layer.c).  The layer is a set of coroutines that are  *)
(* entered again by calls from the dispatcher's queue, by the socket and   *)
(* by the file system, and that the TLS library calls back from inside.    *)
(*                                                                         *)
(* t is the client's memory:                                               *)
(*   calls, layer  as in LayerApi; "codec" stands for all layers above,    *)
(*   d             xi_tls_layer_state_t with the context of the resource   *)
(*                 manager (rm) and of the TLS library (lib),              *)
(*   io_data, io   the io layer's data and what its socket waits for,      *)
(*   event         the coroutine a file event will enter again,            *)
(*   file          whether the certificate file is open,                   *)
(*   ret           the result of the library's last function,              *)
(*   broken        the assertions that failed and the freed memory used.   *)
(* net is the network with the server, up the layers above, used the       *)
(* number of faults, waits, messages and attempts so far.                  *)
(*                                                                         *)
(* The library, the file system and the server are external.  A handshake  *)
(* is a sequence of units written ("w") and read ("r"); a record is        *)
(* RecordUnits units on the socket and RecordPieces buffers of plain data. *)
(***************************************************************************)
EXTENDS LayerApi, Integers, SequencesExt

CONSTANTS Handshake, MaxRecords, RecordUnits, RecordPieces,
          MaxMessages, MaxAttempts, MaxFaults, MaxWaits

ASSUME TlsAssumption ==
  /\ Handshake \in Seq({"w", "r"}) /\ Handshake # <<>> /\ Handshake[1] = "w"
  /\ {RecordUnits, RecordPieces} \subseteq Nat \ {0}
  /\ {MaxRecords, MaxMessages, MaxAttempts, MaxFaults, MaxWaits} \subseteq Nat

VARIABLES t, net, up, used

vars == <<t, net, up, used>>

NoRm == [there |-> FALSE, open |-> FALSE, buffer |-> FALSE, callback |-> "none", st |-> "OK"]

NoLib == [there |-> FALSE, step |-> 1, units |-> 0, pending |-> 0, failed |-> FALSE]

NoData == [there |-> FALSE, conn_cs |-> "start", handler |-> "none", raw |-> 0,
           write |-> "NONE", sending |-> FALSE, send |-> FALSE, to_write |-> FALSE,
           rm |-> NoRm, lib |-> NoLib]

NoNet == [in |-> 0, out |-> 0, pos |-> 1, sent |-> 0]

Init ==
  /\ t = [calls |-> <<>>, layer |-> [l \in {"io", "tls", "codec"} |-> "NONE"], d |-> NoData,
          io_data |-> FALSE, io |-> "idle", event |-> "none", file |-> FALSE,
          ret |-> "OK", broken |-> {}]
  /\ net = NoNet
  /\ up = [state |-> "idle", pushing |-> FALSE, received |-> 0, early |-> FALSE]
  /\ used = [faults |-> 0, waits |-> 0, messages |-> 0, attempts |-> 0]

Check(a, holds, what) == IF holds THEN a ELSE [a EXCEPT !.broken = @ \cup {what}]

Call == Head(t.calls)

Called(l, fn) == t.calls # <<>> /\ Call.layer = l /\ Call.fn = fn

Popped == [t EXCEPT !.calls = Tail(@)]

\* The library's result does not outlive the handler that asked for it.
Becomes(a) == t' = [a EXCEPT !.ret = "OK"]

\* A fault, if there is one, is one of at most MaxFaults.
Fault(f) == IF f THEN used.faults < MaxFaults /\ used' = [used EXCEPT !.faults = @ + 1]
            ELSE UNCHANGED used

Upwards(a, fn, arg, st) == ContinueWith(a, "tls", fn, "codec", arg, st)

Downwards(a, fn, st) == ContinueWith(a, "tls", fn, "io", 0, st)

Itself(a, fn, st) == OnThis(a, "tls", fn, 0, st)

NotUsable(a) == NotOperational(a, "tls") \/ ~a.d.there

-----------------------------------------------------------------------------
(***************************************************************************)
(* The callbacks of the library, and the library.                          *)
(***************************************************************************)
\* Mutant: the coroutine of the callback stays where it was.
MutSendCallback(a) ==
  IF ~a.d.sending
  THEN Downwards([Check(a, a.d.write = "NONE", "send_starts")
                    EXCEPT !.d.write = "WRITING", !.d.sending = TRUE, !.ret = "WANT_WRITE"],
                 "push", "OK")
  ELSE IF a.d.write # "WRITTEN"
  THEN [Check(a, a.d.write # "NONE", "send_waits") EXCEPT !.ret = "WANT_WRITE"]
  ELSE [a EXCEPT !.d.write = "NONE", !.ret = "OK"]

\* xi_bsp_tls_send_callback: the first call hands the bytes to the io layer,
\* the later ones wait until that layer has written them.
SendCallback(a) ==
  IF ~a.d.sending
  THEN Downwards([Check(a, a.d.write = "NONE", "send_starts")
                    EXCEPT !.d.write = "WRITING", !.d.sending = TRUE, !.ret = "WANT_WRITE"],
                 "push", "OK")
  ELSE IF a.d.write # "WRITTEN"
  THEN [Check(a, a.d.write # "NONE", "send_waits") EXCEPT !.ret = "WANT_WRITE"]
  ELSE [a EXCEPT !.d.write = "NONE", !.d.sending = FALSE, !.ret = "OK"]

\* xi_bsp_tls_recv_callback, asked for n units of the raw buffer.
RecvCallback(a, n) == [a EXCEPT !.d.raw = @ - n]

\* What the peer sent is refused: the library gives up after an alert.
Refuse(a) == [SendCallback(a) EXCEPT !.d.lib.failed = TRUE, !.ret = "ERROR"]

\* The next unit of the handshake is one to write, or one to read.
AtWrite(a) == a.d.lib.step <= Len(Handshake) /\ Handshake[a.d.lib.step] = "w"

Reads(i) == i <= Len(Handshake) /\ Handshake[i] = "r"

\* How many units the handshake reads before it has to wait or to write.
Readable(a) == Min({n \in 0..a.d.raw : n = a.d.raw \/ ~Reads(a.d.lib.step + n)})

\* xi_bsp_tls_connect: the handshake goes on until it has to wait.  xi_bsp_tls_init
\* unless it fails; xi_bsp_tls_read; xi_bsp_tls_write.
LibConnect(a, bad) ==
  LET s       == SendCallback(a)
      written == IF AtWrite(a) THEN [s EXCEPT !.d.lib.step = @ + 1] ELSE a
      n       == Readable(written)
      read    == [RecvCallback(written, n) EXCEPT !.d.lib.step = @ + n]
  IN  IF a.d.lib.failed THEN [IF a.d.sending THEN s ELSE a
                                EXCEPT !.ret = IF bad THEN "ERROR" ELSE "WANT_READ"]
      ELSE IF AtWrite(a) /\ s.ret # "OK"       THEN s
      ELSE IF bad /\ n > 0                     THEN Refuse(RecvCallback(written, 1))
      ELSE IF read.d.lib.step > Len(Handshake) THEN [read EXCEPT !.ret = "OK"]
      ELSE IF AtWrite(read)                    THEN SendCallback(read)
      ELSE [read EXCEPT !.ret = "WANT_READ"]

LibInit(a) == [a EXCEPT !.d.lib = [NoLib EXCEPT !.there = TRUE]]

LibRead(a, bad) ==
  LET missing == RecordUnits - a.d.lib.units
      whole   == [RecvCallback(a, missing) EXCEPT !.d.lib.units = 0]
  IN  IF a.d.lib.pending > 0    THEN [a EXCEPT !.d.lib.pending = @ - 1, !.ret = "OK"]
      ELSE IF a.d.raw < missing THEN [RecvCallback(a, a.d.raw)
                                        EXCEPT !.d.lib.units = @ + a.d.raw, !.ret = "WANT_READ"]
      ELSE IF bad               THEN Refuse(whole)
      ELSE [whole EXCEPT !.d.lib.pending = RecordPieces - 1, !.ret = "OK"]

LibWrite(a, bad) ==
  IF bad /\ ~a.d.sending THEN [a EXCEPT !.ret = "ERROR"] ELSE SendCallback(a)

\* Something is left to decode: in the raw buffer or, xi_bsp_tls_pending, in the library.
Undecoded(a) == a.d.raw > 0 \/ a.d.lib.pending > 0

-----------------------------------------------------------------------------
(***************************************************************************)
(* The resource manager.  A request is put on the call queue with the      *)
(* function to call back; o is what the file system answers.               *)
(***************************************************************************)
RmAllowed(a, fn) ==
  a.d.rm.there /\ a.d.rm.callback = "none" /\ (a.d.rm.open <=> fn # "open")

RmRequest(a, fn, callback, st) ==
  [a EXCEPT !.d.rm.callback = callback, !.d.rm.st = st,
            !.calls = Append(@, [layer |-> "rm", fn |-> fn, arg |-> 0, st |-> "OK"])]

\* xi_resource_manager_set_callback_state: an error the caller gave stays.
CallbackState(a, st) == IF a.d.rm.st = "OK" THEN st ELSE a.d.rm.st

\* Success: the callback goes through the call queue.
RmSucceeded(a) ==
  [a EXCEPT !.d.rm.callback = "none",
            !.calls = Append(@, [layer |-> "tls", fn |-> a.d.rm.callback, arg |-> 0,
                                 st |-> CallbackState(a, "OK")])]

-----------------------------------------------------------------------------
(***************************************************************************)
(* The handlers of the layer.                                              *)
(***************************************************************************)
RecvHandler(a, bad) ==
  LET b == LibRead(a, bad)
  IN  IF NotUsable(a)             THEN a
      ELSE IF b.ret = "WANT_READ" THEN b
      ELSE IF b.ret = "ERROR"     THEN Itself(b, "close", "ERR")
      ELSE Upwards(IF Undecoded(b) THEN Itself(b, "pull", "WANT_READ") ELSE b, "pull", 1, "OK")

\* Mutant: what is left of the raw buffer waits for the next event of the socket.
MutConnectHandler(a, bad) ==
  LET b == LibConnect(a, bad)
      d == [b EXCEPT !.d.handler = "data", !.d.conn_cs = "start"]
  IN  IF NotUsable(a)         THEN a
      ELSE IF b.ret = "ERROR" THEN Itself([b EXCEPT !.d.conn_cs = "start"], "close", "ERR")
      ELSE IF b.ret = "OK"    THEN Upwards(d, "connect", 0, "OK")
      ELSE [b EXCEPT !.d.conn_cs = "handshake"]

ConnectHandler(a, bad) ==
  LET b == LibConnect(a, bad)
      d == [b EXCEPT !.d.handler = "data", !.d.conn_cs = "start"]
  IN  IF NotUsable(a)         THEN a
      ELSE IF b.ret = "ERROR" THEN Itself([b EXCEPT !.d.conn_cs = "start"], "close", "ERR")
      ELSE IF b.ret = "OK"
      THEN Upwards(IF Undecoded(d) THEN Itself(d, "pull", "WANT_READ") ELSE d, "connect", 0, "OK")
      ELSE [b EXCEPT !.d.conn_cs = "handshake"]

SendHandler(a, bad) ==
  LET b == LibWrite(Check(a, a.d.to_write, "to_write"), bad)
      d == [b EXCEPT !.d.to_write = FALSE, !.d.send = FALSE]
  IN  IF NotUsable(a)              THEN a
      ELSE IF b.ret = "WANT_WRITE" THEN [b EXCEPT !.d.send = TRUE]
      ELSE Upwards(d, "push", 0, IF b.ret = "ERROR" THEN "FAILED" ELSE "WRITTEN")

\* tls_layer_logic_send_handler and tls_layer_logic_recv_handler
LogicSendHandler(a, bad) ==
  CASE a.d.handler = "connect" -> ConnectHandler(a, bad)
    [] a.d.handler = "data"    -> SendHandler(a, bad)
    [] OTHER                   -> Check(a, FALSE, "send_handler")

LogicRecvHandler(a, bad) ==
  CASE a.d.handler = "connect" -> ConnectHandler(a, bad)
    [] a.d.handler = "data"    -> RecvHandler(a, bad)
    [] OTHER                   -> Check(a, FALSE, "recv_handler")

PushHandler(a, st, bad) ==
  IF NotUsable(a) THEN a
  ELSE IF st = "WRITTEN"
  THEN LogicSendHandler([Check(a, a.d.write = "WRITING", "written")
                           EXCEPT !.d.write = "WRITTEN"], bad)
  ELSE LogicSendHandler([Check(a, ~a.d.to_write /\ ~a.d.send /\ ~a.d.sending, "push")
                           EXCEPT !.d.to_write = TRUE], bad)

PullHandler(a, n, st, bad) ==
  IF NotUsable(a) THEN Itself(a, "close", st)
  ELSE LogicRecvHandler([a EXCEPT !.d.raw = @ + n], bad)

ConnectCalled(a, st, bad) ==
  IF NotUsable(a) \/ st # "OK" THEN Upwards(a, "connect", 0, st) ELSE ConnectHandler(a, bad)

\* xi_tls_layer_init is a coroutine that reads the certificates; it is entered
\* again by each answer of the resource manager.
InitFails(a) ==
  Itself([a EXCEPT !.d.conn_cs = "start", !.d.lib = NoLib], "connect", "ERR")

InitHandler(a, st, bad) ==
  LET b      == IF a.d.there THEN a ELSE [a EXCEPT !.d = [NoData EXCEPT !.there = TRUE]]
      made   == [b EXCEPT !.d.rm = [NoRm EXCEPT !.there = TRUE]]
      inited == LibInit(b)
      At(cs) == b.d.conn_cs = cs
      Yield(e, cs) == [e EXCEPT !.d.conn_cs = cs]
  IN  IF (At("opening") \/ At("reading") \/ At("releasing")) /\ st # "OK" THEN InitFails(b)
      ELSE
      CASE At("opening")   -> Yield(RmRequest(b, "read", "init", "OK"), "reading")
        [] At("reading")   -> IF bad THEN InitFails(b)
                              ELSE Yield(RmRequest(Check(inited, b.d.rm.buffer, "certificate"),
                                                   "close", "init", "OK"), "releasing")
        [] At("releasing") -> Downwards([b EXCEPT !.d.rm = NoRm, !.d.handler = "connect"],
                                        "init", "OK")
        [] OTHER           -> IF b.d.rm.there THEN InitFails(b)
                              ELSE Yield(RmRequest(made, "open", "init", "OK"), "opening")

CloseHandler(a, st) ==
  IF a.d.there THEN Downwards(a, "close", st) ELSE Itself(a, "close_externally", st)

Released(a, st) ==
  LET b == [a EXCEPT !.d = NoData]
  IN  IF st # "OK" /\ a.layer["tls"] = "CONNECTING" THEN Itself(b, "connect", st)
      ELSE Upwards(b, "close_externally", 0, st)

\* Mutant: the layer does not wait for the file to be closed.
MutCloseExternallyHandler(a, st) ==
  IF RmAllowed(a, "close") THEN Released(RmRequest(a, "close", "close_externally", st), st)
  ELSE Released(a, st)

\* An open file is closed first; the close calls this handler back.
CloseExternallyHandler(a, st) ==
  IF RmAllowed(a, "close") THEN RmRequest(a, "close", "close_externally", st)
  ELSE Released(a, st)

\* Failure: the resource manager calls back directly.
RmFailed(a) ==
  LET b  == [a EXCEPT !.d.rm.callback = "none"]
      st == CallbackState(a, "ERR")
  IN  IF a.d.rm.callback = "init" THEN InitHandler(b, st, FALSE) ELSE CloseExternallyHandler(b, st)

-----------------------------------------------------------------------------
(***************************************************************************)
(* The coroutines of the resource manager, entered from the call queue or  *)
(* by a file event.  OK, WAIT, ERR are what stat, open, read and close of  *)
(* the file system answer.                                                 *)
(***************************************************************************)
OpenResource(a, o) ==
  CASE o = "WAIT" -> [a EXCEPT !.event = "open"]
    [] o = "ERR"  -> RmFailed(a)
    [] OTHER      -> RmSucceeded([a EXCEPT !.d.rm.open = TRUE, !.file = TRUE])

StatResource(a, o, then) ==
  CASE o = "WAIT" -> [a EXCEPT !.event = "stat"]
    [] o = "ERR"  -> RmFailed(a)
    [] OTHER      -> OpenResource(a, then)

\* A failing read is tried again: the file has not been read to its end.
ReadResource(a, o) ==
  CASE o = "WAIT" -> [a EXCEPT !.event = "read", !.d.rm.buffer = TRUE]
    [] o = "ERR"  -> [a EXCEPT !.event = "read"]
    [] OTHER      -> RmSucceeded([a EXCEPT !.d.rm.buffer = TRUE])

CloseResource(a, o) ==
  CASE o = "WAIT" -> [a EXCEPT !.event = "close"]
    [] o = "ERR"  -> RmFailed(a)
    [] OTHER      -> RmSucceeded([Check(a, a.d.rm.buffer, "close_buffer")
                                    EXCEPT !.d.rm.open = FALSE, !.file = FALSE])

\* The context of a coroutine that runs has not been freed.
RmEntered(a) == Check(a, a.d.rm.there, "freed_context")

Answers(o) ==
  /\ o = "WAIT" => used.waits < MaxWaits
  /\ o = "ERR"  => used.faults < MaxFaults
  /\ used' = [used EXCEPT !.waits = IF o = "WAIT" THEN @ + 1 ELSE @,
                          !.faults = IF o = "ERR" THEN @ + 1 ELSE @]

FsAnswers == {"OK", "WAIT", "ERR"}

StatAndOpen(a) ==
  \/ \E o \in {"WAIT", "ERR"} : Answers(o) /\ Becomes(StatResource(a, o, "OK"))
  \/ \E o \in FsAnswers : Answers(o) /\ Becomes(StatResource(a, "OK", o))

RmOpen  == Called("rm", "open") /\ StatAndOpen(RmEntered(Popped)) /\ UNCHANGED <<net, up>>

RmRead  == /\ Called("rm", "read") /\ UNCHANGED <<net, up>>
           /\ \E o \in FsAnswers : Answers(o) /\ Becomes(ReadResource(RmEntered(Popped), o))

RmClose == /\ Called("rm", "close") /\ UNCHANGED <<net, up>>
           /\ \E o \in FsAnswers : Answers(o) /\ Becomes(CloseResource(RmEntered(Popped), o))

\* The event loop finds the file ready; it polls when the call queue is empty.
FileEvent ==
  /\ t.calls = <<>> /\ t.event # "none" /\ UNCHANGED <<net, up>>
  /\ LET a == RmEntered([t EXCEPT !.event = "none"])
     IN  CASE t.event = "stat"  -> StatAndOpen(a)
           [] t.event = "open"  -> \E o \in FsAnswers : Answers(o) /\ Becomes(OpenResource(a, o))
           [] t.event = "read"  -> \E o \in FsAnswers : Answers(o) /\ Becomes(ReadResource(a, o))
           [] t.event = "close" -> \E o \in FsAnswers : Answers(o) /\ Becomes(CloseResource(a, o))

-----------------------------------------------------------------------------
(***************************************************************************)
(* Calls of the layer.  bad: the library refuses what it is given.         *)
(***************************************************************************)
TlsInit == /\ Called("tls", "init") /\ UNCHANGED <<net, up>>
           /\ \E bad \in BOOLEAN : Fault(bad) /\ Becomes(InitHandler(Popped, Call.st, bad))

TlsConnect == /\ Called("tls", "connect") /\ UNCHANGED <<net, up>>
              /\ \E bad \in BOOLEAN : Fault(bad) /\ Becomes(ConnectCalled(Popped, Call.st, bad))

TlsPush == /\ Called("tls", "push") /\ UNCHANGED <<net, up>>
           /\ \E bad \in BOOLEAN : Fault(bad) /\ Becomes(PushHandler(Popped, Call.st, bad))

TlsPull == /\ Called("tls", "pull") /\ UNCHANGED <<net, up>>
           /\ \E bad \in BOOLEAN :
                Fault(bad) /\ Becomes(PullHandler(Popped, Call.arg, Call.st, bad))

TlsClose == /\ Called("tls", "close") /\ UNCHANGED <<net, up, used>>
            /\ Becomes(CloseHandler(Popped, Call.st))

TlsCloseExternally ==
  /\ Called("tls", "close_externally") /\ UNCHANGED <<net, up, used>>
  /\ Becomes(CloseExternallyHandler(Popped, Call.st))

-----------------------------------------------------------------------------
(***************************************************************************)
(* The io layer and its socket.                                            *)
(***************************************************************************)
FromIo(a, fn, arg, st) == ContinueWith(a, "io", fn, "tls", arg, st)

\* The io layer writes from the library's own buffer.
IoWrite(a) ==
  LET b == Check([a EXCEPT !.io = "idle"], a.d.lib.there, "shared_buffer")
  IN  \/ /\ Becomes(FromIo(b, "push", 0, "WRITTEN")) /\ Fault(FALSE)
         /\ net' = [net EXCEPT !.out = @ + 1]
      \/ Becomes([b EXCEPT !.io = "blocked"]) /\ Answers("WAIT") /\ UNCHANGED net
      \/ Becomes(OnThis(b, "io", "close_externally", 0, "ERR")) /\ Fault(TRUE) /\ UNCHANGED net

IoPush ==
  /\ Called("io", "push") /\ UNCHANGED up
  /\ IF NotOperational(t, "io") \/ ~t.io_data
     THEN Becomes(Popped) /\ UNCHANGED <<net, used>> ELSE IoWrite(Popped)

IoInit ==
  /\ Called("io", "init") /\ UNCHANGED <<net, up>>
  /\ IF t.io_data THEN Becomes(Popped) /\ UNCHANGED used
     ELSE \E bad \in BOOLEAN :
            /\ Fault(bad)
            /\ Becomes(OnThis([Popped EXCEPT !.io_data = ~bad], "io", "connect", 0,
                              IF bad THEN "ERR" ELSE "OK"))

IoConnect ==
  /\ Called("io", "connect") /\ UNCHANGED <<net, up>>
  /\ IF Call.st # "OK" \/ ~t.io_data
     THEN Becomes(FromIo(Popped, "connect", 0, "ERR")) /\ UNCHANGED used
     ELSE \/ Becomes([Popped EXCEPT !.io = "connecting"]) /\ UNCHANGED used
          \/ Becomes(FromIo(Popped, "connect", 0, "ERR")) /\ Fault(TRUE)

IoClose ==
  /\ Called("io", "close") /\ UNCHANGED <<net, up, used>>
  /\ Becomes(OnThis(Popped, "io", "close_externally", 0, Call.st))

\* Mutant: the socket's handler stays registered.
MutIoCloseExternally ==
  /\ Called("io", "close_externally") /\ UNCHANGED <<up, used>>
  /\ Becomes(FromIo([Popped EXCEPT !.io_data = FALSE], "close_externally", 0, Call.st))
  /\ net' = IF t.io_data THEN NoNet ELSE net

IoCloseExternally ==
  /\ Called("io", "close_externally") /\ UNCHANGED <<up, used>>
  /\ Becomes(FromIo([Popped EXCEPT !.io_data = FALSE, !.io = "idle"],
                    "close_externally", 0, Call.st))
  /\ net' = IF t.io_data THEN NoNet ELSE net

\* Events of the socket.
Polled(io) == t.calls = <<>> /\ t.io_data /\ ~NotOperational(t, "io") /\ t.io = io /\ UNCHANGED up

SocketConnected ==
  /\ Polled("connecting") /\ UNCHANGED net
  /\ \E bad \in BOOLEAN :
       /\ Fault(bad)
       /\ Becomes(FromIo([t EXCEPT !.io = "idle"], "connect", 0, IF bad THEN "ERR" ELSE "OK"))

SocketReadable ==
  /\ Polled("idle") /\ UNCHANGED used
  /\ \E n \in 1..net.in :
       Becomes(FromIo(t, "pull", n, "OK")) /\ net' = [net EXCEPT !.in = @ - n]

SocketReset ==
  /\ Polled("idle") /\ Fault(TRUE) /\ UNCHANGED net
  /\ Becomes(OnThis(t, "io", "close_externally", 0, "ERR"))

SocketWritable == Polled("blocked") /\ IoWrite(t)

-----------------------------------------------------------------------------
(***************************************************************************)
(* The server.                                                             *)
(***************************************************************************)
ServerTakes ==
  /\ net.out > 0 /\ UNCHANGED <<t, up, used>>
  /\ net' = [net EXCEPT !.out = @ - 1,
                        !.pos = IF @ <= Len(Handshake) THEN @ + 1 ELSE @]

ServerSends ==
  /\ UNCHANGED <<t, up, used>>
  /\ \/ /\ net.pos <= Len(Handshake) /\ Handshake[net.pos] = "r"
        /\ net' = [net EXCEPT !.in = @ + 1, !.pos = @ + 1]
     \/ /\ net.pos > Len(Handshake) /\ net.sent < MaxRecords
        /\ net' = [net EXCEPT !.in = @ + RecordUnits, !.sent = @ + 1]

-----------------------------------------------------------------------------
(***************************************************************************)
(* The layers above.  They close when they are told that connecting        *)
(* failed, and for reasons of their own once the connection is open; a new *)
(* attempt begins from a time event, when the call queue is empty.         *)
(***************************************************************************)
Request(fn, st) ==
  t' = ContinueWith(t, "codec", fn, "tls", 0, st)

UpperInit ==
  /\ up.state = "idle" /\ t.calls = <<>> /\ used.attempts < MaxAttempts
  /\ Request("init", "OK") /\ UNCHANGED net
  /\ up' = [up EXCEPT !.state = "opening", !.received = 0]
  /\ used' = [used EXCEPT !.attempts = @ + 1]

UpperPush ==
  /\ up.state = "open" /\ ~up.pushing /\ used.messages < MaxMessages
  /\ Request("push", "OK") /\ UNCHANGED net
  /\ up' = [up EXCEPT !.pushing = TRUE]
  /\ used' = [used EXCEPT !.messages = @ + 1]

UpperClose(state, st) ==
  /\ up.state = state /\ up' = [up EXCEPT !.state = "closing"]
  /\ Request("close", st) /\ UNCHANGED <<net, used>>

UpperGivesUp == UpperClose("failed", "ERR")

UpperCloses == \E st \in {"OK", "ERR"} : UpperClose("open", st)

CodecCalled ==
  /\ t.calls # <<>> /\ Call.layer = "codec" /\ t' = Popped /\ UNCHANGED <<net, used>>
  /\ up' = CASE Call.fn = "connect" /\ Call.st = "OK" /\ up.state = "opening" ->
                  [up EXCEPT !.state = "open"]
             [] Call.fn = "connect" /\ Call.st # "OK" /\ up.state # "idle" ->
                  [up EXCEPT !.state = "failed"]
             [] Call.fn = "push" -> [up EXCEPT !.pushing = FALSE]
             [] Call.fn = "pull" -> [up EXCEPT !.received = @ + 1,
                                               !.early = @ \/ up.state = "opening"]
             [] Call.fn = "close_externally" -> [up EXCEPT !.state = "idle", !.pushing = FALSE]
             [] OTHER -> up

-----------------------------------------------------------------------------
ClientStep ==
  \/ RmOpen \/ RmRead \/ RmClose \/ FileEvent
  \/ TlsInit \/ TlsConnect \/ TlsPush \/ TlsPull \/ TlsClose \/ TlsCloseExternally
  \/ IoPush \/ IoInit \/ IoConnect \/ IoClose \/ IoCloseExternally
  \/ SocketConnected \/ SocketReadable \/ SocketWritable
  \/ UpperGivesUp \/ CodecCalled

Next ==
  \/ ClientStep
  \/ SocketReset \/ ServerTakes \/ ServerSends
  \/ UpperInit \/ UpperPush \/ UpperCloses

Spec == Init /\ [][Next]_vars

\* The dispatcher keeps running; a server keeps answering.
FairSpec == Spec /\ WF_vars(ClientStep) /\ WF_vars(ServerTakes) /\ WF_vars(ServerSends)

-----------------------------------------------------------------------------
\* Every variable has its type: a coroutine that is entered waits at one of its
\* yields, and no counter of undecoded or unread units falls below zero.
TypeOK ==
  /\ t.event \in {"none", "stat", "open", "read", "close"}
  /\ t.layer \in [{"io", "tls", "codec"} -> LayerStates]
  /\ t.d.conn_cs \in {"start", "opening", "reading", "releasing", "handshake"}
  /\ t.d.write \in {"NONE", "WRITING", "WRITTEN"}
  /\ {t.d.raw, t.d.lib.units, t.d.lib.pending, net.in, net.out} \subseteq Nat
  /\ up.state \in {"idle", "opening", "open", "failed", "closing"}

\* No assertion of the layer or of the resource manager fails, no coroutine
\* runs on a freed context, the io layer never writes from a buffer of a
\* library that was cleaned up, and every variable has its type.
AssertionsHold == TypeOK /\ t.broken = {}

\* When the layers above have been told that the connection is gone nothing
\* of it is left: no layer data, no open certificate file, no socket and no
\* event that could enter one of its coroutines.
NothingLeft ==
  up.state = "idle" => ~t.d.there /\ ~t.file /\ ~t.io_data /\ t.event = "none" /\ t.io = "idle"

\* Bytes that were received never wait for the next event of the socket:
\* with nothing left to call, nothing is left to decode.
NothingStranded == up.state = "open" /\ t.calls = <<>> => ~Undecoded(t)

\* The layers above hear of the connection before they get data from it.
ConnectedBeforeData == ~up.early

\* Received data is handed up in its time: not before the connection is known,
\* and not later than it could be.
DataInTime == NothingStranded /\ ConnectedBeforeData

\* Every attempt ends: connected, or known to have failed.
AttemptEnds == up.state = "opening" ~> up.state # "opening"

\* A connection that is being closed is reported closed.
ClosingEnds == up.state \in {"failed", "closing"} ~> up.state = "idle"

\* Every message handed to the layer is answered.
MessageEnds == up.pushing ~> ~up.pushing

\* Whatever the layers above ask of the TLS layer is answered.
EverythingEnds == AttemptEnds /\ ClosingEnds /\ MessageEnds
=============================================================================
