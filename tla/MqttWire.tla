------------------------------ MODULE MqttWire ------------------------------
(***************************************************************************)
(* MQTT messages as bytes: the serialiser (xi_mqtt_serialiser.c) at one    *)
(* end and the parser (xi_mqtt_parser.c), driven by the codec layer's pull *)
(* function, at the other.  The network cuts the stream into buffers at    *)
(* any byte; the parser is a coroutine that is left at the end of a buffer *)
(* and entered again with the next one.  It is taken apart here into what  *)
(* it does with one byte.  A message is its header byte and the values of  *)
(* its fields; a string is a sequence of bytes.  The two bases are 128 and *)
(* 256 in the code and smaller in the runs, so that short messages have    *)
(* lengths of several digits.                                              *)
(***************************************************************************)
EXTENDS Integers, Sequences, SequencesExt

CONSTANTS
  LengthBase,   \* base of the digits of the remaining length
  WordBase,     \* base of the two bytes of a 16 bit value
  BufferSize,   \* XI_IO_BUFFER_SIZE: the bytes the IO layer reads at once
  Connections,  \* connections of the process
  Messages,     \* messages that are sent
  MaxMessages   \* bound on the messages of a connection

ASSUME WireAssumption ==
  /\ LengthBase \in Nat \ {0, 1} /\ WordBase \in Nat \ {0, 1}
  /\ BufferSize \in Nat /\ MaxMessages \in Nat
  /\ \A m \in Messages : m.header \in 0 .. 255

VARIABLES
  sent,        \* messages given to the serialiser
  stream,      \* bytes on their way
  parser,      \* xi_mqtt_parser_t and the message under construction
  local_state, \* the static variable of xi_mqtt_parser_execute
  received,    \* messages handed to the logic layer
  closed       \* the codec layer has closed the connection

vars == <<sent, stream, parser, local_state, received, closed>>

-----------------------------------------------------------------------------
(***************************************************************************)
(* xi_mqtt_type_t and the bits of the first byte and of CONNECT's flags    *)
(***************************************************************************)
TypeNames == <<"CONNECT", "CONNACK", "PUBLISH", "PUBACK", "PUBREC", "PUBREL", "PUBCOMP",
               "SUBSCRIBE", "SUBACK", "UNSUBSCRIBE", "UNSUBACK", "PINGREQ", "PINGRESP",
               "DISCONNECT">>

Type(header) == IF header \div 16 \in DOMAIN TypeNames THEN TypeNames[header \div 16] ELSE "NONE"
Qos(header)  == (header \div 2) % 4

Will(flags)     == (flags \div 4) % 2 = 1
Password(flags) == (flags \div 64) % 2 = 1
Username(flags) == (flags \div 128) % 2 = 1

If(condition, fields) == IF condition THEN fields ELSE <<>>

-----------------------------------------------------------------------------
(***************************************************************************)
(* The serialiser                                                          *)
(***************************************************************************)
\* The fields that xi_mqtt_serialiser_write writes; a publication's content is
\* sent by the codec layer.
WrittenFields(m) ==
  CASE Type(m.header) = "CONNECT" ->
         <<"string", "byte", "byte", "word", "string">>
           \o If(Will(m.values[3]), <<"string", "string">>)
           \o If(Username(m.values[3]), <<"string">>) \o If(Password(m.values[3]), <<"string">>)
    [] Type(m.header) = "CONNACK"   -> <<"byte", "byte">>
    [] Type(m.header) = "PUBLISH"   -> <<"string">> \o If(Qos(m.header) > 0, <<"word">>)
    [] Type(m.header) = "PUBACK"    -> <<"word">>
    [] Type(m.header) = "SUBSCRIBE" -> <<"word", "string", "byte">>
    [] Type(m.header) = "SUBACK"    -> <<"word", "byte">>
    [] Type(m.header) \in {"DISCONNECT", "PINGREQ"} -> <<>>
    \* written by servers only
    [] Type(m.header) \in {"PUBREC", "PUBREL", "PUBCOMP"} -> <<"word">>
    [] Type(m.header) = "PINGRESP"  -> <<>>

Content(m) == IF Type(m.header) = "PUBLISH" THEN Last(m.values) ELSE <<>>

\* xi_mqtt_serialiser_size; the protocol's name is taken to have four letters.
RemainingLength(m) ==
  CASE Type(m.header) = "CONNECT" ->
         FoldLeft(LAMBDA n, str : n + 2 + Len(str), 6 + 1 + 1 + 2, SubSeq(m.values, 5, Len(m.values)))
    [] Type(m.header) = "PUBLISH" ->
         2 + Len(m.values[1]) + (IF Qos(m.header) > 0 THEN 2 ELSE 0) + Len(Content(m))
    [] Type(m.header) = "SUBSCRIBE" -> 2 + 2 + Len(m.values[2]) + 1
    [] Type(m.header) = "SUBACK"    -> 2 + 1
    [] Type(m.header) \in {"CONNACK", "PUBACK", "PUBREC", "PUBREL", "PUBCOMP"} -> 2
    [] Type(m.header) \in {"DISCONNECT", "PINGREQ", "PINGRESP"} -> 0

MaxLength == LengthBase ^ 4 - 1

\* xi_mqtt_get_remaining_length_bytes
LengthSize(n) == CHOOSE k \in 1 .. 4 : n < LengthBase ^ k /\ (k = 1 \/ n >= LengthBase ^ (k - 1))

\* The loop that writes the length, least significant digit first
LengthBytes[n \in 0 .. MaxLength] ==
  IF n < LengthBase THEN <<n>>
                    ELSE <<(n % LengthBase) + LengthBase>> \o LengthBytes[n \div LengthBase]

\* WRITE_16, which keeps two bytes of its argument
Word(n) == <<(n \div WordBase) % WordBase, n % WordBase>>

FieldBytes(kind, value) ==
  CASE kind = "byte"   -> <<value>>
    [] kind = "word"   -> Word(value)
    [] kind = "string" -> Word(Len(value)) \o value

\* xi_mqtt_serialiser_write
Header(m) ==
  <<m.header>> \o LengthBytes[RemainingLength(m)]
    \o FlattenSeq([i \in DOMAIN WrittenFields(m) |-> FieldBytes(WrittenFields(m)[i], m.values[i])])

\* What the codec layer pushes: nothing if the header does not fit into the
\* buffer it has allocated, otherwise the header and then the content.
Encoded(m) ==
  IF Len(Header(m)) > 1 + LengthSize(RemainingLength(m)) + RemainingLength(m) - Len(Content(m))
  THEN <<>> ELSE Header(m) \o Content(m)

-----------------------------------------------------------------------------
(***************************************************************************)
(* The parser.  `at' is the part of the message it is in, `read' the bytes *)
(* of the message's body that were read (data_length - 2), `part' what is  *)
(* there of the current field, `read_cs' the place in read_string and      *)
(* `str_length' the length of the current string.                          *)
(***************************************************************************)
NewParser ==
  [at |-> "header", header |-> 0, digit_bytes |-> 0, multiplier |-> 1, remaining_length |-> 0,
   read |-> 0, values |-> <<>>, part |-> <<>>, read_cs |-> "high", str_length |-> 0]

\* The fields that xi_mqtt_parser_execute reads, as far as they are known
ParsedFields(p) ==
  CASE Type(p.header) = "CONNECT" ->
         <<"string", "byte", "byte", "word", "string">>
           \o If(Len(p.values) > 2 /\ Will(p.values[3]), <<"string", "string">>)
           \o If(Len(p.values) > 2 /\ Username(p.values[3]), <<"string">>)
           \o If(Len(p.values) > 2 /\ Password(p.values[3]), <<"string">>)
    [] Type(p.header) = "CONNACK"   -> <<"byte", "byte">>
    [] Type(p.header) = "PUBLISH"   -> <<"string">> \o If(Qos(p.header) > 0, <<"word">>) \o <<"data">>
    [] Type(p.header) = "SUBSCRIBE" -> <<"word", "string", "byte">>
    [] Type(p.header) = "SUBACK"    -> <<"word", "status">>
    [] Type(p.header) \in {"PUBACK", "PUBREC", "PUBREL", "PUBCOMP"} -> <<"word">>
    [] Type(p.header) \in {"PINGRESP", "DISCONNECT"} -> <<>>
    [] OTHER -> <<"error">>

Field(p) ==
  IF p.at # "body" THEN p.at
  ELSE IF Len(p.values) < Len(ParsedFields(p)) THEN ParsedFields(p)[Len(p.values) + 1]
  ELSE "end"

ContentLength(p) == p.remaining_length - p.read

Valued(p, value) == [p EXCEPT !.values = Append(@, value), !.part = <<>>]

Digit(p, b) == (b % LengthBase) * p.multiplier

\* The loop over the digits of the remaining length
ReadLength(p, b) ==
  [p EXCEPT !.digit_bytes = @ + 1, !.multiplier = @ * LengthBase,
            !.remaining_length = @ + Digit(p, b),
            !.at = CASE b >= LengthBase /\ p.digit_bytes < 3 -> "length"
                     [] b >= LengthBase /\ p.digit_bytes >= 3 -> "error"
                     [] b < LengthBase -> "body"]

ReadWord(p, b) ==
  IF p.part = <<>> THEN [p EXCEPT !.part = <<b>>]
                   ELSE Valued(p, p.part[1] * WordBase + b)

ReadStatus(p, b) == IF b \in {0, 1, 2, 128} THEN Valued(p, b) ELSE [p EXCEPT !.at = "error"]

\* Mutant: the low byte replaces the high one.
MutReadStringLength(p, b) == [p EXCEPT !.read_cs = "characters", !.str_length = b]

ReadStringLength(p, b) == [p EXCEPT !.read_cs = "characters", !.str_length = @ + b]

ReadString(p, b) ==
  CASE p.read_cs = "high" -> [p EXCEPT !.read_cs = "low", !.str_length = b * WordBase]
    [] p.read_cs = "low"  -> ReadStringLength(p, b)
    [] p.read_cs = "characters" ->
         IF Len(p.part) + 1 < p.str_length
         THEN [p EXCEPT !.part = Append(@, b)]
         ELSE [Valued(p, Append(p.part, b)) EXCEPT !.read_cs = "high"]

ReadData(p, b) ==
  IF Len(p.part) + 1 < ContentLength(p) THEN [p EXCEPT !.part = Append(@, b)]
                                        ELSE Valued(p, Append(p.part, b))

\* One byte of the body counts as read, unless it is content.
Counted(p) == [p EXCEPT !.read = @ + 1]

Read(p, b) ==
  CASE Field(p) = "header" -> [p EXCEPT !.at = "length", !.header = b]
    [] Field(p) = "length" -> ReadLength(p, b)
    [] Field(p) = "byte"   -> Counted(Valued(p, b))
    [] Field(p) = "status" -> Counted(ReadStatus(p, b))
    [] Field(p) = "word"   -> Counted(ReadWord(p, b))
    [] Field(p) = "string" -> Counted(ReadString(p, b))
    [] Field(p) = "data"   -> ReadData(p, b)
    [] Field(p) = "error"  -> p

\* An empty string, and an empty content without a message id before it, end
\* only when there is another byte, which is not theirs.
Peek(p) ==
  CASE Field(p) = "string" /\ p.read_cs = "characters" /\ p.str_length = 0 ->
         [Valued(p, <<>>) EXCEPT !.read_cs = "high"]
    [] Field(p) = "data" /\ ContentLength(p) = 0 -> Valued(p, <<>>)
    [] OTHER -> p

\* Mutant: an empty content is looked for in the next bytes.
MutSkipEmpty(p) == p

SkipEmpty(p) ==
  IF Field(p) = "data" /\ Qos(p.header) > 0 /\ ContentLength(p) = 0 THEN Valued(p, <<>>) ELSE p

\* The end of a message: the codec layer hands it up and makes a new parser.
Finished(s) ==
  LET p == SkipEmpty(s.parser) IN
  IF Field(p) = "end"
  THEN [parser |-> NewParser,
        messages |-> Append(s.messages, [header |-> p.header, values |-> p.values])]
  ELSE [s EXCEPT !.parser = p]

Feed(s, b) ==
  LET t == Finished([s EXCEPT !.parser = Peek(@)])
  IN Finished([t EXCEPT !.parser = Read(@, b)])

\* The parser is inside READ_STRING or READ_DATA: it has started the field or,
\* where nothing is awaited before, is about to.
InRead(p) ==
  /\ Field(p) \in {"string", "data"}
  /\ \/ p.part # <<>>
     \/ Field(p) = "string" /\ (p.read_cs # "high" \/ Type(p.header) = "CONNECT")
     \/ Field(p) = "data" /\ Qos(p.header) > 0

\* Entered again there, the parser looks at local_state only: if it is not
\* XI_STATE_WANT_READ the field is taken to be complete.
Resumed(p) == IF InRead(p) /\ local_state # "WANT_READ" THEN Valued(p, p.part) ELSE p

-----------------------------------------------------------------------------
Init ==
  /\ sent = [c \in Connections |-> <<>>]
  /\ stream = [c \in Connections |-> <<>>]
  /\ parser = [c \in Connections |-> NewParser]
  /\ local_state = "OK"
  /\ received = [c \in Connections |-> <<>>]
  /\ closed = [c \in Connections |-> FALSE]

Send(c, m) ==
  /\ ~closed[c] /\ Len(sent[c]) < MaxMessages
  /\ sent' = [sent EXCEPT ![c] = Append(@, m)]
  /\ stream' = [stream EXCEPT ![c] = @ \o Encoded(m)]
  /\ UNCHANGED <<parser, local_state, received, closed>>

\* xi_mqtt_codec_layer_pull with a buffer of n bytes
Pull(c, n) ==
  /\ ~closed[c] /\ n <= Len(stream[c])
  /\ LET start == Finished([parser |-> Resumed(parser[c]), messages |-> <<>>])
         fed[i \in 0 .. n] == IF i = 0 THEN start ELSE Feed(fed[i - 1], stream[c][i])
         end   == fed[n]
     IN /\ parser' = [parser EXCEPT ![c] = end.parser]
        /\ received' = [received EXCEPT ![c] = @ \o end.messages]
        /\ local_state' = IF InRead(end.parser) THEN "WANT_READ" ELSE "OK"
        /\ closed' = [closed EXCEPT ![c] = Field(end.parser) = "error"]
  /\ stream' = [stream EXCEPT ![c] = SubSeq(@, n + 1, Len(@))]
  /\ UNCHANGED sent

Next ==
  \E c \in Connections :
    \/ \E m \in Messages : Send(c, m)
    \/ \E n \in 1 .. BufferSize : Pull(c, n)

Spec == Init /\ [][Next]_vars

-----------------------------------------------------------------------------
Bytes == 0 .. 255

\* Every variable has its type; the parser reads no more than the message's body.
TypeOK ==
  /\ sent \in [Connections -> Seq(Messages)]
  /\ \A c \in Connections :
       /\ \A i \in DOMAIN stream[c] : stream[c][i] \in Bytes
       /\ Field(parser[c]) \in {"header", "length", "byte", "status", "word", "string", "data", "error"}
       /\ parser[c].remaining_length \in 0 .. MaxLength
       /\ parser[c].read \in 0 .. parser[c].remaining_length
  /\ local_state \in {"OK", "WANT_READ"}
  /\ closed \in [Connections -> BOOLEAN]

\* However the stream is cut into buffers, the messages handed up are those
\* that were sent, in their order and with their values, and the parser never
\* reads past the body of a message.
ReceivedIsSent ==
  TypeOK /\ \A c \in Connections : IsPrefix(received[c], sent[c]) /\ ~closed[c]

\* The parser cannot see the end of these messages.
EndsUnseen(m) ==
  \/ Type(m.header) = "PUBLISH" /\ Qos(m.header) = 0 /\ Content(m) = <<>>
  \/ Type(m.header) = "CONNECT" /\ Last(m.values) = <<>>

\* A message is handed up with its last byte, except one whose end the parser
\* cannot see: that one waits for the first byte of the next message.
ReceivedAtOnce ==
  \A c \in Connections :
    stream[c] = <<>> =>
      \/ received[c] = sent[c]
      \/ EndsUnseen(Last(sent[c])) /\ received[c] = Front(sent[c])

=============================================================================
