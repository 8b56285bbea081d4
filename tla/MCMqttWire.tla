----------------------------- MODULE MCMqttWire -----------------------------
(* Messages of every type, with strings and contents of every interesting  *)
(* length for the bases 4 and 8: empty ones, and ones whose length has one *)
(* or two digits; the longest message has a remaining length of 4 digits.  *)
EXTENDS MqttWire

Text(n) == [i \in 1 .. n |-> i % 3]

MCMessages ==
  { [header |-> 16, values |-> <<Text(4), 4, 0, 9, Text(0)>>],
    [header |-> 16, values |-> <<Text(4), 4, 198, 9, Text(9), Text(1), Text(2), Text(3), Text(0)>>],
    [header |-> 16, values |-> <<Text(4), 4, 128, 0, Text(1), Text(1)>>],
    [header |-> 32, values |-> <<0, 5>>],
    [header |-> 48, values |-> <<Text(1), Text(0)>>],
    [header |-> 48, values |-> <<Text(9), Text(1)>>],
    [header |-> 50, values |-> <<Text(1), 63, Text(0)>>],
    [header |-> 59, values |-> <<Text(2), 9, Text(60)>>],
    [header |-> 64, values |-> <<8>>],
    [header |-> 80, values |-> <<1>>],
    [header |-> 130, values |-> <<10, Text(2), 1>>],
    [header |-> 144, values |-> <<7, 128>>],
    [header |-> 208, values |-> <<>>],
    [header |-> 224, values |-> <<>>] }
=============================================================================
