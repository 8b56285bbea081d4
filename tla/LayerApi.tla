------------------------------ MODULE LayerApi ------------------------------
(***************************************************************************)
(* How layers of the library call each other (xi_layer_api.c/.h).  A layer *)
(* never calls its neighbour directly: it puts a call of the neighbour's   *)
(* function on the event dispatcher's call queue and, in the same breath,  *)
(* changes ITS OWN layer state according to the function it asked for.     *)
(* The gap between the two is where most of the library's races live.      *)
(*                                                                         *)
(* The client's memory is a record c; the fields used here are             *)
(*   c.calls  the dispatcher's call_queue, a sequence of layer calls,      *)
(*   c.layer  the layer_state of every layer.                              *)
(* The chain is the one of a build without the TLS layer                   *)
(* (XI_NO_TLS_LAYER): io, codec, logic, top (the control topic layer).     *)
(***************************************************************************)
EXTENDS Sequences

Layers == {"io", "codec", "logic", "top"}

\* The neighbours of a layer in the chain; "none" past either end.
Prev(l) == CASE l = "top" -> "logic" [] l = "logic" -> "codec"
             [] l = "codec" -> "io"  [] OTHER -> "none"

Succ(l) == CASE l = "io" -> "codec" [] l = "codec" -> "logic"
             [] l = "logic" -> "top" [] OTHER -> "none"

LayerStates == {"NONE", "CONNECTING", "CONNECTED", "CLOSING", "CLOSED"}

LayerFunctions == {"push", "pull", "close", "close_externally", "init",
                   "connect", "post_connect"}

\* The state the calling layer takes when it asks for fn with status st.
NextLayerState(fn, current, st) ==
  CASE fn = "close"            -> IF current = "CONNECTED" THEN "CLOSING" ELSE current
    [] fn = "close_externally" -> "CLOSED"
    [] fn = "connect"          -> IF st = "OK" THEN "CONNECTED" ELSE "CLOSED"
    [] fn = "init"             -> "CONNECTING"
    [] OTHER                   -> current

\* xi_layer_continue_with: enqueue the call, then update the caller's state.
ContinueWith(c, from, fn, to, arg, st) ==
  IF to = "none" THEN c
  ELSE [c EXCEPT !.calls = Append(@, [layer |-> to, fn |-> fn, arg |-> arg, st |-> st]),
                 !.layer[from] = NextLayerState(fn, @, st)]

OnThis(c, l, fn, arg, st) == ContinueWith(c, l, fn, l, arg, st)

OnPrev(c, l, fn, arg, st) == ContinueWith(c, l, fn, Prev(l), arg, st)

OnSucc(c, l, fn, arg, st) == ContinueWith(c, l, fn, Succ(l), arg, st)

\* One call of the next layer's push or pull per message; the caller's state stays.
OnSuccEach(c, l, fn, ms, st) ==
  [c EXCEPT !.calls = @ \o [k \in DOMAIN ms |->
                             [layer |-> Succ(l), fn |-> fn, arg |-> ms[k], st |-> st]]]

\* XI_THIS_LAYER_NOT_OPERATIONAL
NotOperational(c, l) == c.layer[l] \in {"CLOSING", "CLOSED"}
=============================================================================
