---------------------------- MODULE MCTimeEvents ----------------------------
(* Four events for a vector of three, two handles, four times.  Ties, gaps,   *)
(* events without a handle and a vector that cannot grow all occur.           *)
EXTENDS TimeEvents

=============================================================================
