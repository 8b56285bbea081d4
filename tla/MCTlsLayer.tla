----------------------------- MODULE MCTlsLayer -----------------------------
(***************************************************************************)
(* A handshake in which both sides write twice and the server's first      *)
(* flight comes in two units.                                              *)
(***************************************************************************)
EXTENDS TlsLayer

ShortHandshake == <<"w", "r", "r", "w", "r">>
=============================================================================
