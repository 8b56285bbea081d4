------------------------------ MODULE MCBackoff ------------------------------
(* The backoff with the tables of xi_backoff_lut_config.h. *)
EXTENDS Backoff

XI_BACKOFF_LUT == <<0, 2, 4, 8, 16, 32, 64, 128, 256, 512>>
XI_DECAY_LUT   == <<4, 4, 8, 16, 30, 30, 30, 30, 30, 30>>

\* The configured table has the shape the proof of PenaltyGrows asks for.
ASSUME ConfiguredLutDoubles == LutDoubles
=============================================================================
