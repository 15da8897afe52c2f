---------------------------- MODULE MCVcdToggles ----------------------------
(* A net of one bit and a net of two, under up to three names. *)
EXTENDS VcdToggles

MCWidth == [bit |-> 1, pair |-> 2]
=============================================================================
