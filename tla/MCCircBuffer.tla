---------------------------- MODULE MCCircBuffer ----------------------------
(* A buffer of a few bytes, calls of up to one byte more than fit. *)
EXTENDS CircBuffer, TLC

CONSTANTS x, y

MCBytes == {x, y}
=============================================================================
