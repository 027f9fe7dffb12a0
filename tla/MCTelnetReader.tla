-------------------------- MODULE MCTelnetReader --------------------------
(* A few bytes on the wire, read in chunks of every size. *)
EXTENDS TelnetReader, TLC
=============================================================================
