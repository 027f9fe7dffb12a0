------------------------------ MODULE MCIoNet ------------------------------
(* Connections of the event loop, on a handful of descriptors. *)
EXTENDS IoNet

CONSTANTS l, a, b, none

MCEvents == {"RX", "TX"}
=============================================================================
