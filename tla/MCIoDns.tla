------------------------------ MODULE MCIoDns ------------------------------
(* Two lookups, and the descriptors for both. *)
EXTENDS IoDns, TLC

CONSTANTS d1, d2, timer, none

MCEvents == {"RX"}
=============================================================================
