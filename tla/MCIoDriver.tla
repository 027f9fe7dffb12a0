----------------------------- MODULE MCIoDriver -----------------------------
(* The event loop with a few watchers that compete for few descriptors. *)
EXTENDS IoDriverPointers

CONSTANTS w1, w2, w3, fd1, fd2, RX, TX, h1, h2

MCWatchers == {w1, w2, w3}
MCFds == {fd1, fd2}
MCEvents == {RX, TX}
=============================================================================
