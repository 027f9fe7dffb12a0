------------------------------ MODULE MCIoPipe ------------------------------
(* Two child programs on the descriptors two pipes need at most. *)
EXTENDS IoPipe

CONSTANTS p, q  \* the io_pipe_t objects

MCEvents == {"RX", "TX"}
MCWatchers == Pipes \X {"rw", "tw"}
=============================================================================
