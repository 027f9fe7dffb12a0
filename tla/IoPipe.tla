------------------------------- MODULE IoPipe -------------------------------
(***************************************************************************)
(* io_pipe.c on top of the select loop of IoDriver.tla: programs started   *)
(* with fork and exec, whose output and input are pipes of the parent.     *)
(*                                                                         *)
(* An io_pipe_t p has two watchers, << p, "rw" >> on the descriptor it     *)
(* reads its child's output from and << p, "tw" >> on the one it writes    *)
(* the child's input to: fd[<< p, "rw" >>] is both p->pipe_r and           *)
(* p->rw.fd, and fd[<< p, "tw" >>] both p->pipe_w and p->tw.fd.            *)
(*                                                                         *)
(* The children run beside the loop: they write, read, close their output  *)
(* and exit between any two of its steps.  SIGPIPE is taken to be ignored, *)
(* so that a write to a child that has gone is an error and not the end of *)
(* the parent.                                                             *)
(***************************************************************************)
EXTENDS IoDriver, Naturals, FiniteSets

CONSTANTS
  Pipes,        \* the io_pipe_t objects
  Fed,          \* those whose child the program transmits to
  FreshDriver,  \* what p->driver, which io_pipe.c never sets, may hold:
                \* "set" when the program sets it itself, or "null"
  MaxOut        \* bound: the reads a child's unread output can take

VARIABLES
  pipe,   \* the io_pipe_t objects
  open,   \* the parent's open descriptors: << descriptor, object, end >>
  child,  \* per object, the process it started last and the pipes to it
  frame   \* the handler that is running

pipeVars == << pipe, open, child, frame >>

allVars == << drv, fd, sets, phase, call, pipe, open, child, frame >>

rw(p) == << p, "rw" >>
tw(p) == << p, "tw" >>

\* The ends of the two pipes of an object: pipe_r[0], pipe_r[1], pipe_w[0]
\* and pipe_w[1], in the order pipe() makes them.
End == [ i \in 1..4 |-> CASE i = 1 -> "read" [] i = 2 -> "childs_output"
                          [] i = 3 -> "childs_input" [] i = 4 -> "write" ]

\* st: running; closed: its output is closed and it lives on; exited: a
\* zombie; reaped: waitpid has seen it.  out: output nobody has read; room:
\* the pipe to its input is not full
ChildType ==
  [ st : { "none", "running", "closed", "exited", "reaped" },
    out : 0..MaxOut, room : BOOLEAN ]

\* wait: blocked in waitpid; fault: an address nobody set was used
FrameType ==
  [ at : { "none", "enter", "wait", "user", "fault" },
    w : Watchers \cup { <<>> }, e : SUBSET Events,
    ev : { "none", "rx", "tx", "closed" } ]

ASSUME IoPipeAssumption ==
  /\ { "RX", "TX" } \subseteq Events
  /\ Watchers = Pipes \X { "rw", "tw" }
  /\ Fds # {} /\ Fds \subseteq Nat /\ IsFiniteSet(Fds)
  /\ Fed \subseteq Pipes
  /\ FreshDriver \subseteq { "set", "null" }
  /\ MaxOut \in Nat \ {0}

PipeTypeOK ==
  /\ TypeOK
  /\ pipe \in [Pipes -> [ live : BOOLEAN, driver : FreshDriver ]]
  /\ open \subseteq Fds \X Pipes \X { End[i] : i \in 1..4 }
  /\ child \in [Pipes -> ChildType]
  /\ frame \in FrameType
  /\ phase = "callback" <=> frame.at \in { "enter", "wait", "user" }
  /\ \A p \in Pipes : child[p].st = "none" <=> ~pipe[p].live

-----------------------------------------------------------------------------
NoChild == [ st |-> "none", out |-> 0, room |-> TRUE ]
NoFrame == [ at |-> "none", w |-> <<>>, e |-> {}, ev |-> "none" ]

\* The descriptors of an object that was never opened are not looked at.
PipeInit ==
  /\ Init
  /\ \E f \in Fds : (\A g \in Fds : f <= g) /\ fd = [w \in Watchers |-> f]
  /\ pipe \in [Pipes -> [ live : {FALSE}, driver : FreshDriver ]]
  /\ open = {}
  /\ child = [p \in Pipes |-> NoChild]
  /\ frame = NoFrame

\* The program's own code runs between two rounds and in p->cb.
Program == frame.at = "user" \/ (phase = "app" /\ frame.at = "none")

Taken == { o[1] : o \in open }

\* The kernel hands out the lowest descriptors that are free: the i-th of
\* them.  Four are needed, if only for the length of io_pipe_init.
Free == Fds \ Taken
Lowest(i) == CHOOSE f \in Free : Cardinality({ g \in Free : g < f }) = i - 1

\* The child's output has come to its end: all of it was read, and nobody
\* holds the end it was written to.
AtEnd(p) ==
  /\ child[p].st # "running"
  /\ child[p].out = 0
  /\ \A f \in Fds : << f, p, "childs_output" >> \notin open

\* What select says of a pipe; one whose reader has gone takes the write
\* that fails.
Readable(f) ==
  \E p \in Pipes : << f, p, "read" >> \in open /\ (child[p].out > 0 \/ AtEnd(p))

Writable(f) ==
  \E p \in Pipes :
    << f, p, "write" >> \in open /\ (child[p].room \/ child[p].st \in { "exited", "reaped" })

KernelReady ==
  [ ev \in Events |->
      { f \in Asked(ev) : \/ ev = "RX" /\ Readable(f)
                          \/ ev = "TX" /\ Writable(f) } ]

-----------------------------------------------------------------------------
(* The children *)

ChildWrites(p) ==
  /\ child[p].st = "running" /\ child[p].out < MaxOut
  /\ child' = [child EXCEPT ![p].out = @ + 1]

ChildReads(p) ==
  /\ child[p].st \in { "running", "closed" } /\ ~child[p].room
  /\ child' = [child EXCEPT ![p].room = TRUE]

ChildClosesOutput(p) ==
  /\ child[p].st = "running"
  /\ child' = [child EXCEPT ![p].st = "closed"]

\* It exits when it likes, or because execv failed.
ChildExits(p) ==
  /\ child[p].st \in { "running", "closed" }
  /\ child' = [child EXCEPT ![p].st = "exited"]

ChildRuns(p) ==
  /\ ChildWrites(p) \/ ChildReads(p) \/ ChildClosesOutput(p) \/ ChildExits(p)
  /\ UNCHANGED << vars, pipe, open, frame >>

-----------------------------------------------------------------------------
(* The loop *)

Select ==
  /\ frame.at = "none"
  /\ SelectReady
  /\ sets' = KernelReady
  /\ UNCHANGED pipeVars

Dispatch ==
  /\ DispatchNext
  /\ frame' = IF phase' = "callback"
              THEN LET w == Head(drv.run_list)
                   IN [NoFrame EXCEPT !.at = "enter", !.w = w, !.e = call'[w]]
              ELSE frame
  /\ UNCHANGED << pipe, open, child >>

\* A handler has nothing left to do when p->cb returns.
UserReturns ==
  /\ frame.at = "user"
  /\ CallbackReturn
  /\ frame' = NoFrame
  /\ UNCHANGED << pipe, open, child >>

RoundOver == DispatchDone /\ UNCHANGED pipeVars

-----------------------------------------------------------------------------
(* The calls of the program *)

loopVars == << sets, phase, call >>

\* A faulty variant: the parent keeps the end the child writes to.
KeptWithChildsOutput(p) ==
  { << Lowest(i), p, End[i] >> : i \in { 1, 2, 4 } }

\* What the parent keeps of the four ends; the child's two are closed.
Kept(p) == { << Lowest(i), p, End[i] >> : i \in { 1, 4 } }

\* io_driver_watcher_init of both watchers, and io_driver_watch
Watched(p) ==
  LET renewed == [drv EXCEPT !.event_listening[rw(p)] = {}, !.event_listening[tw(p)] = {}]
  IN Watch(renewed, rw(p), { "RX" })

\* io_pipe_init.  When a pipe or the fork fails it closes what it has got
\* and returns -1 or 1, a stuttering step.
io_pipe_init(p) ==
  /\ Program /\ ~pipe[p].live
  /\ Cardinality(Free) >= 4
  /\ open' = open \cup Kept(p)
  /\ fd' = [fd EXCEPT ![rw(p)] = Lowest(1), ![tw(p)] = Lowest(4)]
  /\ child' = [child EXCEPT ![p] = [NoChild EXCEPT !.st = "running"]]
  /\ pipe' = [pipe EXCEPT ![p].live = TRUE]
  /\ drv' = Watched(p)
  /\ UNCHANGED << loopVars, frame >>

\* A faulty variant: only the watcher of the output is taken off.
OutputUnwatched(p) == NoWatch(drv, rw(p), { "RX" })

\* io_driver_no_watch of both watchers
Unwatched(p) == NoWatch(NoWatch(drv, rw(p), { "RX" }), tw(p), { "TX" })

\* io_pipe_close: the child is not waited for, and nothing tells any more
\* what becomes of it.
io_pipe_close(p) ==
  /\ Program /\ pipe[p].live
  /\ drv' = Unwatched(p)
  /\ open' = { o \in open : o[1] \notin { fd[rw(p)], fd[tw(p)] } }
  /\ pipe' = [pipe EXCEPT ![p].live = FALSE]
  /\ child' = [child EXCEPT ![p] = NoChild]
  /\ UNCHANGED << loopVars, fd, frame >>

MayTransmit(p) ==
  /\ Program /\ pipe[p].live /\ p \in Fed
  /\ child[p].st \in { "running", "closed" }

\* io_pipe_tx: write() takes some of the bytes.
TxWritten(p) ==
  /\ MayTransmit(p) /\ child[p].room
  /\ child' = [child EXCEPT ![p].room = FALSE]
  /\ UNCHANGED << vars, pipe, open, frame >>

\* io_pipe_tx when the pipe is full: p->driver is told to watch for TX.  Any
\* other error, a child that has gone among them, returns -1 and changes
\* nothing.
TxScheduled(p) ==
  /\ MayTransmit(p) /\ ~child[p].room
  /\ IF pipe[p].driver = "set"
     THEN drv' = Watch(drv, tw(p), { "TX" }) /\ frame' = frame
     ELSE frame' = [NoFrame EXCEPT !.at = "fault"] /\ drv' = drv
  /\ phase' = IF frame'.at = "fault" THEN "app" ELSE phase
  /\ UNCHANGED << sets, call, fd, pipe, open, child >>

-----------------------------------------------------------------------------
(* The handlers *)

Entered(w) == frame.at = "enter" /\ frame.w = w

\* p->cb(p, &ev)
Tell(ev) == [frame EXCEPT !.at = "user", !.ev = ev, !.e = {}]

\* io_pipe_rx_callback: read() takes up to rx_size of the output.
RxCallback(p) ==
  /\ Entered(rw(p)) /\ "RX" \in frame.e
  /\ IF child[p].out > 0
     THEN /\ frame' = Tell("rx")
          /\ \E left \in 0..(child[p].out - 1) : child' = [child EXCEPT ![p].out = left]
     ELSE frame' = [frame EXCEPT !.at = "wait", !.e = {}] /\ child' = child
  /\ UNCHANGED << vars, pipe, open >>

\* A faulty variant: nobody is told of the end.
EndHidden == Tell("rx")

EndTold == Tell("closed")

\* The rest of it when read() returned 0 or -1: waitpid returns when the
\* child has exited, or at once when it was reaped before.
Waitpid(p) ==
  /\ frame.at = "wait" /\ frame.w = rw(p)
  /\ child[p].st \in { "exited", "reaped" }
  /\ child' = [child EXCEPT ![p].st = "reaped"]
  /\ frame' = EndTold
  /\ UNCHANGED << vars, pipe, open >>

\* io_pipe_tx_callback
TxCallback(p) ==
  /\ Entered(tw(p)) /\ "TX" \in frame.e
  /\ drv' = NoWatch(drv, tw(p), { "TX" })
  /\ frame' = Tell("tx")
  /\ UNCHANGED << loopVars, fd, pipe, open, child >>

-----------------------------------------------------------------------------
Call(p) == io_pipe_init(p) \/ io_pipe_close(p) \/ TxWritten(p) \/ TxScheduled(p)

Handler(p) == RxCallback(p) \/ Waitpid(p) \/ TxCallback(p)

Round == Dispatch \/ UserReturns \/ RoundOver

PipeNext ==
  \/ Select \/ Round
  \/ \E p \in Pipes : Call(p) \/ Handler(p) \/ ChildRuns(p)

PipeSpec == PipeInit /\ [][PipeNext]_allVars

\* The program keeps calling io_driver_run and its callbacks return; "a
\* child program is supposed to exit immediately if it closes stdout"
\* (io_pipe_rx_callback).
FairPipeSpec ==
  /\ PipeSpec
  /\ WF_allVars(Select) /\ WF_allVars(Round)
  /\ \A p \in Pipes :
       /\ WF_allVars(Handler(p))
       /\ WF_allVars(/\ child[p].st = "closed" /\ ChildExits(p)
                     /\ UNCHANGED << vars, pipe, open, frame >>)

-----------------------------------------------------------------------------
\* The loop blocks in waitpid only for a child whose output has come to its
\* end, never for one that is merely quiet: io_pipe_rx_callback takes every
\* failed read for the end, so it relies on the loop not to call it with
\* what select said of a descriptor before an earlier callback of the round
\* closed it and started the next child on it.
WaitsForTheEnding ==
  frame.at = "wait" => \E p \in Pipes : frame.w = rw(p) /\ pipe[p].live /\ AtEnd(p)

\* The parent's open descriptors are the two of each live object, whatever
\* was started and closed: no end of a pipe is left behind by io_pipe_init,
\* which would also keep the end of the output from ever being seen.
PipesOwned ==
  open = UNION { { << fd[rw(p)], p, "read" >>, << fd[tw(p)], p, "write" >> } :
                   p \in { q \in Pipes : pipe[q].live } }

\* When a child has closed its output, by exiting or before it, the program
\* is told so or closes the pipe, however many children of others end at the
\* same time and block the loop in waitpid.
EndIsTold ==
  \A p \in Pipes :
    (child[p].st \in { "closed", "exited" })
      ~> \/ ~pipe[p].live
         \/ frame.at = "user" /\ frame.w = rw(p) /\ frame.ev = "closed"

\* "pipe schedling tx event" (io_pipe_tx): a full pipe is watched for room.
TxIsScheduled == frame.at # "fault"
-----------------------------------------------------------------------------
(* The inductive invariant *)

\* The lists of the driver, as in IoDriver.tla; a fault leaves them in the
\* middle of a round.
DriverSound ==
  Consistent /\ (phase = "app" /\ frame.at = "none" => drv.run_list = EmptyList)

\* Every descriptor that is open is one end of one object's.
EndsApart == \A o1, o2 \in open : o1[1] = o2[1] => o1 = o2

\* A live object is watched for the output of its child, and for room in the
\* pipe to it while the program waits for that; any other for nothing.
WatchedWhileLive ==
  \A p \in Pipes :
    /\ drv.event_listening[rw(p)] = IF pipe[p].live THEN { "RX" } ELSE {}
    /\ drv.event_listening[tw(p)] \subseteq IF pipe[p].live THEN { "TX" } ELSE {}

\* The child has written something, or will never again.
HasNews(p) == child[p].out > 0 \/ child[p].st # "running"

\* What select said of the children whose turn is still to come is true of
\* them yet: no callback has put the next child behind their descriptor.
NewsHolds ==
  \A p \in Pipes :
    rw(p) \in Linked(drv.run_list) /\ fd[rw(p)] \in sets["RX"] => HasNews(p)

\* The handler that runs has taken its watcher off the round, and the object
\* is live and has news until the user is called.
FrameSound ==
  /\ frame.at \in { "enter", "wait" } => frame.w \in Watchers /\ frame.w \notin Linked(drv.run_list)
  /\ frame.at = "enter" => \A p \in Pipes : frame.w = rw(p) => pipe[p].live /\ HasNews(p)

\* Together they are what every step of the program, its children and the
\* loop keeps: why a handler finds its object live, why a failed read means
\* that the output has ended, and why no end is left open.
PipeIInv ==
  /\ PipeTypeOK
  /\ DriverSound
  /\ EndsApart
  /\ PipesOwned
  /\ WatchedWhileLive
  /\ NewsHolds
  /\ FrameSound
  /\ WaitsForTheEnding
=============================================================================
