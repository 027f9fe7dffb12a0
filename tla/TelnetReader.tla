---------------------------- MODULE TelnetReader ----------------------------
(***************************************************************************)
(* telnet_reader.c and the receiving side of io_telnet.c: the peer's bytes *)
(* are read in chunks cut anywhere and fed one by one to a state machine,  *)
(* which separates the data, handed to the user byte by byte, from the     *)
(* telnet commands, which are dropped.  The user may end the connection in *)
(* any of these calls and open it again on the same object, by             *)
(* io_telnet_connect in the middle of the call or for a connection the     *)
(* listener accepts later.                                                 *)
(*                                                                         *)
(* The peer sends what the machine is meant to understand.  It is not      *)
(* meant for a subnegotiation that is longer than its buffer or holds a    *)
(* 255 ("could be buggy but who cares").                                   *)
(***************************************************************************)
EXTENDS Integers, Sequences

CONSTANTS
  Plain,      \* data bytes other than 255
  BufferSize, \* TELNET_READER_BUFFER_SIZE
  RxSize,     \* IO_TELNET_RX_BUF_SIZE
  MaxWire     \* a bound on the bytes under way

\* The bytes telnet.h has names for.  DO stands for DO, DONT, WILL and WONT,
\* NOP for the commands the reader does not know.
Codes == Plain \cup { "IAC", "SE", "SB", "DO", "NOP" }

ASSUME TelnetAssumption ==
  /\ { "IAC", "SE", "SB", "DO", "NOP", "none" } \cap Plain = {}
  /\ BufferSize \in Nat /\ RxSize \in Nat \ {0} /\ MaxWire \in Nat

VARIABLES
  wire,     \* the bytes the peer has sent and nobody has read
  owed,     \* the data among the bytes the user has not seen
  listener, \* t->cb of the listening io_telnet_t, "nobody" before its bind
  cb,       \* t->cb of the connection's io_telnet_t
  conn,     \* whose callback the open connection was made with, or "nobody"
  chunk,    \* the bytes in rx_buf the loop has still to feed
  state,    \* tr->state
  buf_ndx,  \* tr->buf_ndx, how much of tr->buffer is in use
  telling,  \* the byte io_telnet_data_back tells the user, or "none"
  stopping  \* the user told has closed the connection and will return stop

telnetVars == << wire, owed, listener, cb, conn, chunk, state, buf_ndx, telling, stopping >>

\* The callbacks a program hands to io_telnet_bind and io_telnet_connect
Users == { "server", "client" }

States == { "start", "rx_iac", "rx_do_dont_will_wont", "rx_sb", "wait_for_se" }

TelnetTypeOK ==
  /\ wire \in Seq(Codes) /\ owed \in Seq(Codes) /\ chunk \in Seq(Codes)
  /\ Len(chunk) <= RxSize
  /\ listener \in { "nobody", "server" }
  /\ cb \in Users \cup { "nobody" } /\ conn \in Users \cup { "nobody" }
  /\ state \in States
  /\ buf_ndx \in 0..BufferSize
  /\ telling \in Codes \cup { "none" } /\ stopping \in BOOLEAN

TelnetInit ==
  /\ wire = << >> /\ owed = << >> /\ chunk = << >>
  /\ listener = "nobody" /\ cb = "nobody" /\ conn = "nobody"
  /\ state = "start" /\ buf_ndx = 0
  /\ telling = "none" /\ stopping = FALSE

-----------------------------------------------------------------------------
\* A faulty variant: the machine goes on where the last connection ended.
StateKept == state

\* telnet_reader_init
InitialState == "start"

\* io_telnet_connection_init; buf_ndx is set
ConnectionInit == state' = InitialState /\ buf_ndx' = 0

\* The loop stands in io_driver_run, or the user in a callback of its own.
InLoop == chunk = << >> /\ telling = "none"

\* io_telnet_bind, once io_net_bind has succeeded
Bind ==
  /\ listener = "nobody" /\ InLoop
  /\ listener' = "server"
  /\ UNCHANGED << wire, owed, cb, conn, chunk, state, buf_ndx, telling, stopping >>

\* io_telnet_connect, once io_net_connect has succeeded, by a timer or in the
\* callback that has just closed the same object.  How the attempt ends
\* reaches io_telnet_client_callback as an event it drops: see IoNet.tla.
Connect ==
  /\ conn = "nobody" /\ (InLoop \/ stopping)
  /\ ConnectionInit
  /\ cb' = "client" /\ conn' = "client"
  /\ UNCHANGED << wire, owed, listener, chunk, telling, stopping >>

\* A faulty variant: the accepted object keeps the callback it had.
CallbackKept == cb

\* nt->cb = t->cb
AcceptedCallback == listener

\* io_telnet_server_callback on alloc_connection, for which the user gives
\* this object, and on connected, in whose callback it may close it again.
Accept ==
  /\ listener # "nobody" /\ conn = "nobody" /\ InLoop
  /\ ConnectionInit
  /\ cb' = AcceptedCallback
  /\ conn' \in { "server", "nobody" }
  /\ UNCHANGED << wire, owed, listener, chunk, telling, stopping >>

\* The peer sends bytes of which the user is to see data.
Send(bytes, data) ==
  /\ conn # "nobody"
  /\ Len(wire) + Len(bytes) <= MaxWire
  /\ wire' = wire \o bytes
  /\ owed' = owed \o data
  /\ UNCHANGED << listener, cb, conn, chunk, state, buf_ndx, telling, stopping >>

Option == Codes

Payload == UNION { [1..n -> Codes \ { "IAC" }] : n \in 0..BufferSize }

Peer ==
  \/ \E b \in Plain : Send(<< b >>, << b >>)
  \/ Send(<< "IAC", "IAC" >>, << "IAC" >>)
  \/ Send(<< "IAC", "NOP" >>, << >>)
  \/ \E o \in Option : Send(<< "IAC", "DO", o >>, << >>)
  \/ \E p \in Payload : Send(<< "IAC", "SB" >> \o p \o << "IAC", "SE" >>, << >>)

\* A faulty variant: one byte more than rx_buf holds.
RoomPlusOne == RxSize + 1

\* io_net_set_rx_buf
Room == RxSize

\* io_net_handle_data_rx_event reads what rx_buf holds of the wire.
Read ==
  /\ conn # "nobody" /\ InLoop
  /\ wire # << >>
  /\ \E n \in 1..Room :
       /\ n <= Len(wire)
       /\ chunk' = SubSeq(wire, 1, n)
       /\ wire' = SubSeq(wire, n + 1, Len(wire))
  /\ UNCHANGED << owed, listener, cb, conn, state, buf_ndx, telling, stopping >>

-----------------------------------------------------------------------------
(* telnet_reader_feed, one byte d of the chunk in each state                *)

Feeding(s) == telling = "none" /\ chunk # << >> /\ state = s

d == Head(chunk)

\* tr->databack
DataBack ==
  /\ telling' = d
  /\ state' = "start"
  /\ UNCHANGED buf_ndx

MoveTo(s) ==
  /\ state' = s
  /\ UNCHANGED << buf_ndx, telling >>

\* telnet_reader_state_start
Start ==
  /\ Feeding("start")
  /\ IF d = "IAC" THEN MoveTo("rx_iac") ELSE DataBack

\* A faulty variant: a command the reader does not know swallows a byte.
AfterUnknown == "rx_do_dont_will_wont"

\* An unknown command is discarded.
AfterDiscard == "start"

\* telnet_reader_state_rx_iac and telnet_reader_handle_command
RxIac ==
  /\ Feeding("rx_iac")
  /\ CASE d = "IAC" -> DataBack
       [] d = "DO"  -> MoveTo("rx_do_dont_will_wont")
       [] d = "SB"  -> state' = "rx_sb" /\ buf_ndx' = 0 /\ UNCHANGED telling
       [] OTHER     -> MoveTo(AfterDiscard)

\* The command callback of io_telnet.c ignores the command.
RxOption == Feeding("rx_do_dont_will_wont") /\ MoveTo("start")

\* telnet_reader_state_rx_sb and telnet_reader_handle_subcommand; a payload
\* that does not fit ends the subnegotiation
RxSb ==
  /\ Feeding("rx_sb")
  /\ IF d = "IAC" THEN MoveTo("wait_for_se")
     ELSE IF buf_ndx < BufferSize
     THEN buf_ndx' = buf_ndx + 1 /\ UNCHANGED << state, telling >>
     ELSE MoveTo("start")

WaitForSe == Feeding("wait_for_se") /\ MoveTo("start")

Feed ==
  /\ Start \/ RxIac \/ RxOption \/ RxSb \/ WaitForSe
  /\ chunk' = Tail(chunk)
  /\ UNCHANGED << wire, owed, listener, cb, conn, stopping >>

-----------------------------------------------------------------------------
\* The user's callback has the byte and wants more.
UserContinues ==
  /\ telling # "none" /\ ~stopping
  /\ telling' = "none"
  /\ owed' = IF owed = << >> THEN owed ELSE Tail(owed)
  /\ UNCHANGED << wire, listener, cb, conn, chunk, state, buf_ndx, stopping >>

\* io_telnet_close; what was under way is lost
Closed == conn' = "nobody" /\ wire' = << >> /\ owed' = << >>

\* The user closes the connection in the callback.
UserCloses ==
  /\ telling # "none" /\ ~stopping
  /\ Closed
  /\ stopping' = TRUE
  /\ UNCHANGED << listener, cb, chunk, state, buf_ndx, telling >>

\* A faulty variant: the loop goes on with the rest of rx_buf.
LoopGoesOn == chunk

\* io_telnet_data_back returns -1 and the loop over rx_buf returns stop.
LoopStops == << >>

\* The user returns io_net_return_stop.
UserStops ==
  /\ stopping
  /\ telling' = "none" /\ stopping' = FALSE
  /\ chunk' = LoopStops
  /\ UNCHANGED << wire, owed, listener, cb, conn, state, buf_ndx >>

\* The connection ends between two reads, by the peer or by a timer.
Close ==
  /\ conn # "nobody" /\ InLoop
  /\ Closed
  /\ UNCHANGED << listener, cb, chunk, state, buf_ndx, telling, stopping >>

TelnetNext ==
  \/ Bind \/ Connect \/ Accept \/ Peer \/ Read \/ Feed
  \/ UserContinues \/ UserCloses \/ UserStops \/ Close

TelnetSpec == TelnetInit /\ [][TelnetNext]_telnetVars

\* The loop and the callbacks return, and select reports what was sent.
FairTelnetSpec ==
  TelnetSpec /\ WF_telnetVars(Read) /\ WF_telnetVars(Feed) /\ WF_telnetVars(UserContinues \/ UserStops)

-----------------------------------------------------------------------------
(* What the machine will make of the bytes that are still to come           *)

\* The machine, and how many bytes it has given the user by then.
Machine == [ state : States, ndx : 0..BufferSize, told : Nat ]

\* The machine m gives b to the user.
Tells(m, b) == (m.state = "start" /\ b # "IAC") \/ (m.state = "rx_iac" /\ b = "IAC")

StateAfter(m, b) ==
  CASE m.state = "start" /\ b = "IAC"                   -> "rx_iac"
    [] m.state = "rx_iac" /\ b = "DO"                   -> "rx_do_dont_will_wont"
    [] m.state = "rx_iac" /\ b = "SB"                   -> "rx_sb"
    [] m.state = "rx_sb" /\ b = "IAC"                   -> "wait_for_se"
    [] m.state = "rx_sb" /\ b # "IAC" /\ m.ndx < BufferSize -> "rx_sb"
    [] OTHER                                            -> "start"

NdxAfter(m, b) ==
  CASE m.state = "rx_iac" /\ b = "SB"                   -> 0
    [] m.state = "rx_sb" /\ b # "IAC" /\ m.ndx < BufferSize -> m.ndx + 1
    [] OTHER                                            -> m.ndx

\* The machine m after the byte b.
Fed(m, b) ==
  [ state |-> StateAfter(m, b),
    ndx   |-> NdxAfter(m, b),
    told  |-> IF Tells(m, b) THEN m.told + 1 ELSE m.told ]

\* The machine m after each of the bytes s.
Run(m, s) ==
  LET after[i \in 0..Len(s)] == IF i = 0 THEN m ELSE Fed(after[i - 1], s[i])
  IN  after

\* The bytes s take the machine, step by step as in r, back to its start, and
\* what it gives the user on the way is data.
Delivers(r, s, data) ==
  /\ \A i \in 1..Len(s) : Tells(r[i - 1], s[i]) =>
       r[i].told <= Len(data) /\ s[i] = data[r[i].told]
  /\ r[Len(s)].state = "start"
  /\ r[Len(s)].told = Len(data)

\* What the open connection's machine will be fed, and what its user is
\* still to be told after the call that runs.
Coming == IF stopping THEN wire ELSE chunk \o wire
Untold == IF telling # "none" /\ ~stopping THEN Tail(owed) ELSE owed

Now == [ state |-> state, ndx |-> buf_ndx, told |-> 0 ]

-----------------------------------------------------------------------------
\* The user the connection was made for is told the data the peer sent, in
\* order and unescaped, and nothing of a command, however the chunks cut the
\* escapes and commands, whatever a previous connection on the same object
\* left behind, and although that connection was closed, and perhaps the
\* next one made, in the middle of a chunk.
DataInOrder ==
  telling # "none" /\ ~stopping => owed # << >> /\ telling = Head(owed) /\ cb = conn

\* When everything that was sent has been fed, every data byte has reached
\* the user and the machine stands at the start again: no command leaves it
\* waiting for more, or takes the byte after it.
NothingHeldBack ==
  conn # "nobody" /\ wire = << >> /\ InLoop => owed = << >> /\ state = "start"

\* The bytes an open connection still has to feed take the machine, from the
\* middle of an escape or a command as well, back to its start and give the
\* user the rest of the data; what the rest of a chunk of a connection closed
\* in a callback would do to it is never found out.  In a callback the machine
\* stands at its start, and without a connection nothing is under way.
TelnetIInv ==
  /\ TelnetTypeOK
  /\ DataInOrder
  /\ conn # "nobody" => Delivers(Run(Now, Coming), Coming, Untold)
  /\ conn = "nobody" => wire = << >> /\ owed = << >> /\ (~stopping => InLoop)
  /\ telling # "none" => state = "start"
  /\ stopping => telling # "none"
  /\ conn # "nobody" => cb = conn

\* Data that is under way reaches the user, or the connection ends.
DataArrives == (owed # << >>) ~> (telling # "none" \/ conn = "nobody")
=============================================================================
