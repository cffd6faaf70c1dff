------------------------------- MODULE CddbNet -------------------------------
(***************************************************************************)
(* cddb_net.c: reading a line and writing a message on a socket that may   *)
(* stall, looking a host name up under an alarm, and connecting with a     *)
(* time-out.  A step is one system call or one turn of a loop, so that the *)
(* clock, the server and the signal can come in between.                   *)
(*                                                                         *)
(* The clock counts fractions of a second from the second in which the     *)
(* call started, because time() cuts off the fraction and select() does    *)
(* not.  Waiting is what takes time.                                       *)
(***************************************************************************)
EXTENDS Integers, Sequences

CONSTANTS
  Bytes, LF,     \* the bytes of a line and the newline
  Timeout,       \* c->timeout, in seconds
  BufSize,       \* c->buf_size
  Ticks,         \* moments told apart in one second
  MaxStream,     \* bound: bytes a server sends on a connection
  MaxMessage,    \* bound: length of a message
  MaxRefused     \* bound: times send() is refused in one call

ASSUME BytesAssumption == LF \notin Bytes
\* alarm(0) sets no alarm: the time-out must not be zero for it to work.
ASSUME TimeoutAssumption == Timeout \in Nat \ {0} /\ Ticks \in Nat \ {0}
ASSUME BufSizeAssumption == BufSize \in Nat \ {0}
ASSUME BoundsAssumption == {MaxStream, MaxMessage, MaxRefused} \subseteq Nat

VARIABLES
  op, pc,        \* the last function called, and where it is
  clock, wait,   \* the time, and what select() has left to wait
  stream, closed,  \* what the server has sent, and whether it has hung up
  taken,         \* the bytes recv() has taken
  buf, line,     \* what sock_fgets has in its buffer, what it returned last
  total, toSend, p,  \* locals of sock_fwrite; p is a position in the message
  wire, refused, \* history: the positions put on the wire, the refusals
  count,         \* what sock_vfprintf returned
  handler, alarm,  \* whose SIGALRM handler and whose alarm is set
  due,           \* when the library's alarm rings
  frame,         \* the frame timeout_expired points into is live
  blocked,       \* SIGALRM is blocked in the process
  host, host1,   \* a host was returned; the variable he
  link,          \* the connection of the socket
  gotError, rv   \* local and result of timeout_connect

callVars   == <<op, pc, clock, wait>>
serverVars == <<stream, closed>>
readVars   == <<taken, buf, line>>
writeVars  == <<total, toSend, p, wire, refused, count>>
lookupVars == <<handler, alarm, due, frame, blocked, host, host1>>
linkVars   == <<link, gotError, rv>>
vars == <<callVars, serverVars, readVars, writeVars, lookupVars, linkVars>>

Ops == {"none", "fgets", "fwrite", "lookup", "connect"}
Places == {"idle", "check", "select", "io", "cancel", "handle", "setjmp", "arm",
           "query", "disarm", "restore", "start", "verdict"}
MaxClock == (Timeout + 2) * Ticks

NetTypeOK ==
  /\ op \in Ops /\ pc \in Places
  /\ clock \in 0..MaxClock /\ wait \in 0..(Timeout * Ticks)
  /\ stream \in Seq(Bytes \cup {LF}) /\ closed \in BOOLEAN
  /\ taken \in 0..Len(stream)
  /\ buf \in Seq(Bytes \cup {LF}) /\ Len(buf) < BufSize
  /\ line \in Seq(Bytes \cup {LF}) /\ Len(line) < BufSize
  /\ total \in 0..MaxMessage /\ refused \in 0..MaxRefused
  /\ toSend \in Nat /\ p \in Int /\ wire \in Seq(Int) /\ count \in Int
  /\ handler \in {"app", "lib"} /\ alarm \in {"off", "app", "lib"}
  /\ due \in Nat
  /\ frame \in BOOLEAN /\ blocked \in BOOLEAN /\ host \in BOOLEAN /\ host1 \in BOOLEAN
  /\ link \in {"none", "made", "pending", "up", "refused", "failed"}
  /\ gotError \in BOOLEAN /\ rv \in {0, -1}

Init ==
  /\ op = "none" /\ pc = "idle" /\ clock = 0 /\ wait = 0
  /\ stream = <<>> /\ closed = FALSE
  /\ taken = 0 /\ buf = <<>> /\ line = <<>>
  /\ total = 0 /\ toSend = 0 /\ p = 1 /\ wire = <<>> /\ refused = 0 /\ count = 0
  /\ handler = "app" /\ alarm = "off" /\ due = 0
  /\ frame = FALSE /\ blocked = FALSE /\ host = FALSE /\ host1 = FALSE
  /\ link = "none" /\ gotError = FALSE /\ rv = 0

-----------------------------------------------------------------------------
(* The clock, the server and the signal.                                   *)

\* The library's alarm is due and its signal can be delivered.
Due == alarm = "lib" /\ clock >= due /\ ~blocked

\* Time passes while the process waits; no alarm is late.
Tick ==
  /\ \/ pc = "select" /\ wait > 0
     \/ pc = "query" /\ ~Due
  /\ clock < MaxClock
  /\ clock' = clock + 1
  /\ wait' = IF pc = "select" THEN wait - 1 ELSE wait
  /\ UNCHANGED <<op, pc, serverVars, readVars, writeVars, lookupVars, linkVars>>

ServerSends(b) ==
  /\ link = "up" /\ ~closed /\ Len(stream) < MaxStream
  /\ stream' = Append(stream, b)
  /\ UNCHANGED <<callVars, closed, readVars, writeVars, lookupVars, linkVars>>

ServerCloses ==
  /\ link = "up" /\ ~closed
  /\ closed' = TRUE
  /\ UNCHANGED <<callVars, stream, readVars, writeVars, lookupVars, linkVars>>

\* A connection in progress is made, or turned down.
LinkSettles ==
  /\ link = "pending"
  /\ link' \in {"up", "refused"}
  /\ UNCHANGED <<callVars, serverVars, readVars, writeVars, lookupVars,
                 gotError, rv>>

\* The application sets an alarm of its own before it calls the library.
AppAlarm ==
  /\ pc = "idle" /\ alarm = "off"
  /\ alarm' = "app"
  /\ UNCHANGED <<callVars, serverVars, readVars, writeVars, linkVars,
                 handler, due, frame, blocked, host, host1>>

\* SIGALRM, which is blocked while its handler runs.  The application's handler
\* returns, which unblocks it.  The library's jumps to timeout_expired, which does
\* not: setjmp has saved no mask (glibc).  What he holds by then is not determined
\* if gethostbyname had returned.
AlarmRings ==
  /\ Due \/ (alarm = "app" /\ ~blocked)
  /\ alarm' = "off"
  /\ IF handler = "lib"
     THEN pc' = "restore" /\ blocked' = TRUE /\ host1' \in {FALSE, host1}
     ELSE UNCHANGED <<pc, blocked, host1>>
  /\ UNCHANGED <<op, clock, wait, serverVars, readVars, writeVars, linkVars,
                 handler, due, frame, host>>

-----------------------------------------------------------------------------
(* Time in the loops of sock_fgets and sock_fwrite.                        *)

\* A call starts at some moment of a second.
Begins(name, place) ==
  /\ pc = "idle"
  /\ op' = name /\ pc' = place
  /\ clock' \in 0..(Ticks - 1)
  /\ wait' = 0

\* Mutant: the deadline moves with every byte.
RemainingAfresh == Timeout

\* end - now, by a time() that counts whole seconds.
Remaining == Timeout - clock \div Ticks

\* The loop turns once more and waits at most until the deadline.
Waits ==
  /\ pc' = "select" /\ wait' = Remaining * Ticks
  /\ UNCHANGED <<op, clock>>

At(place) == pc' = place /\ UNCHANGED <<op, clock, wait>>

\* The call is over; its locals are gone.
Return == pc' = "idle" /\ wait' = 0 /\ clock' = 0 /\ UNCHANGED op

-----------------------------------------------------------------------------
(* sock_fgets                                                              *)

Others(readOrWrite) ==
  UNCHANGED <<serverVars, lookupVars, linkVars, readOrWrite>>

Fgets ==
  /\ link # "none"
  /\ Begins("fgets", "check")
  /\ buf' = <<>>
  /\ Others(writeVars) /\ UNCHANGED <<taken, line>>

Delivers(s) == Return /\ line' = s /\ buf' = <<>> /\ Others(writeVars)

\* Mutant: no byte is saved for the terminating null.
HasRoomForNull == Len(buf) < BufSize

HasRoom == Len(buf) < BufSize - 1

\* Mutant: what there is of a line is returned when time is up.
FgetsCheckKeepsPart ==
  /\ op = "fgets" /\ pc = "check"
  /\ IF ~HasRoom \/ Remaining <= 0 THEN Delivers(buf) /\ UNCHANGED taken
     ELSE Waits /\ Others(writeVars) /\ UNCHANGED readVars

FgetsCheck ==
  /\ op = "fgets" /\ pc = "check"
  /\ IF ~HasRoom THEN Delivers(buf) /\ UNCHANGED taken
     ELSE IF Remaining <= 0 THEN Delivers(<<>>) /\ UNCHANGED taken
     ELSE Waits /\ Others(writeVars) /\ UNCHANGED readVars

\* There is something to read, be it the end or an error.
Readable == taken < Len(stream) \/ closed \/ link \in {"made", "refused", "failed"}

FgetsReadable ==
  /\ op = "fgets" /\ pc = "select" /\ Readable
  /\ At("io") /\ Others(writeVars) /\ UNCHANGED readVars

FgetsGivesUp ==
  /\ op = "fgets" /\ pc = "select"
  /\ Delivers(<<>>) /\ UNCHANGED taken

FgetsByte ==
  /\ op = "fgets" /\ pc = "io" /\ taken < Len(stream)
  /\ taken' = taken + 1
  /\ LET s == Append(buf, stream[taken + 1])
     IN IF stream[taken + 1] = LF
        THEN Delivers(s)
        ELSE /\ buf' = s
             /\ At("check") /\ Others(writeVars) /\ UNCHANGED line

\* The end of the stream ends the line; if there is none the read fails.
FgetsEndOfStream ==
  /\ op = "fgets" /\ pc = "io" /\ taken = Len(stream) /\ closed
  /\ Delivers(buf) /\ UNCHANGED taken

FgetsRecvFails ==
  /\ op = "fgets" /\ pc = "io"
  /\ Delivers(<<>>) /\ UNCHANGED taken

-----------------------------------------------------------------------------
(* sock_vfprintf and sock_fwrite                                           *)

\* vsnprintf has cut a message that does not fit: nothing is sent.
FprintfTooLong(n) ==
  /\ link # "none" /\ n >= BufSize
  /\ Begins("fwrite", "idle")
  /\ total' = 0 /\ toSend' = 0 /\ p' = 1 /\ wire' = <<>> /\ refused' = 0
  /\ count' = -1
  /\ Others(readVars)

Fprintf(n) ==
  /\ link # "none" /\ n < BufSize
  /\ Begins("fwrite", "check")
  /\ total' = n /\ toSend' = n /\ p' = 1 /\ wire' = <<>> /\ refused' = 0
  /\ count' = 0
  /\ Others(readVars)

\* The number of bytes is an int again when the caller gets it.
FwriteReturns ==
  /\ Return /\ count' = total - toSend
  /\ UNCHANGED <<total, toSend, p, wire, refused>> /\ Others(readVars)

FwriteCheck ==
  /\ op = "fwrite" /\ pc = "check"
  /\ IF toSend = 0 \/ Remaining <= 0
     THEN FwriteReturns
     ELSE Waits /\ UNCHANGED writeVars /\ Others(readVars)

FwriteWritable ==
  /\ op = "fwrite" /\ pc = "select" /\ link # "pending"
  /\ At("io") /\ UNCHANGED writeVars /\ Others(readVars)

FwriteGivesUp == op = "fwrite" /\ pc = "select" /\ FwriteReturns

\* Mutant: p stays where it is.
SendSameAgain(n) ==
  /\ op = "fwrite" /\ pc = "io" /\ link = "up"
  /\ wire' = wire \o [i \in 1..n |-> p + i - 1]
  /\ toSend' = toSend - n
  /\ At("check") /\ UNCHANGED <<total, p, refused, count>> /\ Others(readVars)

Send(n) ==
  /\ op = "fwrite" /\ pc = "io" /\ link = "up"
  /\ wire' = wire \o [i \in 1..n |-> p + i - 1]
  /\ toSend' = toSend - n
  /\ p' = p + n
  /\ At("check") /\ UNCHANGED <<total, refused, count>> /\ Others(readVars)

\* EAGAIN: rv is -1 and is subtracted and added all the same.
SendRefused ==
  /\ op = "fwrite" /\ pc = "io" /\ link = "up" /\ refused < MaxRefused
  /\ toSend' = toSend + 1
  /\ p' = p - 1
  /\ refused' = refused + 1
  /\ At("check") /\ UNCHANGED <<total, wire, count>> /\ Others(readVars)

SendFails == op = "fwrite" /\ pc = "io" /\ FwriteReturns

-----------------------------------------------------------------------------
(* timeout_gethostbyname                                                   *)

InLookup(place) ==
  /\ op = "lookup" /\ pc = place
  /\ UNCHANGED <<blocked, serverVars, readVars, writeVars, linkVars>>

Gethostbyname ==
  /\ link = "none"
  /\ Begins("lookup", "cancel")
  /\ host' = FALSE /\ host1' = FALSE
  /\ UNCHANGED <<serverVars, readVars, writeVars, linkVars,
                 handler, alarm, due, frame, blocked>>

\* Mutant: an alarm of the application may ring before setjmp.
CancelAlarmNot ==
  /\ InLookup("cancel") /\ At("handle")
  /\ UNCHANGED <<alarm, handler, due, frame, host, host1>>

CancelAlarm ==
  /\ InLookup("cancel") /\ At("handle")
  /\ alarm' = "off" /\ UNCHANGED <<handler, due, frame, host, host1>>

SetHandler ==
  /\ InLookup("handle") /\ At("setjmp")
  /\ handler' = "lib" /\ UNCHANGED <<alarm, due, frame, host, host1>>

\* setjmp keeps the frame and not the signal mask.
SetJump ==
  /\ InLookup("setjmp") /\ At("arm")
  /\ frame' = TRUE /\ UNCHANGED <<handler, alarm, due, host, host1>>

\* Mutant: the query is made with no alarm set.
ArmAlarmNot ==
  /\ InLookup("arm") /\ At("query")
  /\ UNCHANGED <<alarm, handler, due, frame, host, host1>>

ArmAlarm ==
  /\ InLookup("arm") /\ At("query")
  /\ alarm' = "lib" /\ due' = clock + Timeout * Ticks
  /\ UNCHANGED <<handler, frame, host, host1>>

\* The name server answers, with a host or without; it need not.
NameAnswered ==
  /\ InLookup("query") /\ At("disarm")
  /\ host1' \in BOOLEAN /\ UNCHANGED <<handler, alarm, due, frame, host>>

DisarmAlarm ==
  /\ InLookup("disarm") /\ At("restore")
  /\ alarm' = "off" /\ UNCHANGED <<handler, due, frame, host, host1>>

RestoreHandler ==
  /\ InLookup("restore") /\ Return
  /\ handler' = "app" /\ frame' = FALSE
  /\ host' = host1 /\ host1' = FALSE /\ due' = 0
  /\ UNCHANGED alarm

-----------------------------------------------------------------------------
(* timeout_connect, on the socket cddb_connect has made.                   *)

InConnect(place) ==
  /\ op = "connect" /\ pc = place
  /\ UNCHANGED <<serverVars, readVars, writeVars, lookupVars>>

TimeoutConnect ==
  /\ link = "none" /\ host
  /\ Begins("connect", "start")
  /\ link' = "made" /\ gotError' = FALSE
  /\ host' = FALSE
  /\ UNCHANGED <<serverVars, readVars, writeVars, rv,
                 handler, alarm, due, frame, blocked, host1>>

NonBlockingFails == InConnect("start") /\ Return /\ rv' = -1 /\ UNCHANGED <<link, gotError>>

\* A connection made at once is taken for one that failed ...
ConnectedAtOnce ==
  /\ InConnect("start") /\ Return
  /\ link' = "up" /\ gotError' = TRUE /\ rv' = -1

\* ... and one that failed at once for one that was made.
FailedAtOnce ==
  /\ InConnect("start") /\ Return
  /\ link' = "failed" /\ rv' = 0 /\ UNCHANGED gotError

ConnectInProgress ==
  /\ InConnect("start")
  /\ link' = "pending" /\ pc' = "select" /\ wait' = Timeout * Ticks
  /\ UNCHANGED <<op, clock, gotError, rv>>

ConnectReady ==
  /\ InConnect("select") /\ link \in {"up", "refused"}
  /\ At("verdict") /\ UNCHANGED linkVars

\* Mutant: a time-out does not fall through to the error.
ConnectGivesUpQuietly ==
  /\ InConnect("select")
  /\ At("verdict") /\ UNCHANGED linkVars

\* Cases 0 and -1 fall through to the check of SO_ERROR.
ConnectGivesUp ==
  /\ InConnect("select")
  /\ gotError' = TRUE
  /\ At("verdict") /\ UNCHANGED <<link, rv>>

ConnectVerdict ==
  /\ InConnect("verdict") /\ Return
  /\ rv' = IF gotError \/ link = "refused" THEN -1 ELSE 0
  /\ UNCHANGED <<link, gotError>>

-----------------------------------------------------------------------------

\* cddb_disconnect.
Disconnect ==
  /\ pc = "idle" /\ link # "none"
  /\ link' = "none"
  /\ stream' = <<>> /\ closed' = FALSE /\ taken' = 0
  /\ UNCHANGED <<callVars, buf, line, writeVars, lookupVars, gotError, rv>>

\* The ways a wait in select() can end with nothing ready.
GivesUp == FgetsGivesUp \/ FwriteGivesUp \/ ConnectGivesUp

SelectExpires == wait = 0 /\ GivesUp

\* select() fails: a signal has interrupted it.
SelectFails == GivesUp

Call ==
  \/ Fgets \/ Gethostbyname \/ TimeoutConnect \/ Disconnect
  \/ \E n \in 1..MaxMessage : Fprintf(n) \/ FprintfTooLong(n)

\* What the process does without being waited for.
Library ==
  \/ FgetsCheck \/ FgetsReadable \/ FgetsByte \/ FgetsEndOfStream \/ FgetsRecvFails
  \/ FwriteCheck \/ FwriteWritable
  \/ (\E n \in 1..toSend : Send(n)) \/ SendRefused \/ SendFails
  \/ CancelAlarm \/ SetHandler \/ SetJump \/ ArmAlarm \/ DisarmAlarm \/ RestoreHandler
  \/ NonBlockingFails \/ ConnectedAtOnce \/ FailedAtOnce \/ ConnectInProgress
  \/ ConnectReady \/ ConnectVerdict
  \/ SelectExpires

World ==
  \/ Tick \/ AlarmRings \/ AppAlarm \/ SelectFails
  \/ ServerCloses \/ LinkSettles \/ NameAnswered
  \/ \E b \in Bytes \cup {LF} : ServerSends(b)

Next == Call \/ Library \/ World

Spec == Init /\ [][Next]_vars

(***************************************************************************)
(* The process runs when it can, time passes, and an alarm that is due     *)
(* and not blocked rings.  Nothing is asked of the server, the name server *)
(* or the network.                                                         *)
(***************************************************************************)
FairSpec == Spec /\ WF_vars(Library) /\ WF_vars(Tick) /\ WF_vars(AlarmRings)

-----------------------------------------------------------------------------
(* Properties                                                              *)

\* No call keeps its caller longer than the time-out and the fraction of a
\* second that time() cuts off, however slowly the server sends: the deadline
\* of sock_fgets and sock_fwrite is set once and not for every byte.  A look-up
\* keeps to it only as long as none has timed out before.
InTime ==
  pc # "idle" /\ (op = "lookup" => ~blocked) => clock < (Timeout + 1) * Ticks

\* "supports time-outs to prevent blocking indefinitely" (NEWS), for each look-up
\* of a process.
LookupsInTime == op = "lookup" /\ pc # "idle" => clock < (Timeout + 1) * Ticks

\* What sock_fwrite has put on the wire is what it takes itself to have sent,
\* and one byte more for every send() that was refused: only if none was is
\* the wire a prefix of the message.
WireAccounts ==
  op = "fwrite" =>
    /\ Len(wire) = total - toSend + refused
    /\ refused = 0 => wire = [i \in 1..(total - toSend) |-> i]
    /\ pc = "idle" /\ count >= 0 => count = Len(wire) - refused

\* Once the library's handler is in place no alarm can ring while there is no
\* frame for it to jump to, and between calls neither the library's handler
\* nor its alarm is left behind.
NoStrayJump ==
  /\ handler = "lib" /\ ~frame => alarm = "off"
  /\ alarm = "lib" => handler = "lib"
  /\ pc = "idle" => handler = "app" /\ ~frame

\* timeout_connect never returns success for a connection still in progress or
\* turned down in the meantime; only one that fails at once is misreported.
ConnectTells ==
  op = "connect" /\ pc = "idle" /\ rv = 0 => link \in {"none", "up", "failed"}

Stream == INSTANCE CddbStreamSpec WITH
  Bytes <- Bytes, LF <- LF, BufSize <- BufSize,
  stream <- stream, closed <- closed, line <- line,
  given <- taken - Len(buf)

\* Reading byte by byte, with a deadline, gives out the lines of the stream in
\* order, each once, as CddbStreamSpec has it.
ImplementsStream == Stream!StreamSpec

\* Every call returns, though the server, the name server and the network may
\* do nothing at all, unless it is a look-up with SIGALRM blocked by an earlier one.
IoReturns == (pc # "idle" /\ (op = "lookup" => ~blocked)) ~> pc = "idle"

=============================================================================
