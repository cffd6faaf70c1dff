--------------------------- MODULE CddbStreamSpec ---------------------------
(***************************************************************************)
(* What sock_fgets promises the code that reads answers: it cuts what the  *)
(* server sends into lines, in order, each given out once.  A line that    *)
(* does not fit the buffer comes in pieces, and the server's hang-up ends  *)
(* the last one.  A read that fails throws away the beginning of the line  *)
(* it was reading.  CddbNet, which reads byte by byte, implements this.    *)
(***************************************************************************)
EXTENDS Integers, Sequences

CONSTANTS Bytes, LF, BufSize

VARIABLES
  stream,   \* what the server has sent on this connection
  closed,   \* it has hung up
  given,    \* how much of it has been read
  line      \* what the last read returned, <<>> for NULL

streamVars == <<stream, closed, given, line>>

StreamInit == stream = <<>> /\ closed = FALSE /\ given = 0 /\ line = <<>>

\* The n bytes after those that were read.
Piece(n) == SubSeq(stream, given + 1, given + n)

\* A newline can only be the last byte of a line.
InOneLine(s) == \A i \in 1..(Len(s) - 1) : s[i] # LF

ServerSends(b) ==
  /\ ~closed
  /\ stream' = Append(stream, b)
  /\ UNCHANGED <<closed, given, line>>

ServerCloses == closed' = TRUE /\ UNCHANGED <<stream, given, line>>

\* A whole line, a piece that fills the buffer, or all that the server left.
ReadLine(n) ==
  /\ given + n <= Len(stream)
  /\ InOneLine(Piece(n))
  /\ \/ Piece(n)[n] = LF
     \/ n = BufSize - 1
     \/ closed /\ given + n = Len(stream)
  /\ line' = Piece(n)
  /\ given' = given + n
  /\ UNCHANGED <<stream, closed>>

ReadFails(n) ==
  /\ given + n <= Len(stream)
  /\ \A i \in 1..n : Piece(n)[i] # LF
  /\ line' = <<>>
  /\ given' = given + n
  /\ UNCHANGED <<stream, closed>>

Reconnect ==
  /\ stream' = <<>> /\ closed' = FALSE /\ given' = 0
  /\ UNCHANGED line

StreamStep ==
  \/ \E b \in Bytes \cup {LF} : ServerSends(b)
  \/ ServerCloses
  \/ \E n \in 1..(BufSize - 1) : ReadLine(n)
  \/ \E n \in 0..(BufSize - 1) : ReadFails(n)
  \/ Reconnect

StreamSpec == StreamInit /\ [][StreamStep]_streamVars

=============================================================================
