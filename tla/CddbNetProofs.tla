---------------------------- MODULE CddbNetProofs ----------------------------
(***************************************************************************)
(* Proofs about cddb_net.c: every call is over within its time-out, no     *)
(* alarm finds a dead frame, what is sent is accounted for, and reading    *)
(* byte by byte implements a stream of lines.                              *)
(***************************************************************************)
EXTENDS CddbNet, SequenceTheorems, TLAPS

ReadStep ==
  \/ Fgets \/ FgetsCheck \/ FgetsReadable \/ FgetsGivesUp
  \/ FgetsByte \/ FgetsEndOfStream \/ FgetsRecvFails

WriteStep ==
  \/ \E n \in 1..MaxMessage : Fprintf(n) \/ FprintfTooLong(n)
  \/ FwriteCheck \/ FwriteWritable \/ FwriteGivesUp
  \/ (\E n \in 1..toSend : Send(n)) \/ SendRefused \/ SendFails

LookupStep ==
  \/ Gethostbyname \/ CancelAlarm \/ SetHandler \/ SetJump \/ ArmAlarm
  \/ NameAnswered \/ DisarmAlarm \/ RestoreHandler

ConnectStep ==
  \/ TimeoutConnect \/ NonBlockingFails \/ ConnectedAtOnce \/ FailedAtOnce
  \/ ConnectInProgress \/ ConnectReady \/ ConnectGivesUp \/ ConnectVerdict

OtherStep ==
  \/ Tick \/ AlarmRings \/ AppAlarm \/ ServerCloses \/ LinkSettles \/ Disconnect
  \/ \E b \in Bytes \cup {LF} : ServerSends(b)

\* The steps by function: every call of select() that finds nothing gives up.
LEMMA NextSteps ==
  ASSUME Next
  PROVE  ReadStep \/ WriteStep \/ LookupStep \/ ConnectStep \/ OtherStep
  BY DEF Next, Call, Library, World, SelectExpires, SelectFails, GivesUp,
         ReadStep, WriteStep, LookupStep, ConnectStep, OtherStep

----------------------------------------------------------------------------
(* Time.                                                                   *)

\* The time-out is some seconds, and a second some ticks.
LEMMA Moments ==
  /\ Timeout * Ticks \in Nat /\ Ticks \in Nat /\ Ticks > 0 /\ Timeout * Ticks >= Ticks
  /\ (Timeout + 1) * Ticks = Timeout * Ticks + Ticks
  /\ MaxClock = Timeout * Ticks + Ticks + Ticks
<1>1. Timeout \in Nat /\ Ticks \in Nat /\ Timeout >= 1 /\ Ticks >= 1
  BY TimeoutAssumption
<1>2. Timeout * Ticks \in Nat /\ Timeout * Ticks >= Ticks
  BY <1>1
<1>3. (Timeout + 1) * Ticks = Timeout * Ticks + Ticks
  BY <1>1
<1>4. (Timeout + 2) * Ticks = Timeout * Ticks + Ticks + Ticks
  BY <1>1
<1> QED
  BY <1>1, <1>2, <1>3, <1>4 DEF MaxClock

\* What time() leaves of the time-out, waited for to the end, is over before the next
\* second is.
LEMMA RemainingBound ==
  ASSUME clock \in Nat, Remaining > 0
  PROVE  /\ Remaining * Ticks \in 0..(Timeout * Ticks)
         /\ clock + Remaining * Ticks < Timeout * Ticks + Ticks
<1> DEFINE q == clock \div Ticks
<1>1. Timeout \in Nat /\ Ticks \in Nat /\ Timeout >= 1 /\ Ticks >= 1
  BY TimeoutAssumption
<1>2. q \in Nat /\ q * Ticks <= clock /\ clock < q * Ticks + Ticks
  BY <1>1
<1>3. Remaining = Timeout - q
  BY DEF Remaining
<1> HIDE DEF q
<1>4. Remaining * Ticks = Timeout * Ticks - q * Ticks
  BY <1>1, <1>2, <1>3
<1>5. q * Ticks \in Nat /\ q * Ticks <= Timeout * Ticks
  BY <1>1, <1>2, <1>3
<1> QED
  BY <1>1, <1>2, <1>4, <1>5, Moments

----------------------------------------------------------------------------
(* Types.                                                                  *)

ReadTypeOK ==
  /\ stream \in Seq(Bytes \cup {LF}) /\ closed \in BOOLEAN
  /\ taken \in 0..Len(stream)
  /\ buf \in Seq(Bytes \cup {LF}) /\ Len(buf) < BufSize
  /\ line \in Seq(Bytes \cup {LF}) /\ Len(line) < BufSize

WriteTypeOK ==
  /\ total \in 0..MaxMessage /\ refused \in 0..MaxRefused
  /\ toSend \in Nat /\ p \in Int /\ wire \in Seq(Int) /\ count \in Int

LookupTypeOK ==
  /\ handler \in {"app", "lib"} /\ alarm \in {"off", "app", "lib"}
  /\ due \in Nat
  /\ frame \in BOOLEAN /\ blocked \in BOOLEAN /\ host \in BOOLEAN /\ host1 \in BOOLEAN

LinkTypeOK ==
  /\ link \in {"none", "made", "pending", "up", "refused", "failed"}
  /\ gotError \in BOOLEAN /\ rv \in {0, -1}

CallTypeOK ==
  /\ op \in Ops /\ pc \in Places
  /\ clock \in 0..MaxClock /\ wait \in 0..(Timeout * Ticks)

\* A byte is only read when the buffer has room for it.
ReadRoom == op = "fgets" /\ pc \in {"select", "io"} => HasRoom

NetTypeInv == NetTypeOK /\ ReadRoom

\* The type invariant is that of the caller, the reader, the writer, the lookup and the link.
LEMMA TypeParts ==
  NetTypeOK <=> CallTypeOK /\ ReadTypeOK /\ WriteTypeOK /\ LookupTypeOK /\ LinkTypeOK
  BY DEF NetTypeOK, CallTypeOK, ReadTypeOK, WriteTypeOK, LookupTypeOK, LinkTypeOK

\* A newline or any other byte behind what is in the buffer.
LEMMA AppendTyped ==
  ASSUME ReadTypeOK, HasRoom, taken < Len(stream)
  PROVE  /\ Append(buf, stream[taken + 1]) \in Seq(Bytes \cup {LF})
         /\ Len(Append(buf, stream[taken + 1])) = Len(buf) + 1
         /\ Len(buf) + 1 < BufSize
         /\ taken + 1 \in 0..Len(stream)
<1>1. taken + 1 \in 1..Len(stream)
  BY DEF ReadTypeOK
<1>2. stream[taken + 1] \in Bytes \cup {LF}
  BY <1>1 DEF ReadTypeOK
<1> QED
  BY <1>1, <1>2, BufSizeAssumption DEF ReadTypeOK, HasRoom

NoBytes == <<>>

\* No bytes are a buffer, a line and a wire.
LEMMA EmptyTyped ==
  /\ NoBytes \in Seq(Bytes \cup {LF}) /\ Len(NoBytes) = 0 /\ Len(NoBytes) < BufSize
  /\ NoBytes \in Seq(Int)
  BY BufSizeAssumption DEF NoBytes

\* A call starts, waits, goes on or returns in time.
LEMMA CallTyped ==
  ASSUME CallTypeOK
  PROVE  /\ \A name \in Ops, place \in Places : Begins(name, place) => CallTypeOK'
         /\ Remaining > 0 /\ Waits => CallTypeOK'
         /\ \A place \in Places : At(place) => CallTypeOK'
         /\ Return => CallTypeOK'
<1>1. ASSUME NEW name \in Ops, NEW place \in Places, Begins(name, place) PROVE CallTypeOK'
  BY <1>1, Moments DEF CallTypeOK, Begins
<1>2. ASSUME Remaining > 0, Waits PROVE CallTypeOK'
  <2>1. Remaining * Ticks \in 0..(Timeout * Ticks)
    BY <1>2, RemainingBound, Moments DEF CallTypeOK
  <2> QED
    BY <1>2, <2>1 DEF CallTypeOK, Waits, Places
<1>3. ASSUME NEW place \in Places, At(place) PROVE CallTypeOK'
  BY <1>3 DEF CallTypeOK, At
<1>4. ASSUME Return PROVE CallTypeOK'
  BY <1>4, Moments DEF CallTypeOK, Return, Places
<1> QED
  BY <1>1, <1>2, <1>3, <1>4

\* sock_fgets keeps the types of the call and of the stream.
LEMMA ReadStepTyped ==
  ASSUME NetTypeInv, ReadStep
  PROVE  CallTypeOK' /\ ReadTypeOK' /\ ReadRoom'
<1>1. CallTypeOK /\ ReadTypeOK
  BY TypeParts DEF NetTypeInv
<1>2. ASSUME NEW s, s \in Seq(Bytes \cup {LF}), Len(s) < BufSize, Delivers(s),
             taken' \in 0..Len(stream)
      PROVE  CallTypeOK' /\ ReadTypeOK' /\ ReadRoom'
  <2>1. CallTypeOK' /\ pc' = "idle"
    BY <1>1, <1>2, CallTyped DEF Delivers, Return
  <2>2. line' = s /\ buf' = NoBytes /\ UNCHANGED serverVars
    BY <1>2 DEF Delivers, Others, NoBytes
  <2>3. ReadTypeOK'
    BY <1>1, <1>2, <2>2, EmptyTyped DEF ReadTypeOK, serverVars
  <2> QED
    BY <2>1, <2>3 DEF ReadRoom
<1>3. taken \in 0..Len(stream) /\ buf \in Seq(Bytes \cup {LF}) /\ Len(buf) < BufSize
  BY <1>1 DEF ReadTypeOK
<1>4. CASE Fgets
  <2>1. CallTypeOK' /\ pc' = "check"
    BY <1>1, <1>4, CallTyped DEF Fgets, Begins, Ops, Places
  <2>2. buf' = NoBytes /\ UNCHANGED <<serverVars, taken, line>>
    BY <1>4 DEF Fgets, Others, NoBytes
  <2>3. ReadTypeOK'
    BY <1>1, <2>2, EmptyTyped DEF ReadTypeOK, serverVars
  <2> QED
    BY <2>1, <2>3 DEF ReadRoom
<1>5. CASE FgetsCheck
  <2>1. CASE ~HasRoom
    BY <1>2, <1>3, <1>5, <2>1 DEF FgetsCheck
  <2>2. CASE HasRoom /\ Remaining <= 0
    <3>1. Delivers(NoBytes) /\ UNCHANGED taken
      BY <1>5, <2>2 DEF FgetsCheck, NoBytes
    <3> QED
      BY <1>2, <1>3, <3>1, EmptyTyped
  <2>3. CASE HasRoom /\ ~(Remaining <= 0)
    <3>1. Waits /\ UNCHANGED <<serverVars, readVars>>
      BY <1>5, <2>3 DEF FgetsCheck, Others
    <3>2. Remaining > 0
      BY <1>1, <2>3, Moments, TimeoutAssumption DEF Remaining, CallTypeOK
    <3> QED
      BY <1>1, <2>3, <3>1, <3>2, CallTyped DEF ReadTypeOK, ReadRoom, HasRoom, serverVars, readVars
  <2> QED
    BY <2>1, <2>2, <2>3
<1>6. CASE FgetsReadable
  <2>1. CallTypeOK'
    BY <1>1, <1>6, CallTyped DEF FgetsReadable, Places
  <2> QED
    BY <1>1, <1>6, <2>1
    DEF FgetsReadable, At, Others, ReadTypeOK, NetTypeInv, ReadRoom, HasRoom, serverVars, readVars
<1>7. CASE FgetsGivesUp \/ FgetsRecvFails
  <2>1. Delivers(NoBytes) /\ UNCHANGED taken
    BY <1>7 DEF FgetsGivesUp, FgetsRecvFails, NoBytes
  <2> QED
    BY <1>2, <1>3, <2>1, EmptyTyped
<1>8. CASE FgetsByte
  <2> DEFINE s == Append(buf, stream[taken + 1])
  <2>1. HasRoom /\ taken < Len(stream)
    BY <1>8 DEF FgetsByte, NetTypeInv, ReadRoom
  <2>2. s \in Seq(Bytes \cup {LF}) /\ Len(s) < BufSize /\ taken + 1 \in 0..Len(stream)
    BY <1>1, <2>1, AppendTyped
  <2>3. taken' = taken + 1
    BY <1>8 DEF FgetsByte
  <2>4. CASE Delivers(s)
    BY <1>2, <2>2, <2>3, <2>4
  <2>5. CASE buf' = s /\ At("check") /\ Others(writeVars) /\ UNCHANGED line
    <3>1. CallTypeOK' /\ pc' = "check"
      BY <1>1, <2>5, CallTyped DEF Places, At
    <3>2. ReadTypeOK'
      BY <1>1, <2>2, <2>3, <2>5 DEF ReadTypeOK, Others, serverVars
    <3> QED
      BY <3>1, <3>2 DEF ReadRoom
  <2> QED
    BY <1>8, <2>4, <2>5 DEF FgetsByte
<1>9. CASE FgetsEndOfStream
  BY <1>2, <1>3, <1>9 DEF FgetsEndOfStream
<1> QED
  BY <1>4, <1>5, <1>6, <1>7, <1>8, <1>9 DEF ReadStep

\* sock_vfprintf and sock_fwrite keep those of the call and of the message.
LEMMA WriteStepTyped ==
  ASSUME NetTypeInv, WriteStep
  PROVE  CallTypeOK' /\ WriteTypeOK'
<1>1. CallTypeOK /\ WriteTypeOK
  BY TypeParts DEF NetTypeInv
<1>2. MaxMessage \in Nat /\ MaxRefused \in Nat /\ 0 \in 0..MaxMessage /\ 0 \in 0..MaxRefused
  BY BoundsAssumption
<1>3. ASSUME NEW n \in 1..MaxMessage, Fprintf(n) \/ FprintfTooLong(n)
      PROVE  CallTypeOK' /\ WriteTypeOK'
  <2>1. CallTypeOK'
    BY <1>1, <1>3, CallTyped DEF Fprintf, FprintfTooLong, Ops, Places
  <2>2. /\ total' \in 0..MaxMessage /\ toSend' \in Nat /\ p' = 1 /\ wire' = NoBytes
        /\ refused' = 0 /\ count' \in Int
    BY <1>2, <1>3 DEF Fprintf, FprintfTooLong, NoBytes
  <2> QED
    BY <1>2, <2>1, <2>2, EmptyTyped DEF WriteTypeOK
<1>4. ASSUME FwriteReturns PROVE CallTypeOK' /\ WriteTypeOK'
  <2>1. CallTypeOK'
    BY <1>1, <1>4, CallTyped DEF FwriteReturns
  <2> QED
    BY <1>1, <1>4, <2>1 DEF FwriteReturns, WriteTypeOK
<1>5. CASE FwriteCheck
  <2>1. CASE FwriteReturns
    BY <1>4, <2>1
  <2>2. CASE ~FwriteReturns
    <3>1. Waits /\ UNCHANGED writeVars /\ ~(Remaining <= 0)
      BY <1>5, <2>2 DEF FwriteCheck
    <3>2. Remaining > 0
      BY <1>1, <3>1, Moments, TimeoutAssumption DEF Remaining, CallTypeOK
    <3> QED
      BY <1>1, <3>1, <3>2, CallTyped DEF WriteTypeOK, writeVars
  <2> QED
    BY <2>1, <2>2
<1>6. CASE FwriteWritable
  <2>1. CallTypeOK'
    BY <1>1, <1>6, CallTyped DEF FwriteWritable, Places
  <2> QED
    BY <1>1, <1>6, <2>1 DEF FwriteWritable, WriteTypeOK, writeVars
<1>7. CASE FwriteGivesUp \/ SendFails
  BY <1>4, <1>7 DEF FwriteGivesUp, SendFails
<1>8. ASSUME NEW n \in 1..toSend, Send(n) PROVE CallTypeOK' /\ WriteTypeOK'
  <2>1. CallTypeOK'
    BY <1>1, <1>8, CallTyped DEF Send, Places
  <2>2. toSend' = toSend - n /\ p' = p + n /\ UNCHANGED <<total, refused, count>>
    BY <1>8 DEF Send
  <2>3. [i \in 1..n |-> p + i - 1] \in Seq(Int)
    BY <1>1 DEF WriteTypeOK
  <2>4. wire' \in Seq(Int)
    BY <1>1, <1>8, <2>3 DEF Send, WriteTypeOK
  <2> QED
    BY <1>1, <2>1, <2>2, <2>4 DEF WriteTypeOK
<1>9. CASE SendRefused
  <2>1. CallTypeOK'
    BY <1>1, <1>9, CallTyped DEF SendRefused, Places
  <2> QED
    BY <1>1, <1>2, <1>9, <2>1 DEF SendRefused, WriteTypeOK
<1> QED
  BY <1>3, <1>5, <1>6, <1>7, <1>8, <1>9 DEF WriteStep

\* timeout_gethostbyname keeps those of the call and of the alarm.
LEMMA LookupStepTyped ==
  ASSUME NetTypeInv, LookupStep
  PROVE  CallTypeOK' /\ LookupTypeOK'
<1>1. CallTypeOK /\ LookupTypeOK
  BY TypeParts DEF NetTypeInv
<1>2. CallTypeOK'
  BY <1>1, CallTyped
  DEF LookupStep, Gethostbyname, CancelAlarm, SetHandler, SetJump, ArmAlarm, NameAnswered,
      DisarmAlarm, RestoreHandler, Ops, Places
<1>3. clock + Timeout * Ticks \in Nat
  BY <1>1, Moments DEF CallTypeOK
<1>4. handler' \in {"app", "lib"} /\ alarm' \in {"off", "app", "lib"} /\ due' \in Nat
  BY <1>1, <1>3
  DEF LookupStep, Gethostbyname, CancelAlarm, SetHandler, SetJump, ArmAlarm, NameAnswered,
      DisarmAlarm, RestoreHandler, LookupTypeOK
<1>5. frame' \in BOOLEAN /\ blocked' \in BOOLEAN
  BY <1>1
  DEF LookupStep, Gethostbyname, CancelAlarm, SetHandler, SetJump, ArmAlarm, NameAnswered,
      DisarmAlarm, RestoreHandler, InLookup, LookupTypeOK
<1>6. host' \in BOOLEAN /\ host1' \in BOOLEAN
  BY <1>1, Zenon
  DEF LookupStep, Gethostbyname, CancelAlarm, SetHandler, SetJump, ArmAlarm, NameAnswered,
      DisarmAlarm, RestoreHandler, LookupTypeOK
<1> QED
  BY <1>2, <1>4, <1>5, <1>6 DEF LookupTypeOK

\* timeout_connect keeps those of the call, the host it is given and the link.
LEMMA ConnectStepTyped ==
  ASSUME NetTypeInv, ConnectStep
  PROVE  CallTypeOK' /\ LookupTypeOK' /\ LinkTypeOK'
<1>1. CallTypeOK /\ LookupTypeOK /\ LinkTypeOK
  BY TypeParts DEF NetTypeInv
<1>2. CASE ConnectInProgress
  <2>1. CallTypeOK'
    BY <1>1, <1>2, Moments DEF ConnectInProgress, CallTypeOK, Places
  <2> QED
    BY <1>1, <1>2, <2>1 DEF ConnectInProgress, InConnect, LinkTypeOK, LookupTypeOK, lookupVars
<1>3. CASE ~ConnectInProgress
  <2>1. CallTypeOK'
    BY <1>1, <1>3, CallTyped
    DEF ConnectStep, TimeoutConnect, NonBlockingFails, ConnectedAtOnce, FailedAtOnce,
        ConnectReady, ConnectGivesUp, ConnectVerdict, Ops, Places
  <2>2. LinkTypeOK'
    BY <1>1, <1>3
    DEF ConnectStep, TimeoutConnect, NonBlockingFails, ConnectedAtOnce, FailedAtOnce,
        ConnectReady, ConnectGivesUp, ConnectVerdict, LinkTypeOK, linkVars
  <2>3. LookupTypeOK'
    BY <1>1, <1>3
    DEF ConnectStep, TimeoutConnect, NonBlockingFails, ConnectedAtOnce, FailedAtOnce,
        ConnectReady, ConnectGivesUp, ConnectVerdict, InConnect, LookupTypeOK, lookupVars
  <2> QED
    BY <2>1, <2>2, <2>3
<1> QED
  BY <1>2, <1>3

\* The clock, the server, the network, an alarm and cddb_disconnect keep them all.
LEMMA OtherStepTyped ==
  ASSUME NetTypeInv, OtherStep
  PROVE  NetTypeOK' /\ ReadRoom'
<1>1. CallTypeOK /\ ReadTypeOK /\ WriteTypeOK /\ LookupTypeOK /\ LinkTypeOK /\ ReadRoom
  BY TypeParts DEF NetTypeInv
<1> USE <1>1 DEF CallTypeOK, ReadTypeOK, WriteTypeOK, LookupTypeOK, LinkTypeOK,
        callVars, serverVars, readVars, writeVars, lookupVars, linkVars
<1>2. CASE Tick
  <2>1. clock' \in 0..MaxClock /\ wait' \in 0..(Timeout * Ticks)
    BY <1>2, Moments DEF Tick
  <2> QED
    BY <1>2, <2>1, TypeParts DEF Tick, ReadRoom, HasRoom, NetTypeOK
<1>3. CASE AlarmRings
  <2>1. /\ pc' \in Places /\ host1' \in BOOLEAN /\ blocked' \in BOOLEAN /\ alarm' = "off"
        /\ ReadRoom'
    BY <1>3 DEF AlarmRings, ReadRoom, HasRoom, Places
  <2> QED
    BY <1>3, <2>1 DEF AlarmRings, NetTypeOK
<1>4. CASE AppAlarm
  BY <1>4 DEF AppAlarm, ReadRoom, HasRoom, NetTypeOK
<1>5. CASE ServerCloses
  BY <1>5 DEF ServerCloses, ReadRoom, HasRoom, NetTypeOK
<1>6. CASE LinkSettles
  BY <1>6 DEF LinkSettles, ReadRoom, HasRoom, NetTypeOK
<1>7. CASE Disconnect
  <2>1. stream' = NoBytes /\ taken' = 0
    BY <1>7 DEF Disconnect, NoBytes
  <2>2. stream' \in Seq(Bytes \cup {LF}) /\ taken' \in 0..Len(stream')
    BY <2>1, EmptyTyped
  <2> QED
    BY <1>7, <2>2 DEF Disconnect, ReadRoom, HasRoom, NetTypeOK
<1>8. ASSUME NEW b \in Bytes \cup {LF}, ServerSends(b) PROVE NetTypeOK' /\ ReadRoom'
  <2>1. stream' \in Seq(Bytes \cup {LF}) /\ Len(stream') = Len(stream) + 1
    BY <1>8 DEF ServerSends
  <2>2. taken' \in 0..Len(stream')
    BY <1>8, <2>1 DEF ServerSends
  <2> QED
    BY <1>8, <2>1, <2>2 DEF ServerSends, ReadRoom, HasRoom, NetTypeOK
<1> QED
  BY <1>2, <1>3, <1>4, <1>5, <1>6, <1>7, <1>8 DEF OtherStep

\* Every step keeps the types and reads a byte only when there is room for it.
LEMMA NextTyped ==
  ASSUME NetTypeInv, [Next]_vars
  PROVE  NetTypeInv'
<1>1. CallTypeOK /\ ReadTypeOK /\ WriteTypeOK /\ LookupTypeOK /\ LinkTypeOK /\ ReadRoom
  BY TypeParts DEF NetTypeInv
<1>2. ASSUME CallTypeOK', ReadTypeOK', WriteTypeOK', LookupTypeOK', LinkTypeOK', ReadRoom'
      PROVE  NetTypeInv'
  BY <1>2 DEF CallTypeOK, ReadTypeOK, WriteTypeOK, LookupTypeOK, LinkTypeOK, NetTypeInv, NetTypeOK
<1>3. UNCHANGED <<serverVars, readVars>> => ReadTypeOK'
  BY <1>1 DEF ReadTypeOK, serverVars, readVars
<1>4. UNCHANGED writeVars => WriteTypeOK'
  BY <1>1 DEF WriteTypeOK, writeVars
<1>5. UNCHANGED lookupVars => LookupTypeOK'
  BY <1>1 DEF LookupTypeOK, lookupVars
<1>6. UNCHANGED linkVars => LinkTypeOK'
  BY <1>1 DEF LinkTypeOK, linkVars
<1>7. op' # "fgets" => ReadRoom'
  BY DEF ReadRoom
<1>8. CASE ReadStep
  <2>1. UNCHANGED <<writeVars, lookupVars, linkVars>>
    BY <1>8 DEF ReadStep, Fgets, FgetsCheck, FgetsReadable, FgetsGivesUp, FgetsByte,
                FgetsEndOfStream, FgetsRecvFails, Delivers, Others
  <2> QED
    BY <1>2, <1>4, <1>5, <1>6, <1>8, <2>1, ReadStepTyped
<1>9. CASE WriteStep
  <2>1. UNCHANGED <<serverVars, readVars, lookupVars, linkVars>> /\ op' = "fwrite"
    BY <1>9 DEF WriteStep, Fprintf, FprintfTooLong, FwriteCheck, FwriteWritable, FwriteGivesUp,
                Send, SendRefused, SendFails, FwriteReturns, Others, Begins, Return, Waits, At
  <2> QED
    BY <1>2, <1>3, <1>5, <1>6, <1>7, <1>9, <2>1, WriteStepTyped
<1>10. CASE LookupStep
  <2>1. UNCHANGED <<serverVars, readVars, writeVars, linkVars>> /\ op' = "lookup"
    BY <1>10 DEF LookupStep, Gethostbyname, CancelAlarm, SetHandler, SetJump, ArmAlarm,
                 NameAnswered, DisarmAlarm, RestoreHandler, InLookup, Begins, At, Return
  <2> QED
    BY <1>2, <1>3, <1>4, <1>6, <1>7, <1>10, <2>1, LookupStepTyped
<1>11. CASE ConnectStep
  <2>1. UNCHANGED <<serverVars, readVars, writeVars>> /\ op' = "connect"
    BY <1>11 DEF ConnectStep, TimeoutConnect, NonBlockingFails, ConnectedAtOnce, FailedAtOnce,
                 ConnectInProgress, ConnectReady, ConnectGivesUp, ConnectVerdict, InConnect,
                 Begins, At, Return
  <2> QED
    BY <1>2, <1>3, <1>4, <1>7, <1>11, <2>1, ConnectStepTyped
<1>12. CASE OtherStep
  BY <1>12, OtherStepTyped DEF NetTypeInv
<1>13. CASE UNCHANGED vars
  BY <1>13 DEF vars, callVars, serverVars, readVars, writeVars, lookupVars, linkVars,
               NetTypeInv, NetTypeOK, ReadRoom, HasRoom
<1> QED
  BY <1>8, <1>9, <1>10, <1>11, <1>12, <1>13, NextSteps

\* The types hold at first.
LEMMA InitTyped ==
  ASSUME Init
  PROVE  NetTypeInv
<1>1. CallTypeOK
  BY Moments DEF Init, CallTypeOK, Ops, Places
<1>2. stream = NoBytes /\ buf = NoBytes /\ line = NoBytes /\ wire = NoBytes
  BY DEF Init, NoBytes
<1>3. ReadTypeOK
  <2>1. taken = 0 /\ closed \in BOOLEAN
    BY DEF Init
  <2>2. /\ stream \in Seq(Bytes \cup {LF}) /\ taken \in 0..Len(stream)
        /\ buf \in Seq(Bytes \cup {LF}) /\ Len(buf) < BufSize
        /\ line \in Seq(Bytes \cup {LF}) /\ Len(line) < BufSize
    BY <1>2, <2>1, EmptyTyped
  <2> QED
    BY <2>1, <2>2 DEF ReadTypeOK
<1>4. WriteTypeOK
  BY <1>2, EmptyTyped, BoundsAssumption DEF Init, WriteTypeOK
<1>5. LookupTypeOK /\ LinkTypeOK
  BY DEF Init, LookupTypeOK, LinkTypeOK
<1>6. ReadRoom
  BY DEF Init, ReadRoom
<1> QED
  BY <1>1, <1>3, <1>4, <1>5, <1>6, TypeParts DEF NetTypeInv

\* The state of cddb_net.c keeps its types, whatever the server, the network and the
\* clock do: no line is longer than its buffer, nothing is taken that was not sent.
THEOREM NetTypes == Spec => []NetTypeOK
<1>1. Init => NetTypeInv
  BY InitTyped
<1>2. NetTypeInv /\ [Next]_vars => NetTypeInv'
  BY NextTyped
<1>3. NetTypeInv => NetTypeOK
  BY DEF NetTypeInv
<1> QED
  BY <1>1, <1>2, <1>3, PTL DEF Spec

----------------------------------------------------------------------------
(* The alarm of timeout_gethostbyname.                                     *)

LookupPlaces == {"cancel", "handle", "setjmp", "arm", "query", "disarm", "restore"}

\* Whose handler and alarm are set, and whether there is a frame, at each place.
AlarmInv ==
  /\ pc \in LookupPlaces => op = "lookup"
  /\ pc \notin LookupPlaces \/ pc = "cancel" => handler = "app" /\ ~frame /\ alarm # "lib"
  /\ pc = "handle" => handler = "app" /\ ~frame /\ alarm = "off"
  /\ pc = "setjmp" => handler = "lib" /\ ~frame /\ alarm = "off"
  /\ pc \in {"arm", "restore"} => handler = "lib" /\ frame /\ alarm = "off"
  /\ pc \in {"query", "disarm"} => handler = "lib" /\ frame /\ alarm = "lib"

\* No step sets a handler, an alarm or a frame out of turn.
LEMMA AlarmNext ==
  ASSUME NetTypeOK, AlarmInv, [Next]_vars
  PROVE  AlarmInv'
<1> USE DEF AlarmInv, LookupPlaces
<1>1. ASSUME UNCHANGED lookupVars, pc \notin LookupPlaces, pc' \notin LookupPlaces
      PROVE  AlarmInv'
  BY <1>1 DEF lookupVars
<1>2. CASE ReadStep
  <2>1. UNCHANGED lookupVars
    BY <1>2 DEF ReadStep, Fgets, FgetsCheck, FgetsReadable, FgetsGivesUp, FgetsByte,
                FgetsEndOfStream, FgetsRecvFails, Delivers, Others
  <2>2. pc \notin LookupPlaces /\ pc' \notin LookupPlaces
    BY <1>2 DEF ReadStep, Fgets, FgetsCheck, FgetsReadable, FgetsGivesUp, FgetsByte,
                FgetsEndOfStream, FgetsRecvFails, Delivers, Begins, Waits, At, Return
  <2> QED
    BY <1>1, <2>1, <2>2
<1>3. CASE WriteStep
  <2>1. UNCHANGED lookupVars
    BY <1>3 DEF WriteStep, Fprintf, FprintfTooLong, FwriteCheck, FwriteWritable, FwriteGivesUp,
                Send, SendRefused, SendFails, FwriteReturns, Others
  <2>2. pc \notin LookupPlaces /\ pc' \notin LookupPlaces
    BY <1>3 DEF WriteStep, Fprintf, FprintfTooLong, FwriteCheck, FwriteWritable, FwriteGivesUp,
                Send, SendRefused, SendFails, FwriteReturns, Begins, Waits, At, Return
  <2> QED
    BY <1>1, <2>1, <2>2
<1>4. CASE LookupStep
  <2>1. CASE Gethostbyname
    BY <2>1 DEF Gethostbyname, Begins
  <2>2. CASE CancelAlarm
    BY <2>2 DEF CancelAlarm, InLookup, At
  <2>3. CASE SetHandler
    BY <2>3 DEF SetHandler, InLookup, At
  <2>4. CASE SetJump
    BY <2>4 DEF SetJump, InLookup, At
  <2>5. CASE ArmAlarm
    BY <2>5 DEF ArmAlarm, InLookup, At
  <2>6. CASE NameAnswered
    BY <2>6 DEF NameAnswered, InLookup, At
  <2>7. CASE DisarmAlarm
    BY <2>7 DEF DisarmAlarm, InLookup, At
  <2>8. CASE RestoreHandler
    BY <2>8 DEF RestoreHandler, InLookup, Return
  <2> QED
    BY <1>4, <2>1, <2>2, <2>3, <2>4, <2>5, <2>6, <2>7, <2>8 DEF LookupStep
<1>5. CASE ConnectStep
  <2>1. UNCHANGED <<handler, alarm, frame>>
    BY <1>5 DEF ConnectStep, TimeoutConnect, NonBlockingFails, ConnectedAtOnce, FailedAtOnce,
                ConnectInProgress, ConnectReady, ConnectGivesUp, ConnectVerdict, InConnect, lookupVars
  <2>2. pc \notin LookupPlaces /\ pc' \notin LookupPlaces
    BY <1>5 DEF ConnectStep, TimeoutConnect, NonBlockingFails, ConnectedAtOnce, FailedAtOnce,
                ConnectInProgress, ConnectReady, ConnectGivesUp, ConnectVerdict, InConnect,
                Begins, At, Return
  <2> QED
    BY <2>1, <2>2
<1>6. CASE AlarmRings
  <2>1. alarm # "off" /\ alarm' = "off" /\ UNCHANGED <<op, handler, frame>>
    BY <1>6 DEF AlarmRings, Due
  <2>2. CASE handler = "lib"
    <3>1. pc' = "restore" /\ pc \in {"query", "disarm"}
      BY <1>6, <2>1, <2>2 DEF AlarmRings, NetTypeOK, Places
    <3>. QED
      BY <2>1, <2>2, <3>1
  <2>3. CASE handler # "lib"
    <3>1. pc' = pc
      BY <1>6, <2>3 DEF AlarmRings
    <3>. QED
      BY <2>1, <2>3, <3>1
  <2>. QED
    BY <2>2, <2>3
<1>7. CASE AppAlarm
  BY <1>7 DEF AppAlarm, callVars
<1>8. CASE OtherStep /\ ~AlarmRings /\ ~AppAlarm
  <2>1. UNCHANGED <<op, pc, handler, alarm, frame>>
    BY <1>8 DEF OtherStep, Tick, ServerCloses, LinkSettles, Disconnect, ServerSends,
                callVars, lookupVars
  <2> QED
    BY <2>1
<1>9. CASE UNCHANGED vars
  BY <1>9 DEF vars, callVars, lookupVars
<1> QED
  BY <1>2, <1>3, <1>4, <1>5, <1>6, <1>7, <1>8, <1>9, NextSteps

----------------------------------------------------------------------------
(* How long a call takes.                                                  *)

\* The part of a second a call starts in is over last; what select() may still wait
\* and what the alarm leaves are within the time-out, unless the alarm is blocked.
TimeInv ==
  /\ pc # "idle" /\ (op = "lookup" => ~blocked) => clock < Timeout * Ticks + Ticks
  /\ pc = "select" => clock + wait < Timeout * Ticks + Ticks
  /\ pc \in {"start", "cancel", "handle", "setjmp", "arm"} => clock < Ticks
  /\ pc = "query" => due < Timeout * Ticks + Ticks /\ (~blocked => clock <= due)

\* No step makes a call wait beyond its deadline.
LEMMA TimeNext ==
  ASSUME NetTypeOK, AlarmInv, TimeInv, [Next]_vars
  PROVE  TimeInv'
<1>1. clock \in Nat /\ wait \in Nat /\ due \in Nat /\ Ticks \in Nat /\ Timeout * Ticks \in Nat
      /\ Ticks > 0 /\ Timeout * Ticks >= Ticks
  BY Moments DEF NetTypeOK
<1>2. ASSUME NEW place \in {"check", "io", "disarm", "restore", "verdict"}, At(place), pc # "idle",
             blocked' = blocked
      PROVE  TimeInv'
  BY <1>2 DEF At, TimeInv
<1>3. Return => TimeInv'
  BY DEF Return, TimeInv
<1>4. ASSUME Remaining > 0, Waits PROVE TimeInv'
  <2>1. clock + Remaining * Ticks < Timeout * Ticks + Ticks /\ Remaining * Ticks \in Nat
    BY <1>1, <1>4, RemainingBound
  <2>2. pc' = "select" /\ clock' = clock /\ wait' = Remaining * Ticks
    BY <1>4 DEF Waits
  <2> QED
    BY <1>1, <2>1, <2>2 DEF TimeInv
<1>5. ASSUME NEW name, NEW place \in {"check", "cancel", "start"}, Begins(name, place)
      PROVE  TimeInv'
  <2>1. clock' \in 0..(Ticks - 1) /\ pc' = place
    BY <1>5 DEF Begins
  <2> QED
    BY <1>1, <2>1 DEF TimeInv
<1>6. Remaining \in Int
  BY <1>1, TimeoutAssumption DEF Remaining
<1>7. CASE ReadStep
  <2>0. blocked' = blocked
    BY <1>7
    DEF ReadStep, Fgets, FgetsCheck, FgetsReadable, FgetsGivesUp, FgetsByte,
        FgetsEndOfStream, FgetsRecvFails, Delivers, Others, lookupVars
  <2>1. \/ Begins("fgets", "check") \/ Return \/ (Remaining > 0 /\ Waits)
        \/ (pc # "idle" /\ (At("io") \/ At("check")))
    BY <1>6, <1>7
    DEF ReadStep, Fgets, FgetsCheck, FgetsReadable, FgetsGivesUp, FgetsByte,
        FgetsEndOfStream, FgetsRecvFails, Delivers
  <2> QED
    BY <1>2, <1>3, <1>4, <1>5, <2>0, <2>1
<1>8. CASE WriteStep
  <2>0. blocked' = blocked
    BY <1>8
    DEF WriteStep, Fprintf, FprintfTooLong, FwriteCheck, FwriteWritable, FwriteGivesUp,
        Send, SendRefused, SendFails, FwriteReturns, Others, lookupVars
  <2>1. ASSUME NEW n, FprintfTooLong(n) PROVE TimeInv'
    BY <1>1, <2>1 DEF FprintfTooLong, Begins, TimeInv
  <2>2. \/ Begins("fwrite", "check") \/ Return \/ (Remaining > 0 /\ Waits)
        \/ (pc # "idle" /\ (At("io") \/ At("check")))
        \/ \E n : FprintfTooLong(n)
    BY <1>6, <1>8
    DEF WriteStep, Fprintf, FwriteCheck, FwriteWritable, FwriteGivesUp,
        Send, SendRefused, SendFails, FwriteReturns
  <2> QED
    BY <1>2, <1>3, <1>4, <1>5, <2>0, <2>1, <2>2
<1>9. CASE LookupStep
  <2>1. CASE Gethostbyname
    BY <1>5, <2>1 DEF Gethostbyname
  <2>2. CASE CancelAlarm \/ SetHandler \/ SetJump
    BY <2>2 DEF CancelAlarm, SetHandler, SetJump, InLookup, At, TimeInv
  <2>3. CASE ArmAlarm
    <3>1. /\ clock < Ticks /\ clock' = clock /\ pc' = "query"
          /\ due' = clock + Timeout * Ticks
      BY <2>3 DEF ArmAlarm, InLookup, At, TimeInv
    <3> QED
      BY <1>1, <3>1 DEF TimeInv
  <2>4. CASE NameAnswered \/ DisarmAlarm
    BY <1>2, <2>4 DEF NameAnswered, DisarmAlarm, InLookup
  <2>5. CASE RestoreHandler
    BY <1>3, <2>5 DEF RestoreHandler
  <2> QED
    BY <1>9, <2>1, <2>2, <2>3, <2>4, <2>5 DEF LookupStep
<1>10. CASE ConnectStep
  <2>1. CASE ConnectInProgress
    <3>1. clock < Ticks /\ clock' = clock /\ pc' = "select" /\ wait' = Timeout * Ticks
      BY <2>1 DEF ConnectInProgress, InConnect, TimeInv
    <3> QED
      BY <1>1, <3>1 DEF TimeInv
  <2>2. CASE ~ConnectInProgress
    <3>1. Begins("connect", "start") \/ Return \/ (pc # "idle" /\ At("verdict"))
      BY <1>10, <2>2
      DEF ConnectStep, TimeoutConnect, NonBlockingFails, ConnectedAtOnce, FailedAtOnce,
          ConnectReady, ConnectGivesUp, ConnectVerdict, InConnect
    <3>2. blocked' = blocked
      BY <1>10
      DEF ConnectStep, TimeoutConnect, NonBlockingFails, ConnectedAtOnce, FailedAtOnce,
          ConnectInProgress, ConnectReady, ConnectGivesUp, ConnectVerdict, InConnect, lookupVars
    <3> QED
      BY <1>2, <1>3, <1>5, <3>1, <3>2
  <2> QED
    BY <2>1, <2>2
<1>11. CASE Tick
  <2>1. CASE pc = "select"
    <3>1. wait > 0 /\ clock' = clock + 1 /\ wait' = wait - 1 /\ pc' = pc
      BY <1>11, <2>1 DEF Tick
    <3> QED
      BY <1>1, <2>1, <3>1 DEF TimeInv
  <2>2. CASE pc = "query"
    <3>1. /\ ~blocked => clock < due
          /\ clock' = clock + 1 /\ UNCHANGED <<op, pc, due, blocked>> /\ op = "lookup"
      BY <1>1, <1>11, <2>2 DEF Tick, Due, AlarmInv, LookupPlaces, lookupVars
    <3> QED
      BY <1>1, <2>2, <3>1 DEF TimeInv
  <2> QED
    BY <1>11, <2>1, <2>2 DEF Tick
<1>12. CASE AlarmRings
  BY <1>12 DEF AlarmRings, AlarmInv, LookupPlaces, TimeInv
<1>13. CASE OtherStep /\ ~Tick /\ ~AlarmRings
  <2>1. UNCHANGED <<op, pc, clock, wait, due, blocked>>
    BY <1>13 DEF OtherStep, AppAlarm, ServerCloses, LinkSettles, Disconnect, ServerSends,
                 callVars, lookupVars
  <2> QED
    BY <2>1 DEF TimeInv
<1>14. CASE UNCHANGED vars
  BY <1>14 DEF vars, callVars, lookupVars, TimeInv
<1> QED
  BY <1>7, <1>8, <1>9, <1>10, <1>11, <1>12, <1>13, <1>14, NextSteps DEF OtherStep

----------------------------------------------------------------------------
(* What timeout_connect returns.                                           *)

ConnectInv ==
  /\ op = "connect" /\ pc = "verdict" => gotError \/ link \in {"up", "refused"}
  /\ ConnectTells

\* Every step leaves what timeout_connect returned true of the link.
LEMMA ConnectNext ==
  ASSUME NetTypeOK, AlarmInv, ConnectInv, [Next]_vars
  PROVE  ConnectInv'
<1> USE DEF ConnectInv, ConnectTells
<1>1. op' # "connect" => ConnectInv'
  OBVIOUS
<1>2. CASE ReadStep
  BY <1>2 DEF ReadStep, Fgets, FgetsCheck, FgetsReadable, FgetsGivesUp, FgetsByte,
              FgetsEndOfStream, FgetsRecvFails, Delivers, Begins, Waits, At, Return
<1>3. CASE WriteStep
  BY <1>3 DEF WriteStep, Fprintf, FprintfTooLong, FwriteCheck, FwriteWritable, FwriteGivesUp,
              Send, SendRefused, SendFails, FwriteReturns, Begins, Waits, At, Return
<1>4. CASE LookupStep
  BY <1>4 DEF LookupStep, Gethostbyname, CancelAlarm, SetHandler, SetJump, ArmAlarm,
              NameAnswered, DisarmAlarm, RestoreHandler, InLookup, Begins, At, Return
<1>5. CASE ConnectStep
  <2>1. CASE TimeoutConnect \/ ConnectInProgress
    BY <2>1 DEF TimeoutConnect, ConnectInProgress, InConnect, Begins
  <2>2. CASE NonBlockingFails \/ ConnectedAtOnce \/ FailedAtOnce
    BY <2>2 DEF NonBlockingFails, ConnectedAtOnce, FailedAtOnce, InConnect, Return
  <2>3. CASE ConnectReady
    BY <2>3 DEF ConnectReady, InConnect, At, linkVars
  <2>4. CASE ConnectGivesUp
    BY <2>4 DEF ConnectGivesUp, InConnect, At
  <2>5. CASE ConnectVerdict
    BY <2>5 DEF ConnectVerdict, InConnect, Return
  <2> QED
    BY <1>5, <2>1, <2>2, <2>3, <2>4, <2>5 DEF ConnectStep
<1>6. CASE AlarmRings
  BY <1>6 DEF AlarmRings, linkVars
<1>7. CASE LinkSettles
  BY <1>7 DEF LinkSettles, callVars
<1>8. CASE Disconnect
  BY <1>8 DEF Disconnect, callVars
<1>9. CASE OtherStep /\ ~AlarmRings /\ ~LinkSettles /\ ~Disconnect
  <2>1. UNCHANGED <<op, pc, linkVars>>
    BY <1>9 DEF OtherStep, Tick, AppAlarm, ServerCloses, ServerSends, callVars
  <2> QED
    BY <2>1 DEF linkVars
<1>10. CASE UNCHANGED vars
  BY <1>10 DEF vars, callVars, linkVars
<1> QED
  BY <1>2, <1>3, <1>4, <1>5, <1>6, <1>7, <1>8, <1>9, <1>10, NextSteps

CallInv == NetTypeInv /\ AlarmInv /\ TimeInv /\ ConnectInv

\* The parts of the invariant hold of every behaviour.
LEMMA CallInvariant == Spec => []CallInv
<1>1. Init => CallInv
  <2> SUFFICES ASSUME Init PROVE CallInv
    OBVIOUS
  <2>1. NetTypeInv
    BY InitTyped
  <2>2. AlarmInv /\ TimeInv
    BY DEF Init, AlarmInv, LookupPlaces, TimeInv
  <2>3. ConnectInv
    BY DEF Init, ConnectInv, ConnectTells
  <2> QED
    BY <2>1, <2>2, <2>3 DEF CallInv
<1>2. CallInv /\ [Next]_vars => CallInv'
  BY NextTyped, AlarmNext, TimeNext, ConnectNext DEF CallInv, NetTypeInv
<1> QED
  BY <1>1, <1>2, PTL DEF Spec

\* No call takes longer than its time-out and the part of a second time() cuts off,
\* for any time-out, buffer and message (sock_fgets, sock_fwrite, timeout_connect),
\* and no look-up does (timeout_gethostbyname) until one has timed out.
THEOREM CallsInTime == Spec => []InTime
<1>1. CallInv => InTime
  BY Moments DEF CallInv, TimeInv, InTime
<1> QED
  BY <1>1, CallInvariant, PTL

\* No alarm, the library's or the application's, rings with the library's handler in
\* place and no frame to jump to, and no call leaves either behind
\* (timeout_gethostbyname).
THEOREM AlarmsFindFrame == Spec => []NoStrayJump
<1>1. CallInv => NoStrayJump
  BY DEF CallInv, NetTypeInv, NetTypeOK, AlarmInv, LookupPlaces, NoStrayJump, Places
<1> QED
  BY <1>1, CallInvariant, PTL

\* timeout_connect returns success only for a connection that is made or that failed
\* at once.
THEOREM ConnectSaysSo == Spec => []ConnectTells
<1>1. CallInv => ConnectTells
  BY DEF CallInv, ConnectInv
<1> QED
  BY <1>1, CallInvariant, PTL

----------------------------------------------------------------------------
(* What sock_fwrite accounts for.                                          *)

\* The first k positions of a message.
Prefix(k) == [i \in 1..k |-> i]

\* Sending the next n bytes of a message makes a longer prefix of it.
LEMMA PrefixGrows ==
  ASSUME NEW k \in Nat, NEW n \in Nat
  PROVE  /\ Prefix(k) \in Seq(Int) /\ Len(Prefix(k)) = k
         /\ Prefix(k) \o [i \in 1..n |-> k + 1 + i - 1] = Prefix(k + n)
<1> DEFINE t == [i \in 1..n |-> k + 1 + i - 1]
<1>1. Prefix(k) \in Seq(Int) /\ Len(Prefix(k)) = k
  BY DEF Prefix
<1>2. t \in Seq(Int) /\ Len(t) = n /\ \A j \in 1..n : t[j] = k + j
  OBVIOUS
<1> HIDE DEF t
<1> DEFINE s == Prefix(k) \o t
<1>3. /\ s \in Seq(Int) /\ Len(s) = Len(Prefix(k)) + Len(t)
      /\ \A i \in 1..(Len(Prefix(k)) + Len(t)) :
           s[i] = IF i <= Len(Prefix(k)) THEN Prefix(k)[i] ELSE t[i - Len(Prefix(k))]
  <2>1. Prefix(k) \in Seq(Int) /\ t \in Seq(Int)
    BY <1>1, <1>2
  <2> QED
    BY <2>1, ConcatProperties, Zenon
<1> HIDE DEF s
<1>4. /\ s \in Seq(Int) /\ Len(s) = k + n
      /\ \A i \in 1..(k + n) : s[i] = IF i <= k THEN Prefix(k)[i] ELSE t[i - k]
  BY <1>1, <1>2, <1>3
<1>5. ASSUME NEW i \in 1..(k + n) PROVE s[i] = i
  <2>1. CASE i <= k
    BY <1>4, <2>1 DEF Prefix
  <2>2. CASE ~(i <= k)
    <3>1. i - k \in 1..n
      BY <2>2
    <3>2. t[i - k] = i
      BY <1>2, <3>1
    <3> QED
      BY <1>4, <2>2, <3>2
  <2> QED
    BY <2>1, <2>2
<1>6. s = Prefix(k + n)
  BY <1>4, <1>5 DEF Prefix
<1> QED
  BY <1>1, <1>6 DEF s, t

\* Nothing has been sent.
LEMMA PrefixEmpty == Prefix(0) = NoBytes /\ Len(NoBytes) = 0
  BY DEF Prefix, NoBytes

\* p is behind the bytes sock_fwrite takes itself to have sent.
WireInv ==
  op = "fwrite" =>
    /\ p = total - toSend + 1
    /\ Len(wire) = total - toSend + refused
    /\ refused = 0 => toSend <= total /\ wire = Prefix(total - toSend)
    /\ pc = "idle" /\ count >= 0 => count = Len(wire) - refused

\* Every step keeps the account of what was sent.
LEMMA WireNext ==
  ASSUME NetTypeOK, AlarmInv, WireInv, [Next]_vars
  PROVE  WireInv'
<1>1. /\ total \in Nat /\ refused \in Nat /\ toSend \in Nat /\ p \in Int
      /\ wire \in Seq(Int) /\ Len(wire) \in Nat
  BY BoundsAssumption DEF NetTypeOK
<1>2. op' # "fwrite" => WireInv'
  BY DEF WireInv
<1>3. ASSUME UNCHANGED <<op, writeVars>>, pc' = "idle" => pc = "idle" PROVE WireInv'
  BY <1>3 DEF WireInv, writeVars
<1>4. CASE WriteStep
  <2>1. ASSUME NEW n \in 1..MaxMessage, Fprintf(n) \/ FprintfTooLong(n) PROVE WireInv'
    <3>1. /\ wire' = NoBytes /\ p' = 1 /\ refused' = 0
          /\ \E k \in Nat : total' = k /\ toSend' = k
      BY <2>1, BoundsAssumption DEF Fprintf, FprintfTooLong, NoBytes
    <3>2. PICK k \in Nat : total' = k /\ toSend' = k
      BY <3>1
    <3>3. total' - toSend' = 0 /\ toSend' <= total'
      BY <3>2
    <3>4. p' = total' - toSend' + 1
      BY <3>1, <3>3
    <3>5. Len(wire') = total' - toSend' + refused' /\ wire' = Prefix(total' - toSend')
      BY <3>1, <3>3, PrefixEmpty
    <3>6. pc' = "idle" => ~(count' >= 0)
      BY <2>1 DEF Fprintf, FprintfTooLong, Begins
    <3> QED
      BY <3>3, <3>4, <3>5, <3>6 DEF WireInv
  <2>2. ASSUME FwriteReturns, op = "fwrite" PROVE WireInv'
    BY <1>1, <2>2 DEF FwriteReturns, Return, WireInv
  <2>3. CASE FwriteCheck
    <3>1. CASE FwriteReturns
      BY <2>2, <2>3, <3>1 DEF FwriteCheck
    <3>2. CASE ~FwriteReturns
      BY <1>3, <2>3, <3>2 DEF FwriteCheck, Waits
    <3> QED
      BY <3>1, <3>2
  <2>4. CASE FwriteWritable
    BY <1>3, <2>4 DEF FwriteWritable, At
  <2>5. CASE FwriteGivesUp \/ SendFails
    BY <2>2, <2>5 DEF FwriteGivesUp, SendFails
  <2>6. ASSUME NEW n \in 1..toSend, Send(n) PROVE WireInv'
    <3> DEFINE t == [i \in 1..n |-> p + i - 1]
    <3>1. /\ op = "fwrite" /\ pc' = "check" /\ wire' = wire \o t
          /\ toSend' = toSend - n /\ p' = p + n /\ total' = total /\ refused' = refused
      BY <2>6 DEF Send, At
    <3>2. n \in Nat /\ t \in Seq(Int) /\ Len(t) = n
      BY <1>1
    <3> HIDE DEF t
    <3>3. Len(wire') = Len(wire) + n
      BY <1>1, <3>1, <3>2, ConcatProperties
    <3>4. p = total - toSend + 1 /\ Len(wire) = total - toSend + refused
      BY <3>1 DEF WireInv
    <3>5. p' = total' - toSend' + 1 /\ Len(wire') = total' - toSend' + refused'
      BY <1>1, <3>1, <3>2, <3>3, <3>4
    <3>6. ASSUME refused = 0 PROVE toSend' <= total' /\ wire' = Prefix(total' - toSend')
      <4> DEFINE k == total - toSend
      <4>1. k \in Nat /\ wire = Prefix(k) /\ p = k + 1
        BY <1>1, <3>1, <3>6 DEF WireInv
      <4>2. total' - toSend' = k + n /\ toSend' <= total'
        BY <1>1, <3>1, <3>2, <4>1
      <4> HIDE DEF k
      <4>3. t = [i \in 1..n |-> k + 1 + i - 1]
        BY <4>1 DEF t
      <4>4. Prefix(k) \o t = Prefix(k + n)
        BY <3>2, <4>1, <4>3, PrefixGrows
      <4> QED
        BY <3>1, <4>1, <4>2, <4>4
    <3> QED
      BY <3>1, <3>5, <3>6 DEF WireInv
  <2>7. CASE SendRefused
    <3>1. /\ op = "fwrite" /\ pc' = "check" /\ wire' = wire /\ total' = total
          /\ toSend' = toSend + 1 /\ p' = p - 1 /\ refused' = refused + 1
      BY <2>7 DEF SendRefused, At
    <3> QED
      BY <1>1, <3>1 DEF WireInv
  <2> QED
    BY <1>4, <2>1, <2>3, <2>4, <2>5, <2>6, <2>7 DEF WriteStep
<1>5. CASE ReadStep
  <2>1. op' = "fgets"
    BY <1>5 DEF ReadStep, Fgets, FgetsCheck, FgetsReadable, FgetsGivesUp, FgetsByte,
                FgetsEndOfStream, FgetsRecvFails, Delivers, Begins, Waits, At, Return
  <2> QED
    BY <1>2, <2>1
<1>6. CASE LookupStep
  <2>1. op' = "lookup"
    BY <1>6 DEF LookupStep, Gethostbyname, CancelAlarm, SetHandler, SetJump, ArmAlarm,
                NameAnswered, DisarmAlarm, RestoreHandler, InLookup, Begins, At, Return
  <2> QED
    BY <1>2, <2>1
<1>7. CASE ConnectStep
  <2>1. op' = "connect"
    BY <1>7 DEF ConnectStep, TimeoutConnect, NonBlockingFails, ConnectedAtOnce, FailedAtOnce,
                ConnectInProgress, ConnectReady, ConnectGivesUp, ConnectVerdict, InConnect,
                Begins, At, Return
  <2> QED
    BY <1>2, <2>1
<1>8. CASE AlarmRings
  <2>1. UNCHANGED <<op, writeVars>> /\ (pc' # "idle" \/ pc' = pc)
    BY <1>8 DEF AlarmRings
  <2> QED
    BY <1>3, <2>1
<1>9. CASE OtherStep /\ ~AlarmRings
  <2>1. UNCHANGED <<op, pc, writeVars>>
    BY <1>9 DEF OtherStep, Tick, AppAlarm, ServerCloses, LinkSettles, Disconnect, ServerSends,
                callVars
  <2> QED
    BY <1>3, <2>1
<1>10. CASE UNCHANGED vars
  BY <1>3, <1>10 DEF vars, callVars
<1> QED
  BY <1>4, <1>5, <1>6, <1>7, <1>8, <1>9, <1>10, NextSteps

\* What sock_fwrite has put on the wire is what it takes itself to have sent, and one
\* byte more for every refusal, for every message, buffer and number of refusals.
THEOREM WireAccounted == Spec => []WireAccounts
<1>1. Init => WireInv
  BY DEF Init, WireInv
<1>2. CallInv /\ WireInv /\ [Next]_vars => WireInv'
  BY WireNext DEF CallInv, NetTypeInv
<1>3. WireInv => WireAccounts
  BY DEF WireInv, WireAccounts, Prefix
<1> QED
  BY <1>1, <1>2, <1>3, CallInvariant, PTL DEF Spec

----------------------------------------------------------------------------
(* Reading byte by byte implements reading lines.                          *)

\* The buffer holds the bytes last taken, none of them a newline, and is empty between
\* two reads.
BufInv ==
  /\ Len(buf) <= taken
  /\ \A i \in 1..Len(buf) : buf[i] = stream[taken - Len(buf) + i] /\ buf[i] # LF
  /\ ~(op = "fgets" /\ pc \in {"check", "select", "io"}) => buf = NoBytes

\* Bytes that follow one another in a sequence are a piece of it.
LEMMA PieceOf ==
  ASSUME NEW S, NEW s \in Seq(S), NEW t \in Seq(S), NEW g \in Nat, NEW n \in Nat,
         n = Len(t), g + n <= Len(s), \A i \in 1..n : t[i] = s[g + i]
  PROVE  SubSeq(s, g + 1, g + n) = t
<1> DEFINE u == SubSeq(s, g + 1, g + n)
<1>1. \A i \in (g + 1)..(g + n) : s[i] \in S
  OBVIOUS
<1>2. g + 1 \in Int /\ g + n \in Int /\ (g + n) - (g + 1) + 1 = n
  OBVIOUS
<1>3. /\ u \in Seq(S)
      /\ Len(u) = IF g + 1 <= g + n THEN (g + n) - (g + 1) + 1 ELSE 0
      /\ \A i \in 1..((g + n) - (g + 1) + 1) : u[i] = s[(g + 1) + i - 1]
  BY <1>1, <1>2, SubSeqProperties
<1> HIDE DEF u
<1>4. Len(u) = n /\ \A i \in 1..n : u[i] = t[i]
  <2>1. Len(u) = n
    BY <1>2, <1>3
  <2>2. ASSUME NEW i \in 1..n PROVE u[i] = t[i]
    <3>1. (g + 1) + i - 1 = g + i
      OBVIOUS
    <3>. QED
      BY <1>2, <1>3, <3>1
  <2>. QED
    BY <2>1, <2>2
<1>5. Len(u) = Len(t) /\ \A i \in 1..Len(u) : u[i] = t[i]
  BY <1>4
<1>6. u = t
  BY <1>3, <1>5
<1> QED
  BY <1>6 DEF u

\* A step of reading, as the stream of lines sees it.
StreamMoves == Stream!StreamStep \/ UNCHANGED Stream!streamVars

\* What is in the buffer is the next piece of the stream.
LEMMA BufIsPiece ==
  ASSUME ReadTypeOK, BufInv
  PROVE  /\ taken - Len(buf) \in Nat /\ Len(buf) \in 0..(BufSize - 1)
         /\ taken - Len(buf) + Len(buf) = taken /\ taken <= Len(stream)
         /\ Stream!Piece(Len(buf)) = buf
<1> DEFINE n == Len(buf)
           g == taken - n
<1>1. /\ taken \in Nat /\ taken <= Len(stream) /\ n \in Nat /\ n < BufSize
      /\ stream \in Seq(Bytes \cup {LF}) /\ buf \in Seq(Bytes \cup {LF})
  BY DEF ReadTypeOK
<1>2. g \in Nat /\ g + n = taken /\ n \in 0..(BufSize - 1)
  BY <1>1, BufSizeAssumption DEF BufInv
<1>3. \A i \in 1..n : buf[i] = stream[g + i]
  BY DEF BufInv
<1> HIDE DEF g
<1>4. SubSeq(stream, g + 1, g + n) = buf
  BY <1>1, <1>2, <1>3, PieceOf
<1> QED
  BY <1>1, <1>2, <1>4 DEF g, Stream!Piece

\* A read that fails gives out nothing and throws away what is in the buffer.
LEMMA FailIsFail ==
  ASSUME ReadTypeOK, BufInv, UNCHANGED <<serverVars, taken>>, line' = NoBytes, buf' = NoBytes
  PROVE  Stream!StreamStep
<1>1. /\ taken - Len(buf) \in Nat /\ Len(buf) \in 0..(BufSize - 1)
      /\ taken - Len(buf) + Len(buf) = taken /\ taken <= Len(stream)
      /\ Stream!Piece(Len(buf)) = buf
  BY BufIsPiece
<1>2. (taken - Len(buf))' = taken - Len(buf) + Len(buf)
  BY <1>1, EmptyTyped
<1>3. \A i \in 1..Len(buf) : buf[i] # LF
  BY DEF BufInv
<1>4. Stream!ReadFails(Len(buf))
  BY <1>1, <1>2, <1>3 DEF Stream!ReadFails, NoBytes, serverVars
<1> QED
  BY <1>1, <1>4 DEF Stream!StreamStep

\* What fills the buffer, or is all the server left, is given out as a line; nothing is
\* nothing.
LEMMA PartIsLine ==
  ASSUME ReadTypeOK, BufInv, UNCHANGED <<serverVars, taken>>, line' = buf, buf' = NoBytes,
         Len(buf) = BufSize - 1 \/ (closed /\ taken = Len(stream))
  PROVE  Stream!StreamStep
<1>1. /\ taken - Len(buf) \in Nat /\ Len(buf) \in 0..(BufSize - 1)
      /\ taken - Len(buf) + Len(buf) = taken /\ taken <= Len(stream)
      /\ Stream!Piece(Len(buf)) = buf
  BY BufIsPiece
<1>2. CASE Len(buf) = 0
  <2>1. buf = NoBytes
    BY <1>2 DEF ReadTypeOK, NoBytes
  <2> QED
    BY <2>1, FailIsFail
<1>3. CASE Len(buf) # 0
  <2>1. (taken - Len(buf))' = taken - Len(buf) + Len(buf)
    BY <1>1, EmptyTyped
  <2>2. Stream!InOneLine(buf)
    BY <1>1 DEF Stream!InOneLine, BufInv
  <2>3. Stream!ReadLine(Len(buf))
    BY <1>1, <2>1, <2>2 DEF Stream!ReadLine, serverVars
  <2>4. Len(buf) \in 1..(BufSize - 1)
    BY <1>1, <1>3, BufSizeAssumption
  <2> QED
    BY <2>3, <2>4 DEF Stream!StreamStep
<1> QED
  BY <1>2, <1>3

\* The byte recv() takes: a newline ends the line, another is kept in the buffer.
LEMMA ByteMoves ==
  ASSUME ReadTypeOK, BufInv, ReadRoom, FgetsByte
  PROVE  BufInv' /\ StreamMoves
<1> DEFINE n == Len(buf)
           g == taken - n
           b == stream[taken + 1]
           s == Append(buf, b)
<1>1. /\ HasRoom /\ taken < Len(stream) /\ taken' = taken + 1
      /\ UNCHANGED serverVars
  BY DEF FgetsByte, ReadRoom, Delivers, Others
<1>2. g \in Nat /\ n \in 0..(BufSize - 1) /\ g + n = taken /\ taken \in Nat
  BY BufIsPiece DEF ReadTypeOK
<1>3. /\ s \in Seq(Bytes \cup {LF}) /\ Len(s) = n + 1
      /\ \A i \in 1..n : s[i] = buf[i]
      /\ s[n + 1] = b
  <2>1. buf \in Seq(Bytes \cup {LF}) /\ b \in Bytes \cup {LF}
    BY <1>1, <1>2 DEF ReadTypeOK
  <2> QED
    BY <2>1, AppendProperties
<1>4. /\ stream \in Seq(Bytes \cup {LF}) /\ Len(stream) \in Nat
      /\ \A i \in 1..n : buf[i] = stream[g + i] /\ buf[i] # LF
  BY DEF ReadTypeOK, BufInv
<1>5. n + 1 \in 1..(BufSize - 1)
  BY <1>1, <1>2, BufSizeAssumption DEF HasRoom
<1> HIDE DEF g, s
<1>6. g + (n + 1) = taken + 1 /\ g + (n + 1) <= Len(stream)
  BY <1>1, <1>2, <1>4
<1>7. \A i \in 1..(n + 1) : s[i] = stream[g + i]
  <2>1. ASSUME NEW i \in 1..(n + 1) PROVE s[i] = stream[g + i]
    <3>1. CASE i = n + 1
      BY <1>3, <1>6, <3>1
    <3>2. CASE i # n + 1
      <4>1. i \in 1..n
        BY <1>2, <3>2
      <4> QED
        BY <1>3, <1>4, <4>1
    <3> QED
      BY <3>1, <3>2
  <2> QED
    BY <2>1
<1>8. CASE b = LF
  <2>1. Return /\ line' = s /\ buf' = NoBytes
    BY <1>8 DEF FgetsByte, Delivers, NoBytes, s
  <2>2. SubSeq(stream, g + 1, g + (n + 1)) = s
    BY <1>2, <1>3, <1>4, <1>6, <1>7, PieceOf
  <2>3. Stream!Piece(n + 1) = s
    BY <2>2 DEF Stream!Piece, g
  <2>4. \A i \in 1..n : s[i] # LF
    BY <1>3, <1>4
  <2>5. Stream!InOneLine(s)
    BY <1>2, <1>3, <2>4 DEF Stream!InOneLine
  <2>6. (taken - Len(buf))' = g + (n + 1)
    BY <1>1, <1>2, <1>6, <2>1, EmptyTyped
  <2>7. Stream!ReadLine(n + 1)
    BY <1>1, <1>3, <1>6, <1>8, <2>1, <2>3, <2>5, <2>6 DEF Stream!ReadLine, serverVars, g
  <2>8. StreamMoves
    BY <1>5, <2>7 DEF StreamMoves, Stream!StreamStep
  <2> QED
    BY <1>1, <1>2, <2>1, <2>8, EmptyTyped DEF BufInv, Return
<1>9. CASE b # LF
  <2>1. buf' = s /\ At("check") /\ line' = line /\ op = "fgets"
    BY <1>9 DEF FgetsByte, s
  <2>2. (taken - Len(buf))' = g
    BY <1>1, <1>2, <1>3, <2>1 DEF g
  <2>3. StreamMoves
    BY <1>1, <2>1, <2>2 DEF StreamMoves, Stream!streamVars, serverVars, g
  <2>4. Len(buf') = n + 1 /\ n + 1 <= taken'
    BY <1>1, <1>2, <1>3, <2>1 DEF g
  <2>5. taken' - Len(buf') = g
    BY <1>1, <1>2, <1>6, <2>4
  <2>6. \A i \in 1..(n + 1) : buf'[i] = stream'[g + i] /\ buf'[i] # LF
    <3>1. ASSUME NEW i \in 1..(n + 1) PROVE s[i] # LF
      <4>1. CASE i = n + 1
        BY <1>3, <1>9, <4>1
      <4>2. CASE i # n + 1
        <5>1. i \in 1..n
          BY <1>2, <4>2
        <5> QED
          BY <1>3, <1>4, <5>1
      <4> QED
        BY <4>1, <4>2
    <3> QED
      BY <1>1, <1>7, <2>1, <3>1 DEF serverVars
  <2>7. op' = "fgets" /\ pc' = "check"
    BY <2>1 DEF At
  <2> HIDE DEF b, n
  <2>8. BufInv'
    BY <2>4, <2>5, <2>6, <2>7 DEF BufInv
  <2> QED
    BY <2>3, <2>8
<1> QED
  BY <1>8, <1>9

\* A step that leaves the buffer, the stream and the line alone is none of reading.
LEMMA StreamStutters ==
  ASSUME BufInv, UNCHANGED <<serverVars, readVars>>,
         UNCHANGED <<op, pc>> \/ buf = NoBytes
  PROVE  BufInv' /\ StreamMoves
<1>1. BufInv'
  BY DEF BufInv, serverVars, readVars
<1>2. StreamMoves
  BY DEF StreamMoves, Stream!streamVars, serverVars, readVars
<1> QED
  BY <1>1, <1>2

\* Every step of sock_fgets keeps the buffer a piece of the stream and is a read of it or none.
LEMMA ReadMoves ==
  ASSUME ReadTypeOK, BufInv, ReadRoom, ReadStep
  PROVE  BufInv' /\ StreamMoves
<1>1. ASSUME UNCHANGED <<serverVars, taken>>, buf' = NoBytes PROVE BufInv'
  BY <1>1, EmptyTyped DEF BufInv, ReadTypeOK
<1>2. ASSUME Delivers(NoBytes), UNCHANGED taken PROVE BufInv' /\ StreamMoves
  <2>1. UNCHANGED <<serverVars, taken>> /\ line' = NoBytes /\ buf' = NoBytes
    BY <1>2 DEF Delivers, Others, NoBytes
  <2> QED
    BY <1>1, <2>1, FailIsFail DEF StreamMoves
<1>3. ASSUME Delivers(buf), UNCHANGED taken,
             Len(buf) = BufSize - 1 \/ (closed /\ taken = Len(stream))
      PROVE  BufInv' /\ StreamMoves
  <2>1. UNCHANGED <<serverVars, taken>> /\ line' = buf /\ buf' = NoBytes
    BY <1>3 DEF Delivers, Others, NoBytes
  <2> QED
    BY <1>1, <1>3, <2>1, PartIsLine DEF StreamMoves
<1>4. CASE Fgets
  <2>1. buf = NoBytes /\ UNCHANGED <<serverVars, readVars>>
    BY <1>4 DEF Fgets, Begins, BufInv, Others, NoBytes, readVars
  <2> QED
    BY <2>1, StreamStutters
<1>5. CASE FgetsCheck
  <2>1. CASE ~HasRoom
    <3>1. Len(buf) = BufSize - 1
      BY <2>1, BufSizeAssumption DEF HasRoom, ReadTypeOK
    <3> QED
      BY <1>3, <1>5, <2>1, <3>1 DEF FgetsCheck
  <2>2. CASE HasRoom /\ Remaining <= 0
    BY <1>2, <1>5, <2>2 DEF FgetsCheck, NoBytes
  <2>3. CASE HasRoom /\ ~(Remaining <= 0)
    <3>1. /\ op' = op /\ op = "fgets" /\ pc' = "select" /\ pc = "check"
          /\ UNCHANGED <<serverVars, readVars>>
      BY <1>5, <2>3 DEF FgetsCheck, Waits, Others
    <3> QED
      BY <3>1 DEF BufInv, StreamMoves, Stream!streamVars, serverVars, readVars
  <2> QED
    BY <2>1, <2>2, <2>3
<1>6. CASE FgetsReadable
  <2>1. /\ op' = op /\ op = "fgets" /\ pc' = "io" /\ pc = "select"
        /\ UNCHANGED <<serverVars, readVars>>
    BY <1>6 DEF FgetsReadable, At, Others
  <2> QED
    BY <2>1 DEF BufInv, StreamMoves, Stream!streamVars, serverVars, readVars
<1>7. CASE FgetsGivesUp \/ FgetsRecvFails
  BY <1>2, <1>7 DEF FgetsGivesUp, FgetsRecvFails, NoBytes
<1>8. CASE FgetsByte
  BY <1>8, ByteMoves
<1>9. CASE FgetsEndOfStream
  BY <1>3, <1>9 DEF FgetsEndOfStream
<1> QED
  BY <1>4, <1>5, <1>6, <1>7, <1>8, <1>9 DEF ReadStep

\* The server sends, hangs up, or is disconnected from.
LEMMA OtherMoves ==
  ASSUME NetTypeInv, AlarmInv, BufInv, OtherStep
  PROVE  BufInv' /\ StreamMoves
<1>1. ReadTypeOK
  BY TypeParts DEF NetTypeInv
<1>2. CASE Tick \/ AppAlarm \/ LinkSettles
  <2>1. UNCHANGED <<serverVars, readVars, op, pc>>
    BY <1>2 DEF Tick, AppAlarm, LinkSettles, callVars
  <2> QED
    BY <2>1, StreamStutters
<1>3. CASE AlarmRings
  <2>1. UNCHANGED <<serverVars, readVars, op>>
    BY <1>3 DEF AlarmRings
  <2>2. UNCHANGED pc \/ op = "lookup"
    BY <1>3 DEF AlarmRings, AlarmInv, LookupPlaces
  <2>3. CASE op = "lookup"
    <3>1. buf = NoBytes
      BY <2>3 DEF BufInv
    <3> QED
      BY <2>1, <3>1, StreamStutters
  <2>4. CASE UNCHANGED pc
    BY <2>1, <2>4, StreamStutters
  <2> QED
    BY <2>2, <2>3, <2>4
<1>4. CASE ServerCloses
  <2>1. closed' = TRUE /\ UNCHANGED <<stream, readVars, op, pc>>
    BY <1>4 DEF ServerCloses, callVars
  <2>2. BufInv'
    BY <2>1 DEF BufInv, readVars
  <2>3. Stream!ServerCloses
    BY <2>1 DEF Stream!ServerCloses, readVars
  <2> QED
    BY <2>2, <2>3 DEF StreamMoves, Stream!StreamStep
<1>5. CASE Disconnect
  <2>1. /\ stream' = <<>> /\ closed' = FALSE /\ taken' = 0 /\ buf = NoBytes
        /\ UNCHANGED <<buf, line, op, pc>>
    BY <1>5 DEF Disconnect, BufInv, callVars
  <2>2. BufInv' /\ (taken - Len(buf))' = 0
    BY <2>1, EmptyTyped DEF BufInv
  <2>3. Stream!Reconnect
    BY <2>1, <2>2 DEF Stream!Reconnect
  <2> QED
    BY <2>2, <2>3 DEF StreamMoves, Stream!StreamStep
<1>6. ASSUME NEW b \in Bytes \cup {LF}, ServerSends(b) PROVE BufInv' /\ StreamMoves
  <2>1. stream' = Append(stream, b) /\ ~closed /\ UNCHANGED <<closed, readVars, op, pc>>
    BY <1>6 DEF ServerSends, callVars
  <2>2. Stream!ServerSends(b)
    BY <2>1 DEF Stream!ServerSends, readVars
  <2>3. \A j \in 1..Len(stream) : stream'[j] = stream[j]
    BY <1>1, <2>1, AppendProperties DEF ReadTypeOK
  <2>4. \A i \in 1..Len(buf) : taken - Len(buf) + i \in 1..Len(stream)
    BY <1>1 DEF ReadTypeOK, BufInv
  <2>5. BufInv'
    BY <2>1, <2>3, <2>4 DEF BufInv, readVars
  <2> QED
    BY <2>2, <2>5 DEF StreamMoves, Stream!StreamStep
<1> QED
  BY <1>2, <1>3, <1>4, <1>5, <1>6 DEF OtherStep

\* Every step of CddbNet is a step of CddbStreamSpec or leaves the stream alone.
LEMMA StreamNext ==
  ASSUME NetTypeInv, AlarmInv, BufInv, [Next]_vars
  PROVE  BufInv' /\ StreamMoves
<1>1. ReadTypeOK /\ ReadRoom
  BY TypeParts DEF NetTypeInv
<1>2. CASE ReadStep
  BY <1>1, <1>2, ReadMoves
<1>3. CASE WriteStep
  <2>1. UNCHANGED <<serverVars, readVars>>
    BY <1>3 DEF WriteStep, Fprintf, FprintfTooLong, FwriteCheck, FwriteWritable, FwriteGivesUp,
                Send, SendRefused, SendFails, FwriteReturns, Others
  <2>2. pc = "idle" \/ op = "fwrite"
    BY <1>3 DEF WriteStep, Fprintf, FprintfTooLong, FwriteCheck, FwriteWritable, FwriteGivesUp,
                Send, SendRefused, SendFails, Begins
  <2> QED
    BY <2>1, <2>2, StreamStutters DEF BufInv
<1>4. CASE LookupStep
  <2>1. UNCHANGED <<serverVars, readVars>>
    BY <1>4 DEF LookupStep, Gethostbyname, CancelAlarm, SetHandler, SetJump, ArmAlarm,
                NameAnswered, DisarmAlarm, RestoreHandler, InLookup
  <2>2. pc = "idle" \/ op = "lookup"
    BY <1>4 DEF LookupStep, Gethostbyname, CancelAlarm, SetHandler, SetJump, ArmAlarm,
                NameAnswered, DisarmAlarm, RestoreHandler, InLookup, Begins
  <2> QED
    BY <2>1, <2>2, StreamStutters DEF BufInv
<1>5. CASE ConnectStep
  <2>1. UNCHANGED <<serverVars, readVars>>
    BY <1>5 DEF ConnectStep, TimeoutConnect, NonBlockingFails, ConnectedAtOnce, FailedAtOnce,
                ConnectInProgress, ConnectReady, ConnectGivesUp, ConnectVerdict, InConnect
  <2>2. pc = "idle" \/ op = "connect"
    BY <1>5 DEF ConnectStep, TimeoutConnect, NonBlockingFails, ConnectedAtOnce, FailedAtOnce,
                ConnectInProgress, ConnectReady, ConnectGivesUp, ConnectVerdict, InConnect, Begins
  <2> QED
    BY <2>1, <2>2, StreamStutters DEF BufInv
<1>6. CASE OtherStep
  BY <1>6, OtherMoves
<1>7. CASE UNCHANGED vars
  <2>1. UNCHANGED <<serverVars, readVars, op, pc>>
    BY <1>7 DEF vars, callVars
  <2> QED
    BY <2>1, StreamStutters
<1> QED
  BY <1>2, <1>3, <1>4, <1>5, <1>6, <1>7, NextSteps

\* sock_fgets, which reads byte by byte with a deadline, gives out the lines of the
\* stream in order, each once: CddbNet implements CddbStreamSpec.
THEOREM ReadsImplementStream == Spec => ImplementsStream
<1>1. Init => BufInv /\ Stream!StreamInit
  <2> SUFFICES ASSUME Init PROVE BufInv /\ Stream!StreamInit
    OBVIOUS
  <2>1. stream = <<>> /\ closed = FALSE /\ line = <<>> /\ taken = 0 /\ buf = NoBytes
    BY DEF Init, NoBytes
  <2>2. taken - Len(buf) = 0 /\ BufInv
    BY <2>1, EmptyTyped DEF BufInv
  <2> QED
    BY <2>1, <2>2 DEF Stream!StreamInit
<1>2. CallInv /\ BufInv /\ [Next]_vars => BufInv' /\ [Stream!StreamStep]_(Stream!streamVars)
  BY StreamNext DEF CallInv, StreamMoves
<1> QED
  BY <1>1, <1>2, CallInvariant, PTL DEF Spec, ImplementsStream, Stream!StreamSpec

=============================================================================
