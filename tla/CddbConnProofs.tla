--------------------------- MODULE CddbConnProofs ---------------------------
(***************************************************************************)
(* Proofs about CddbConn, for any set of servers, any answers and any      *)
(* number of calls: the types; that a connection on which no answer was    *)
(* abandoned stays in step with its server (SyncInv is an inductive        *)
(* invariant, and InSync follows from it); and what a call of cddb_cmd.c   *)
(* leaves behind when it returns.                                          *)
(***************************************************************************)
EXTENDS CddbConn, SequenceTheorems, TLAPS

----------------------------------------------------------------------------
(* Sequences.                                                              *)

\* What is known of a sequence that has a head.
LEMMA HeadAndTail ==
  ASSUME NEW S, NEW s \in Seq(S), s # <<>>
  PROVE  /\ Len(s) \in Nat /\ Len(s) > 0
         /\ Head(s) = s[1] /\ Head(s) \in S /\ 1 \in DOMAIN s
         /\ Tail(s) \in Seq(S) /\ Len(Tail(s)) = Len(s) - 1
         /\ \A i \in DOMAIN Tail(s) : i + 1 \in DOMAIN s /\ Tail(s)[i] = s[i + 1]
  OBVIOUS

\* A sequence of n equal elements.
LEMMA ConstantSeq ==
  ASSUME NEW S, NEW e \in S, NEW n \in Nat, NEW b, b = [i \in 1..n |-> e]
  PROVE  /\ b \in Seq(S) /\ Len(b) = n
         /\ \A i \in 1..n : b[i] = e
<1>1. b \in [1..n -> S] /\ DOMAIN b = 1..n /\ \A i \in 1..n : b[i] = e
  OBVIOUS
<1>2. b \in Seq(S)
  BY <1>1, SeqDef
<1>3. DOMAIN b = 1..Len(b) /\ Len(b) \in Nat
  BY <1>2, LenProperties
<1>4. Len(b) = n
  <2>. HIDE <1>1, <1>2, <1>3
  <2>1. 1..n = 1..Len(b)
    BY <1>1, <1>3
  <2>. QED
    BY <2>1, <1>3
<1>. QED
  BY <1>1, <1>2, <1>4

\* A sequence with its first and last elements set apart.
LEMMA FramedSeq ==
  ASSUME NEW S, NEW x \in S, NEW z \in S, NEW b \in Seq(S), NEW s,
         s = <<x>> \o b \o <<z>>
  PROVE  /\ s \in Seq(S) /\ Len(s) = Len(b) + 2
         /\ s[1] = x /\ s[Len(b) + 2] = z
         /\ \A i \in 2..(Len(b) + 1) : s[i] = b[i - 1]
<1> DEFINE f == <<x>>
           l == <<z>>
           fb == f \o b
<1>1. /\ f \in Seq(S) /\ Len(f) = 1 /\ f[1] = x
      /\ l \in Seq(S) /\ Len(l) = 1 /\ l[1] = z
      /\ Len(b) \in Nat
  OBVIOUS
<1>. HIDE DEF f, l
<1>2. /\ fb \in Seq(S) /\ Len(fb) = 1 + Len(b)
      /\ \A i \in 1..(1 + Len(b)) : fb[i] = IF i <= 1 THEN f[i] ELSE b[i - 1]
  <2>1. /\ f \o b \in Seq(S) /\ Len(f \o b) = Len(f) + Len(b)
        /\ \A i \in 1..(Len(f) + Len(b)) :
             (f \o b)[i] = IF i <= Len(f) THEN f[i] ELSE b[i - Len(f)]
    BY <1>1, ConcatProperties
  <2>. QED
    BY <1>1, <2>1
<1>. HIDE DEF fb
<1>3. /\ fb \o l \in Seq(S) /\ Len(fb \o l) = Len(b) + 2
      /\ \A i \in 1..(Len(b) + 2) :
           (fb \o l)[i] = IF i <= Len(fb) THEN fb[i] ELSE l[i - Len(fb)]
  BY <1>1, <1>2, ConcatProperties
<1>4. s = fb \o l
  BY DEF f, l, fb
<1>. QED
  BY <1>1, <1>2, <1>3, <1>4

\* A line torn by a time-out leaves a line.
LEMMA UnreadType ==
  ASSUME rx \in Seq(Lines)
  PROVE  Unread \subseteq Seq(Lines)
<1>1. CASE rx = <<>>
  BY <1>1 DEF Unread
<1>2. CASE rx # <<>>
  <2>1. ASSUME NEW t \in Torn(Head(rx)) PROVE <<t>> \o Tail(rx) \in Seq(Lines)
    <3>1. Head(rx) \in Lines /\ Tail(rx) \in Seq(Lines)
      BY <1>2, HeadAndTail
    <3>2. t \in Lines
      BY <2>1, <3>1, SMTT(30) DEF Torn, Lines, Kinds
    <3>. QED
      BY <3>1, <3>2
  <2>. QED
    BY <1>2, <2>1 DEF Unread
<1>. QED
  BY <1>1, <1>2

\* The lines of an answer, the last of which, and only that one, completes it.
LEMMA AnswersShape ==
  ASSUME NEW m \in Messages, NEW code \in Nat, NEW lines \in Answers(m, code)
  PROVE  /\ lines \in Seq(Lines)
         /\ lines # <<>>
         /\ \A i \in DOMAIN lines :
              /\ lines[i].for = m.for
              /\ lines[i].last <=> i = Len(lines)
              /\ lines[i].kind = "dot" => lines[i].last
              /\ lines[i].kind = "status" =>
                   lines[i].code = code /\ (lines[i].last <=> ~HasBody(m.req, code))
<1>1. CASE ~HasBody(m.req, code)
  <2>1. lines = <<Status(code, m.for, TRUE)>>
    BY <1>1 DEF Answers
  <2>. QED
    BY <1>1, <2>1 DEF Status, Line, Lines, Kinds, Messages
<1>2. CASE HasBody(m.req, code)
  <2>1. PICK n \in 0..MaxLines :
          lines = <<Status(code, m.for, FALSE)>>
                    \o [i \in 1..n |-> Line("data", 0, m.for, FALSE)]
                    \o <<Line("dot", 0, m.for, TRUE)>>
    BY <1>2 DEF Answers
  <2>2. n \in Nat
    BY MaxLinesAssumption
  <2> DEFINE a == Status(code, m.for, FALSE)
             d == Line("data", 0, m.for, FALSE)
             b == [i \in 1..n |-> d]
             c == Line("dot", 0, m.for, TRUE)
  <2>3. a \in Lines /\ c \in Lines /\ d \in Lines
    BY DEF Status, Line, Lines, Kinds, Messages
  <2>4. lines = <<a>> \o b \o <<c>>
    BY <2>1
  <2>. HIDE DEF a, d, c
  <2>5. b \in Seq(Lines) /\ Len(b) = n /\ \A i \in 1..n : b[i] = d
    BY <2>2, <2>3, ConstantSeq
  <2>. HIDE DEF b
  <2>6. /\ lines \in Seq(Lines) /\ Len(lines) = n + 2
        /\ lines[1] = a /\ lines[n + 2] = c
        /\ \A i \in 2..(n + 1) : lines[i] = d
    BY <2>2, <2>3, <2>4, <2>5, FramedSeq
  <2>. QED
    BY <1>2, <2>2, <2>6 DEF a, c, d, Status, Line
<1>. QED
  BY <1>1, <1>2

----------------------------------------------------------------------------
(* Type correctness.                                                       *)

LEMMA TransmitType ==
  ASSUME TypeOK, NEW req \in Requests, NEW http \in BOOLEAN, Transmit(req, http, call)
  PROVE  tx' \in Seq(Messages)
<1>1. [req |-> req, http |-> http, for |-> call] \in Messages
  BY DEF TypeOK, Messages
<1>. QED
  BY <1>1 DEF Transmit, Message, TypeOK, NetTypeOK

LEMMA TransmitPostType ==
  ASSUME TypeOK, NEW req \in Requests, TransmitPost(req, call)
  PROVE  tx' \in Seq(Messages)
<1> DEFINE a == Message(req, TRUE, call)
           b == Message("data", TRUE, call)
<1>1. a \in Messages /\ b \in Messages
  BY DEF TypeOK, Messages, Message, Requests
<1>2. tx \in Seq(Messages) /\ (tx' = tx \/ tx' = tx \o <<a, b>>)
  BY DEF TransmitPost, TypeOK, NetTypeOK
<1>. HIDE DEF a, b
<1>3. <<a, b>> \in Seq(Messages)
  BY <1>1
<1>4. tx \o <<a, b>> \in Seq(Messages)
  BY <1>2, <1>3, ConcatProperties
<1>. QED
  BY <1>2, <1>4, Zenon

LEMMA RespondType ==
  ASSUME TypeOK, NEW lines \in Seq(Lines), NEW closes \in BOOLEAN, Respond(lines, closes)
  PROVE  rx' \in Seq(Lines) /\ link' \in Links
  BY DEF Respond, TypeOK, NetTypeOK, Links

\* What the head of rx is worth.
LEMMA HeadType ==
  ASSUME TypeOK, Arrives
  PROVE  /\ Head(rx) \in Lines /\ Tail(rx) \in Seq(Lines)
         /\ Head(rx).for \in Nat /\ Head(rx).code \in Nat
<1>1. rx \in Seq(Lines) /\ rx # <<>>
  BY DEF TypeOK, NetTypeOK, Arrives
<1>2. Head(rx) \in Lines /\ Tail(rx) \in Seq(Lines)
  BY <1>1, HeadAndTail
<1>. QED
  BY <1>2 DEF Lines

LEMMA FailNoCodeType ==
  ASSUME TypeOK, FailNoCode
  PROVE  TypeOK'
<1>1. rx' \in Seq(Lines)
  BY UnreadType, HeadType DEF FailNoCode, TypeOK, NetTypeOK
<1>. QED
  BY <1>1, ZenonT(60) DEF FailNoCode, TypeOK, NetTypeOK, Return, KeepSocket, appVars,
              Places, Results, Errors

LEMMA ServerType ==
  ASSUME TypeOK, Server, UNCHANGED clientVars
  PROVE  TypeOK'
<1>1. NetTypeOK'
  <2>1. CASE SrvBanner
    <3>1. PICK code \in ReplyCodes["banner"] :
            Respond(<<Status(code, 0, TRUE)>>, Closing(code))
      BY <2>1 DEF SrvBanner
    <3>2. code \in Nat /\ Closing(code) \in BOOLEAN
      BY ReplyCodesAssumption DEF Closing
    <3>3. <<Status(code, 0, TRUE)>> \in Seq(Lines)
      BY <3>2 DEF Status, Line, Lines, Kinds
    <3>. QED
      BY <2>1, <3>1, <3>2, <3>3, RespondType DEF SrvBanner, NetTypeOK, TypeOK, Sessions
  <2>2. CASE SrvCommand
    <3> DEFINE m == Head(tx)
               codes == IF m.http \/ m.req \in {"data", "newline"} THEN {500}
                        ELSE IF srv = "greeted" /\ m.req \in Commands THEN {409}
                        ELSE ReplyCodes[m.req]
    <3>1. m \in Messages /\ tx' \in Seq(Messages)
      BY <2>2, HeadAndTail DEF SrvCommand, TypeOK, NetTypeOK
    <3>0. PICK code \in codes : \E lines \in Answers(m, code) :
            /\ Respond(lines, Closing(code))
            /\ srv' = IF m.http THEN srv ELSE NextSession(m.req, code)
      BY <2>2 DEF SrvCommand
    <3>2. PICK lines \in Answers(m, code) :
            /\ Respond(lines, Closing(code))
            /\ srv' = IF m.http THEN srv ELSE NextSession(m.req, code)
      BY <3>0
    <3>3. code \in Nat /\ Closing(code) \in BOOLEAN
      BY <3>1, ReplyCodesAssumption DEF Closing, Messages
    <3>4. rx' \in Seq(Lines) /\ link' \in Links
      BY <3>1, <3>2, <3>3, AnswersShape, RespondType
    <3>. QED
      BY <2>2, <3>1, <3>2, <3>4 DEF SrvCommand, NetTypeOK, TypeOK, NextSession, Sessions
  <2>3. CASE SrvEntry
    <3>1. Head(tx) \in Messages /\ tx' \in Seq(Messages)
      BY <2>3, HeadAndTail DEF SrvEntry, TypeOK, NetTypeOK
    <3>2. CASE Head(tx).req = "data" /\ ~Head(tx).http
      <4>1. PICK code \in ReplyCodes["data"] :
              Respond(<<Status(code, Head(tx).for, TRUE)>>, Closing(code))
        BY <2>3, <3>2 DEF SrvEntry
      <4>2. code \in Nat /\ Closing(code) \in BOOLEAN
        BY ReplyCodesAssumption DEF Closing, Requests
      <4>3. <<Status(code, Head(tx).for, TRUE)>> \in Seq(Lines)
        BY <3>1, <4>2 DEF Status, Line, Lines, Kinds, Messages
      <4>. QED
        BY <2>3, <3>1, <3>2, <4>1, <4>2, <4>3, RespondType
           DEF SrvEntry, NetTypeOK, TypeOK, Sessions
    <3>3. CASE ~(Head(tx).req = "data" /\ ~Head(tx).http)
      BY <2>3, <3>1, <3>3 DEF SrvEntry, NetTypeOK, TypeOK
    <3>. QED
      BY <3>2, <3>3
  <2>4. CASE SrvTimeout
    <3>1. <<Status(530, 0, TRUE)>> \in Seq(Lines)
      BY DEF Status, Line, Lines, Kinds
    <3>2. Respond(<<Status(530, 0, TRUE)>>, TRUE)
      BY <2>4 DEF SrvTimeout
    <3>3. rx' \in Seq(Lines) /\ link' \in Links
      BY <3>1, <3>2, RespondType
    <3>. QED
      BY <2>4, <3>3 DEF SrvTimeout, NetTypeOK, TypeOK
  <2>5. CASE SrvHttp
    <3> DEFINE m == Head(tx)
               head(c) == <<Line("http", c, m.for, FALSE)>>
               blank(l) == <<Line("blank", 0, m.for, l)>>
    <3>1. m \in Messages /\ m.for \in Nat
      <4>1. tx \in Seq(Messages) /\ tx # <<>>
        BY <2>5 DEF SrvHttp, TypeOK, NetTypeOK
      <4>2. Head(tx) \in Messages
        BY <4>1, HeadAndTail
      <4>. QED
        BY <4>2 DEF Messages
    <3>6. ASSUME NEW lines \in Seq(Lines), Respond(lines, TRUE) PROVE NetTypeOK'
      <4>1. rx' \in Seq(Lines) /\ link' \in Links
        BY <3>6, RespondType
      <4>2. tx' = <<>> /\ UNCHANGED <<peer, srv>>
        BY <2>5 DEF SrvHttp
      <4>. QED
        BY <4>1, <4>2 DEF NetTypeOK, TypeOK
    <3>2. ASSUME NEW c \in Nat, NEW l \in BOOLEAN
          PROVE  head(c) \o blank(l) \in Seq(Lines)
      <4>1. Line("http", c, m.for, FALSE) \in Lines /\ Line("blank", 0, m.for, l) \in Lines
        BY <3>1 DEF Line, Lines, Kinds
      <4>2. \A x \in Lines : <<x>> \in Seq(Lines)
        OBVIOUS
      <4>3. head(c) \in Seq(Lines) /\ blank(l) \in Seq(Lines)
        BY <4>1, <4>2, Zenon
      <4>. HIDE DEF head, blank
      <4>. QED
        BY <4>3
    <3>3. CASE m.http /\ m.req \in Commands
      <4>1. PICK http \in ReplyCodes["http"] :
               IF http = 200
               THEN \E code \in ReplyCodes[IF m.req = "write" THEN "data" ELSE m.req] :
                    \E lines \in Answers(m, code) :
                      Respond(head(http) \o blank(FALSE) \o lines, TRUE)
               ELSE Respond(head(http) \o blank(TRUE), TRUE)
        BY <2>5, <3>3 DEF SrvHttp
      <4>2. http \in Nat
        BY ReplyCodesAssumption
      <4>3. CASE http = 200
        <5>0. PICK code \in ReplyCodes[IF m.req = "write" THEN "data" ELSE m.req] :
                \E lines \in Answers(m, code) :
                  Respond(head(http) \o blank(FALSE) \o lines, TRUE)
          BY <4>1, <4>3
        <5>1. PICK lines \in Answers(m, code) :
                Respond(head(http) \o blank(FALSE) \o lines, TRUE)
          BY <5>0
        <5>2. code \in Nat
          BY <3>3, ReplyCodesAssumption DEF Requests
        <5>3. head(http) \o blank(FALSE) \in Seq(Lines) /\ lines \in Seq(Lines)
          BY <3>1, <3>2, <4>2, <5>2, AnswersShape
        <5>4. (head(http) \o blank(FALSE)) \o lines \in Seq(Lines)
          <6>. HIDE DEF head, blank
          <6>. QED
            BY <5>3, ConcatProperties
        <5>. QED
          BY <3>6, <5>1, <5>4
      <4>4. CASE http # 200
        BY <3>2, <3>6, <4>1, <4>2, <4>4
      <4>. QED
        BY <4>3, <4>4
    <3>4. CASE ~(m.http /\ m.req \in Commands)
      <4>1. Respond(head(400) \o blank(TRUE), TRUE)
        BY <2>5, <3>4 DEF SrvHttp
      <4>2. 400 \in Nat /\ TRUE \in BOOLEAN
        OBVIOUS
      <4>3. head(400) \o blank(TRUE) \in Seq(Lines)
        BY <3>2, <4>2
      <4>. HIDE DEF head, blank
      <4>. QED
        BY <3>6, <4>1, <4>3
    <3>. QED
      BY <3>3, <3>4
  <2>6. CASE LinkDrops
    <3>1. \A k \in 0..Len(rx) : SubSeq(rx, 1, k) \in Seq(Lines)
      BY DEF TypeOK, NetTypeOK
    <3>. QED
      BY <2>6, <3>1 DEF LinkDrops, NetTypeOK, TypeOK, Links
  <2>7. CASE LateConnect
    BY <2>7 DEF LateConnect, NetTypeOK, TypeOK, Links
  <2>. QED
    BY <2>1, <2>2, <2>3, <2>4, <2>5, <2>6, <2>7 DEF Server
<1>. QED
  BY <1>1 DEF TypeOK, clientVars


\* A command may leave only when there is one.
TypeInv == TypeOK /\ InCall

\* A connection that is closed, opened or left alone stays well typed.
LEMMA SocketType ==
  ASSUME TypeOK
  PROVE  /\ CddbDisconnect => NetTypeOK' /\ sock' \in {"closed", "open"}
         /\ OpenSocket /\ link' \in Links => NetTypeOK' /\ sock' \in {"closed", "open"}
         /\ \A s \in Seq(Lines) :
              HttpClose(s) => NetTypeOK' /\ sock' \in {"closed", "open"}
<1>1. <<>> \in Seq(Messages) /\ <<>> \in Seq(Lines)
  OBVIOUS
<1>2. CddbDisconnect => NetTypeOK' /\ sock' \in {"closed", "open"}
  BY <1>1 DEF CddbDisconnect, Close, TypeOK, NetTypeOK, Links, Sessions
<1>3. OpenSocket /\ link' \in Links => NetTypeOK' /\ sock' \in {"closed", "open"}
  BY <1>1 DEF OpenSocket, TypeOK, NetTypeOK, Links, Sessions
<1>4. ASSUME NEW s \in Seq(Lines), HttpClose(s)
      PROVE  NetTypeOK' /\ sock' \in {"closed", "open"}
  BY <1>2, <1>4 DEF HttpClose, KeepSocket, TypeOK, NetTypeOK
<1>. QED
  BY <1>2, <1>3, <1>4

\* The ways an answer ends a call.
LEMMA EndsType ==
  ASSUME TypeOK, NEW s \in Seq(Lines), NEW e \in Errors, NEW r \in Results,
         UNCHANGED <<cmd, call>>,
         DropConnection \/ GiveUp(e, s) \/ Succeed(r, e, s) \/ RecordEnds(e, s)
           \/ HttpFails(e)
  PROVE  /\ NetTypeOK' /\ sock' \in {"closed", "open"}
         /\ pc' = "idle" /\ errnum' \in Errors /\ ret' \in Results
<1>1. NetTypeOK' /\ sock' \in {"closed", "open"}
  <2>1. CASE DropConnection \/ HttpFails(e)
    BY <2>1, SocketType DEF DropConnection, HttpFails
  <2>2. CASE GiveUp(e, s)
    BY <2>2 DEF GiveUp, KeepSocket, TypeOK, NetTypeOK
  <2>3. CASE Succeed(r, e, s) \/ RecordEnds(e, s)
    BY <2>3, SocketType DEF Succeed, RecordEnds
  <2>. QED
    BY <2>1, <2>2, <2>3
<1>2. pc' = "idle" /\ errnum' \in Errors /\ ret' \in Results
  BY DEF DropConnection, GiveUp, Succeed, RecordEnds, HttpFails, Return, Errors, Results
<1>. QED
  BY <1>1, <1>2

LEMMA ApplicationType ==
  ASSUME TypeInv, Application
  PROVE  TypeInv'
<1>1. CASE \E c \in Calls : CddbCall(c)
  <2>1. PICK c \in Calls : CddbCall(c)
    BY <1>1
  <2>2. c \in Commands
    BY CallsAssumption
  <2>3. PICK s \in Starts(c) : /\ pc' = IF s.ends THEN "idle" ELSE "connect"
                               /\ ret' = s.ret
                               /\ errnum' = s.err
    BY <2>1 DEF CddbCall
  <2>4. s.ret \in Results /\ s.err \in Errors
    BY <2>2, <2>3 DEF TypeInv, TypeOK, Results, Errors, Commands, Starts, ReadStarts,
       QueryStarts, AlbumStarts, WriteStarts, SitesStarts, Local, Onwards
  <2>5. NetTypeOK'
    BY <2>1 DEF CddbCall, KeepSocket, TypeInv, TypeOK, NetTypeOK
  <2>6. pc' \in Places /\ ret' \in Results /\ errnum' \in Errors
    BY <2>3, <2>4 DEF Places
  <2>7. cmd' \in Commands /\ call' \in Nat /\ call' > 0
    BY <2>1, <2>2 DEF CddbCall, TypeInv, TypeOK
  <2>8. /\ site' \in Sites /\ useCache' \in {"off", "on", "only"}
        /\ sock' \in {"closed", "open"} /\ parsed' \in BOOLEAN /\ clean' \in BOOLEAN
        /\ shook' \in BOOLEAN /\ used' \in SUBSET Nat /\ sent' \in Nat
    BY <2>1 DEF CddbCall, KeepSocket, TypeInv, TypeOK
  <2>. QED
    BY <2>5, <2>6, <2>7, <2>8 DEF TypeInv, TypeOK, InCall
<1>2. CASE SetCacheMode
  BY <1>2 DEF SetCacheMode, histVars, netVars, TypeInv, TypeOK, NetTypeOK, InCall
<1>3. CASE CddbSetSite
  BY <1>3 DEF CddbSetSite, histVars, netVars, TypeInv, TypeOK, NetTypeOK, InCall,
     Results, Errors
<1>. QED
  BY <1>1, <1>2, <1>3 DEF Application

LEMMA ConnectType ==
  ASSUME TypeInv,
         CddbConnectReuse \/ CddbConnectNoSocket \/ CddbConnectFails \/ CddbConnectSucceeds
  PROVE  TypeInv'
<1>1. CASE CddbConnectReuse
  BY <1>1 DEF CddbConnectReuse, GoOn, appVars, histVars, netVars, TypeInv, TypeOK,
     NetTypeOK, InCall, Places, Errors
<1>2. CASE CddbConnectNoSocket
  BY <1>2 DEF CddbConnectNoSocket, Return, appVars, histVars, netVars, TypeInv, TypeOK,
     NetTypeOK, InCall, Places, Errors, Results
<1>3. CASE CddbConnectFails \/ CddbConnectSucceeds
  <2>1. NetTypeOK' /\ sock' \in {"closed", "open"}
    BY <1>3, SocketType DEF CddbConnectFails, CddbConnectSucceeds, Links, TypeInv
  <2>2. shook' = FALSE /\ sent' = 0
    BY <1>3 DEF CddbConnectFails, CddbConnectSucceeds, OpenSocket
  <2>. QED
    BY <1>3, <2>1, <2>2 DEF CddbConnectFails, CddbConnectSucceeds, GoOn, Return, appVars,
       TypeInv, TypeOK, InCall, Places, Errors, Results
<1>. QED
  BY <1>1, <1>2, <1>3

LEMMA SendType ==
  ASSUME TypeInv, CddbSendCmd \/ CddbHttpSendCmd \/ CddbHttpPost
  PROVE  TypeInv'
<1>1. cmd \in Requests /\ "newline" \in Requests /\ FALSE \in BOOLEAN /\ TRUE \in BOOLEAN
  BY DEF CddbSendCmd, CddbHttpSendCmd, CddbHttpPost, TypeInv, InCall, Requests
<1>2. NetTypeOK' /\ sock' \in {"closed", "open"}
  <2>1. CASE CddbHttpSendCmd /\ CddbDisconnect
    BY <2>1, SocketType DEF TypeInv
  <2>2. CASE CddbSendCmd
    <3>1. PICK req \in Requests : Transmit(req, FALSE, call)
      BY <1>1, <2>2 DEF CddbSendCmd
    <3>2. tx' \in Seq(Messages)
      BY <3>1, TransmitType DEF TypeInv
    <3>. QED
      BY <2>2, <3>2 DEF CddbSendCmd, KeepSocket, TypeInv, TypeOK, NetTypeOK
  <2>3. CASE CddbHttpSendCmd /\ ~CddbDisconnect
    <3>1. PICK req \in Requests : Transmit(req, TRUE, call)
      BY <1>1, <2>3 DEF CddbHttpSendCmd
    <3>2. tx' \in Seq(Messages)
      BY <3>1, TransmitType DEF TypeInv
    <3>. QED
      BY <2>3, <3>2 DEF CddbHttpSendCmd, KeepSocket, TypeInv, TypeOK, NetTypeOK
  <2>4. CASE CddbHttpPost
    <3>1. TransmitPost(cmd, call)
      BY <2>4 DEF CddbHttpPost
    <3>2. tx' \in Seq(Messages)
      BY <1>1, <3>1, TransmitPostType DEF TypeInv
    <3>. QED
      BY <2>4, <3>2 DEF CddbHttpPost, KeepSocket, TypeInv, TypeOK, NetTypeOK
  <2>. QED
    BY <2>1, <2>2, <2>3, <2>4
<1>3. sent' \in Nat
  <2>1. sent' = sent + 1 \/ sent' = sent
    BY DEF CddbSendCmd, CddbHttpSendCmd, CddbHttpPost, Sends
  <2>. QED
    BY <2>1 DEF TypeInv, TypeOK
<1>4. pc' \in Places /\ errnum' \in Errors /\ ret' \in Results /\ pc # "idle"
  BY DEF CddbSendCmd, CddbHttpSendCmd, CddbHttpPost, GoOn, Return, TypeInv, TypeOK, Places,
     Errors, Results
<1>5. UNCHANGED <<appVars, parsed, histVars>>
  BY Zenon DEF CddbSendCmd, CddbHttpSendCmd, CddbHttpPost
<1>. QED
  BY <1>2, <1>3, <1>4, <1>5 DEF appVars, histVars, TypeInv, TypeOK, InCall

LEMMA HandshakeType ==
  ASSUME TypeInv, CddbHandshakeBanner \/ CddbHandshakeHello \/ CddbHandshakeProto
  PROVE  TypeInv'
<1>1. CASE FailNoCode
  BY <1>1, FailNoCodeType DEF TypeInv, InCall, FailNoCode, Return
<1>2. CASE ~FailNoCode
  <2>1. Tail(rx) \in Seq(Lines) /\ rx' = Tail(rx)
    BY <1>2, HeadType DEF TypeInv, CddbHandshakeBanner, CddbHandshakeHello,
       CddbHandshakeProto, Handshake, HasCode
  <2>2. tx' \in Seq(Messages)
    <3>1. "hello" \in Requests /\ "proto" \in Requests /\ FALSE \in BOOLEAN
      BY DEF Requests
    <3>2. Transmit("hello", FALSE, call) \/ Transmit("proto", FALSE, call) \/ tx' = tx
      BY <1>2 DEF CddbHandshakeBanner, CddbHandshakeHello, CddbHandshakeProto, Handshake
    <3>. QED
      BY <3>1, <3>2, TransmitType DEF TypeInv, TypeOK, NetTypeOK
  <2>3. NetTypeOK'
    BY <1>2, <2>1, <2>2 DEF CddbHandshakeBanner, CddbHandshakeHello, CddbHandshakeProto,
       Handshake, KeepSocket, TypeInv, TypeOK, NetTypeOK
  <2>. QED
    BY <1>2, <2>3, ZenonT(60) DEF CddbHandshakeBanner, CddbHandshakeHello, CddbHandshakeProto,
       Handshake, KeepSocket, GoOn, Return, appVars, TypeInv, TypeOK, InCall, Places,
       Errors, Results, BannerVerdict, HelloVerdict
<1>. QED
  BY <1>1, <1>2


LEMMA HeadersType ==
  ASSUME TypeInv,
         CddbHttpParseResponse \/ CddbHttpParseHeaders \/ CddbPostParseHeaders
  PROVE  TypeInv'
<1>1. CASE \E e \in Errors : CddbHttpParseResponse /\ HttpFails(e)
  <2>1. NetTypeOK' /\ sock' \in {"closed", "open"}
    BY <1>1, SocketType DEF HttpFails, TypeInv
  <2>. QED
    BY <1>1, <2>1 DEF CddbHttpParseResponse, HttpFails, Return, appVars, TypeInv, TypeOK,
       InCall, Places, Results
<1>2. CASE ~\E e \in Errors : CddbHttpParseResponse /\ HttpFails(e)
  <2>1. rx' \in Seq(Lines)
    <3>1. CASE rx' = Tail(rx) /\ Arrives
      BY <3>1, HeadType DEF TypeInv
    <3>2. CASE rx' \in Unread
      BY <3>2, UnreadType DEF TypeInv, TypeOK, NetTypeOK
    <3>3. CASE CddbHttpParseResponse
      <4>1. /\ HttpVerdict(Head(rx).code) \in Errors \/ HttpVerdict(Head(rx).code) = "DONE"
            /\ {"UNEXPECTED_EOF", "INVALID_RESPONSE"} \subseteq Errors
        BY DEF HttpVerdict, Errors
      <4>2. \A e \in Errors : ~HttpFails(e)
        BY <1>2, <3>3
      <4>. QED
        BY <3>1, <3>3, <4>1, <4>2 DEF CddbHttpParseResponse
    <3>4. CASE CddbHttpParseHeaders
      BY <3>1, <3>2, <3>4 DEF CddbHttpParseHeaders, SkipHeaders
    <3>5. CASE CddbPostParseHeaders
      BY <3>1, <3>2, <3>5 DEF CddbPostParseHeaders, SkipHeaders
    <3>. QED
      BY <3>3, <3>4, <3>5
  <2>2. /\ KeepSocket /\ UNCHANGED <<appVars, sent, parsed, shook, used, tx>>
        /\ clean' \in BOOLEAN /\ pc # "idle"
        /\ \E p \in Places : GoOn(p, "OK")
    <3>1. CASE CddbHttpParseResponse
      <4>1. /\ HttpVerdict(Head(rx).code) \in Errors \/ HttpVerdict(Head(rx).code) = "DONE"
            /\ {"UNEXPECTED_EOF", "INVALID_RESPONSE"} \subseteq Errors
        BY DEF HttpVerdict, Errors
      <4>2. /\ KeepSocket /\ UNCHANGED <<clean, tx>> /\ GoOn("httpHeaders", "OK")
            /\ UNCHANGED <<appVars, sent, parsed, shook, used>> /\ pc = "httpStatus"
        <5>1. \A e \in Errors : ~HttpFails(e)
          BY <1>2, <3>1
        <5>2. {"UNEXPECTED_EOF", "INVALID_RESPONSE"} \subseteq Errors
          BY DEF Errors
        <5>. QED
          BY <3>1, <4>1, <5>1, <5>2 DEF CddbHttpParseResponse
      <4>. QED
        BY <4>2 DEF Places, TypeInv, TypeOK
    <3>2. CASE CddbHttpParseHeaders
      BY <3>2 DEF CddbHttpParseHeaders, SkipHeaders, Places, TypeInv, TypeOK
    <3>3. CASE CddbPostParseHeaders
      BY <3>3 DEF CddbPostParseHeaders, SkipHeaders, Places, TypeInv, TypeOK
    <3>. QED
      BY <3>1, <3>2, <3>3
  <2>3. NetTypeOK'
    BY <2>1, <2>2 DEF KeepSocket, TypeInv, TypeOK, NetTypeOK
  <2>4. "OK" \in Errors
    BY DEF Errors
  <2>. QED
    BY <2>2, <2>3, <2>4 DEF GoOn, KeepSocket, appVars, TypeInv, TypeOK, InCall
<1>. QED
  BY <1>1, <1>2

\* A call that ends, or goes on with the next line.
LEMMA StayType ==
  ASSUME TypeInv, pc # "idle", UNCHANGED <<cmd, call, site, useCache, shook, sent>>,
         parsed' \in BOOLEAN, clean' \in BOOLEAN, used' \in SUBSET Nat,
         \/ \E s \in Seq(Lines), e \in Errors, r \in Results :
              DropConnection \/ GiveUp(e, s) \/ Succeed(r, e, s) \/ RecordEnds(e, s)
         \/ /\ KeepSocket /\ rx' \in Seq(Lines) /\ tx' \in Seq(Messages)
            /\ \E p \in {"body", "entry"} : GoOn(p, "OK")
  PROVE  TypeInv'
<1>1. CASE \E s \in Seq(Lines), e \in Errors, r \in Results :
             DropConnection \/ GiveUp(e, s) \/ Succeed(r, e, s) \/ RecordEnds(e, s)
  <2>1. /\ NetTypeOK' /\ sock' \in {"closed", "open"}
        /\ pc' = "idle" /\ errnum' \in Errors /\ ret' \in Results
    BY <1>1, EndsType DEF TypeInv
  <2>2. pc' \in Places /\ InCall'
    BY <2>1 DEF Places, InCall
  <2>3. /\ cmd' \in Commands \cup {"none", "set_site"} /\ call' \in Nat
        /\ site' \in Sites /\ useCache' \in {"off", "on", "only"} /\ shook' \in BOOLEAN
        /\ sent' \in Nat
    BY DEF TypeInv, TypeOK
  <2>. QED
    BY <2>1, <2>2, <2>3 DEF TypeInv, TypeOK
<1>2. CASE /\ KeepSocket /\ rx' \in Seq(Lines) /\ tx' \in Seq(Messages)
           /\ \E p \in {"body", "entry"} : GoOn(p, "OK")
  <2>1. NetTypeOK'
    BY <1>2 DEF KeepSocket, TypeInv, TypeOK, NetTypeOK
  <2>. QED
    BY <1>2, <2>1 DEF KeepSocket, GoOn, TypeInv, TypeOK, InCall, Places, Errors
<1>. QED
  BY <1>1, <1>2

LEMMA ReadsType ==
  ASSUME TypeInv, Arrives, Reads(Head(rx))
  PROVE  used' \in SUBSET Nat /\ Tail(rx) \in Seq(Lines)
BY HeadType DEF Reads, TypeInv, TypeOK

LEMMA AnswerType ==
  ASSUME TypeInv, CddbAnswer \/ CddbWriteGoAhead \/ CddbWriteEntry
  PROVE  TypeInv'
<1>1. CASE FailNoCode
  BY <1>1, FailNoCodeType DEF TypeInv, InCall, FailNoCode, Return
<1>2. CASE ~FailNoCode
  <2>1. used' \in SUBSET Nat /\ Tail(rx) \in Seq(Lines)
    BY <1>2, ReadsType DEF CddbAnswer, CddbWriteGoAhead, CddbWriteEntry, HasCode
  <2>2. /\ pc # "idle" /\ UNCHANGED <<cmd, call, site, useCache, shook, sent>>
        /\ parsed' \in BOOLEAN /\ clean' \in BOOLEAN
    BY <1>2 DEF CddbAnswer, CddbWriteGoAhead, CddbWriteEntry, appVars, TypeInv, TypeOK
  <2>3. "OK" \in Errors /\ "ok" \in Results /\ "none" \in Results
        /\ {"INVALID_RESPONSE", "ICONV_FAIL"} \subseteq Errors
    BY DEF Errors, Results
  <2>4. CASE DropConnection \/ (\E e \in Errors : GiveUp(e, Tail(rx)))
             \/ Succeed("ok", "OK", Tail(rx)) \/ Succeed("none", "OK", Tail(rx))
    BY <2>1, <2>2, <2>3, <2>4, StayType
  <2>5. CASE CddbAnswer /\ GoOn("body", "OK") /\ KeepSocket /\ UNCHANGED tx
             /\ rx' = Tail(rx)
    <3>1. tx' \in Seq(Messages)
      BY <2>5 DEF TypeInv, TypeOK, NetTypeOK
    <3>. QED
      BY <2>1, <2>2, <2>5, <3>1, StayType
  <2>6. CASE CddbWriteGoAhead /\ Transmit("data", FALSE, call) /\ rx' = Tail(rx)
             /\ GoOn("entry", "OK") /\ KeepSocket
    <3>1. "data" \in Requests /\ FALSE \in BOOLEAN
      BY DEF Requests
    <3>2. tx' \in Seq(Messages)
      BY <2>6, <3>1, TransmitType DEF TypeInv
    <3>. QED
      BY <2>1, <2>2, <2>6, <3>2, StayType
  <2>. QED
    BY <1>2, <2>3, <2>4, <2>5, <2>6 DEF CddbAnswer, CddbWriteGoAhead, CddbWriteEntry
<1>. QED
  BY <1>1, <1>2

LEMMA BodyType ==
  ASSUME TypeInv, CddbReadBody \/ CddbListBody \/ CddbSitesBody
  PROVE  TypeInv'
<1>1. /\ pc # "idle" /\ UNCHANGED <<cmd, call, site, useCache, shook, sent>>
      /\ parsed' \in BOOLEAN /\ clean' \in BOOLEAN
  BY DEF CddbReadBody, CddbListBody, CddbSitesBody, appVars, TypeInv, TypeOK
<1>2. used' \in SUBSET Nat
  <2>1. UNCHANGED used \/ (Arrives /\ Reads(Head(rx)))
    BY DEF CddbReadBody, CddbListBody, CddbSitesBody
  <2>. QED
    BY <2>1, ReadsType DEF TypeInv, TypeOK
<1>3. /\ Unread \subseteq Seq(Lines)
      /\ Arrives => Tail(rx) \in Seq(Lines)
      /\ tx \in Seq(Messages)
  BY UnreadType, HeadType DEF TypeInv, TypeOK, NetTypeOK
<1>4. /\ "OK" \in Errors /\ "ok" \in Results /\ "TRACK_NOT_FOUND" \in Errors
      /\ {"OK", "INVALID_RESPONSE", "ICONV_FAIL"} \subseteq Errors
  BY DEF Errors, Results
<1>5. \/ \E s \in Seq(Lines), e \in Errors :
           GiveUp(e, s) \/ Succeed("ok", e, s) \/ RecordEnds(e, s)
      \/ /\ KeepSocket /\ rx' \in Seq(Lines) /\ tx' \in Seq(Messages)
         /\ GoOn("body", "OK")
  <2>1. CASE CddbReadBody
    BY <2>1, <1>3, <1>4 DEF CddbReadBody
  <2>2. CASE CddbListBody
    BY <2>2, <1>3, <1>4 DEF CddbListBody, ListEnds
  <2>3. CASE CddbSitesBody
    BY <2>3, <1>3, <1>4 DEF CddbSitesBody
  <2>. QED
    BY <2>1, <2>2, <2>3
<1>. QED
  BY <1>1, <1>2, <1>4, <1>5, StayType

LEMMA TypeInit ==
  ASSUME Init
  PROVE  TypeInv
<1>1. "idle" \in Places /\ "OK" \in Errors /\ "ok" \in Results
      /\ "down" \in Links /\ "new" \in Sessions
  BY DEF Places, Errors, Results, Links, Sessions
<1>2. <<>> \in Seq(Messages) /\ <<>> \in Seq(Lines)
  OBVIOUS
<1>3. NetTypeOK
  BY <1>1, <1>2 DEF Init, NetTypeOK
<1>4. parsed \in BOOLEAN /\ clean \in BOOLEAN /\ shook \in BOOLEAN /\ used \in SUBSET Nat
  BY DEF Init
<1>5. call \in Nat /\ sent \in Nat /\ InCall /\ cmd \in Commands \cup {"none", "set_site"}
  BY DEF Init, InCall
<1>. QED
  BY <1>1, <1>3, <1>4, <1>5 DEF Init, TypeInv, TypeOK

LEMMA TypeStep ==
  ASSUME TypeInv, [Next]_vars
  PROVE  TypeInv'
<1>1. CASE Proceed
  BY <1>1, ConnectType, HandshakeType, SendType, HeadersType, AnswerType, BodyType
     DEF Proceed
<1>2. CASE Server /\ UNCHANGED clientVars
  BY <1>2, ServerType DEF TypeInv, InCall, clientVars
<1>3. CASE UNCHANGED vars
  BY <1>3 DEF vars, clientVars, netVars, TypeInv, TypeOK, NetTypeOK, InCall
<1>. QED
  BY <1>1, <1>2, <1>3, ApplicationType DEF Next

\* Every state of a connection is well typed, whatever the servers answer: in
\* particular errnum is always a code of cddb_error.h, and a command is in
\* progress whenever the library is not idle.
THEOREM TypeCorrect == Spec => []TypeOK
<1>1. Init => TypeInv
  BY TypeInit
<1>2. TypeInv /\ [Next]_vars => TypeInv'
  BY TypeStep
<1>3. TypeInv => TypeOK
  BY DEF TypeInv
<1>. QED
  BY <1>1, <1>2, <1>3, PTL DEF Spec

----------------------------------------------------------------------------
(* What is in flight, seen from the line that is read next.                *)

\* The places of a call that is past the banner, if there is one, and reads.
Onward == {"hello", "proto", "httpStatus", "httpHeaders", "postHeaders",
           "answer", "entry", "body"}

LEMMA RxShape ==
  ASSUME TypeOK
  PROVE  /\ rx \in Seq(Lines) /\ Len(rx) \in Nat /\ DOMAIN rx = 1..Len(rx)
         /\ tx \in Seq(Messages) /\ Len(tx) \in Nat /\ DOMAIN tx = 1..Len(tx)
         /\ call \in Nat
  BY DEF TypeOK, NetTypeOK

\* Behind the line that completes an answer there is nothing, unless it answers the
\* headers of a POST that went to a CDDBP server.
LEMMA NothingBehindLast ==
  ASSUME TypeOK, OneAnswer, ~StrayPost, Arrives, Head(rx).last
  PROVE  Tail(rx) = <<>>
<1>1. /\ Len(rx) \in Nat /\ Len(rx) > 0 /\ Head(rx) = rx[1] /\ 1 \in DOMAIN rx
      /\ Tail(rx) \in Seq(Lines) /\ Len(Tail(rx)) = Len(rx) - 1
  BY RxShape, HeadAndTail DEF Arrives
<1>2. \A i \in DOMAIN rx : rx[i].last => i = Len(rx)
  BY DEF OneAnswer
<1>3. 1 = Len(rx)
  BY <1>1, <1>2, Zenon
<1>. DEFINE rest == Tail(rx)
<1>4. rest \in Seq(Lines) /\ Len(rest) = 0
  <2>1. rest \in Seq(Lines) /\ Len(rest) = Len(rx) - 1
    BY <1>1
  <2>. HIDE DEF rest
  <2>2. Len(rest) = 1 - 1
    BY <2>1, <1>3, Zenon
  <2>. QED
    BY <2>1, <2>2
<1>5. rest = <<>>
  <2>. HIDE DEF rest
  <2>. QED
    BY <1>4, EmptySeq
<1>. QED
  BY <1>5

\* A status line that announces no data completes the answer.
LEMMA NothingBehindStatus ==
  ASSUME TypeOK, OneAnswer, ~StrayPost, HasCode, ~HasBody(Asked, Head(rx).code)
  PROVE  Tail(rx) = <<>>
<1>1. Head(rx) = rx[1] /\ 1 \in DOMAIN rx
  BY RxShape, HeadAndTail DEF HasCode, Arrives
<1>2. Head(rx).last
  BY <1>1 DEF OneAnswer, HasCode
<1>. QED
  BY <1>2, NothingBehindLast DEF HasCode

LEMMA NothingBehindDot ==
  ASSUME TypeOK, OneAnswer, ~StrayPost, Arrives, Head(rx).kind = "dot"
  PROVE  Tail(rx) = <<>>
<1>1. Head(rx) = rx[1] /\ 1 \in DOMAIN rx
  BY RxShape, HeadAndTail DEF Arrives
<1>2. Head(rx).last
  BY <1>1 DEF OneAnswer
<1>. QED
  BY <1>2, NothingBehindLast

\* Where nothing is in flight, requests and answers are in step.
LEMMA NothingInFlight ==
  ASSUME rx' = <<>>, tx' = <<>>, link' \in {"up", "eof"}, Greeted'
  PROVE  Synced'
<1>1. DOMAIN rx' = {} /\ DOMAIN tx' = {}
  BY EmptySeq
<1>. QED
  BY <1>1 DEF Synced, OneRequest, OneAnswer

\* Once the banner has been read or is on its way, it is not still to come.
LEMMA GreetedKept ==
  ASSUME Greeted, Arrives \/ pc # "banner", KeepSocket
  PROVE  Greeted'
  BY DEF Greeted, Arrives, KeepSocket

\* The next line of an answer is read and the rest is left.
LEMMA ReadOn ==
  ASSUME TypeOK, Synced, Arrives, rx' = Tail(rx), KeepSocket,
         UNCHANGED <<tx, cmd, call>>, ~StrayPost, ~StrayPost',
         pc \in Onward, pc' \in Onward, Asked' = Asked
  PROVE  Synced'
<1>1. /\ Tail(rx) \in Seq(Lines) /\ Len(Tail(rx)) = Len(rx) - 1 /\ Len(rx) \in Nat
      /\ \A i \in DOMAIN Tail(rx) : i + 1 \in DOMAIN rx /\ Tail(rx)[i] = rx[i + 1]
  BY RxShape, HeadAndTail DEF Arrives
<1>2. tx = <<>>
  BY DEF Synced, OneRequest, Arrives
<1>3. OneAnswer'
  <2>1. ~Quiet' /\ pc # "banner"
    BY DEF Quiet, Onward
  <2>. SUFFICES ASSUME NEW i \in DOMAIN Tail(rx)
                PROVE  LET l == Tail(rx)[i] IN
                       /\ l.for \in {0, call}
                       /\ l.last => i = Len(Tail(rx))
                       /\ l.kind = "dot" => l.last
                       /\ l.kind = "status" => (l.last <=> ~HasBody(Asked, l.code))
                       /\ l.for = 0 => l.kind = "status" /\ l.code = 530 /\ link = "eof"
    BY <2>1 DEF OneAnswer, KeepSocket
  <2>2. i + 1 \in DOMAIN rx /\ Tail(rx)[i] = rx[i + 1] /\ i \in Nat
    BY <1>1
  <2>3. rx[i + 1].last => i + 1 = Len(rx)
    BY <2>2 DEF Synced, OneAnswer
  <2>4. rx[i + 1].last => i = Len(Tail(rx))
    <3>. DEFINE n == Len(Tail(rx))
    <3>0. n = Len(rx) - 1
      BY <1>1
    <3>. HIDE DEF n
    <3>1. i + 1 = Len(rx) => i = n
      BY <3>0, <1>1, <2>2
    <3>. QED
      BY <2>3, <3>1, Zenon DEF n
  <2>. QED
    BY <2>1, <2>2, <2>4 DEF Synced, OneAnswer
<1>4. OneRequest'
  <2>1. tx' = <<>> /\ DOMAIN tx' = {}
    BY <1>2, EmptySeq
  <2>. QED
    BY <2>1 DEF OneRequest
<1>. QED
  BY <1>3, <1>4, GreetedKept DEF Synced, KeepSocket, Onward

\* An answer to a POST that went to a CDDBP server is skipped as a header.
LEMMA StrayOn ==
  ASSUME TypeOK, Synced, Arrives, rx' = Tail(rx), KeepSocket,
         UNCHANGED <<tx, cmd, call, pc>>, StrayPost
  PROVE  Synced'
<1>1. \A i \in DOMAIN Tail(rx) : i + 1 \in DOMAIN rx /\ Tail(rx)[i] = rx[i + 1]
  BY RxShape, HeadAndTail DEF Arrives
<1>2. StrayPost' /\ ~Quiet' /\ ~Quiet /\ pc # "banner" /\ Asked = "data" /\ Asked' = "data"
  BY DEF StrayPost, KeepSocket, Quiet, Asked
<1>3. OneAnswer'
  <2>. SUFFICES ASSUME NEW i \in DOMAIN Tail(rx)
                PROVE  LET l == Tail(rx)[i] IN
                       /\ l.for \in {0, call}
                       /\ l.kind = "status"
                       /\ l.last <=> ~HasBody("data", l.code)
                       /\ l.for = 0 => l.code = 530 /\ link = "eof"
    BY <1>2 DEF OneAnswer, KeepSocket
  <2>1. i + 1 \in DOMAIN rx /\ Tail(rx)[i] = rx[i + 1]
    BY <1>1
  <2>. QED
    BY <1>2, <2>1 DEF Synced, OneAnswer
<1>4. OneRequest'
  BY <1>2 DEF Synced, OneRequest
<1>. QED
  BY <1>2, <1>3, <1>4, GreetedKept DEF Synced, KeepSocket

\* A request leaves while nothing is in flight but, perhaps, a notice that the
\* server hangs up, in which case the request does not get anywhere.
LEMMA RequestLeaves ==
  ASSUME TypeOK, link \in {"up", "eof"}, tx = <<>>, rx' = <<>> \/ link = "eof",
         NEW req, NEW http, Transmit(req, http, call), UNCHANGED <<cmd, call>>,
         req \in IF Asked' = "data" THEN {"hello", "proto", "data", "write"}
                 ELSE {cmd, "newline"},
         pc' \in Onward
  PROVE  OneRequest'
<1>1. ~Quiet' /\ pc' # "banner"
  BY DEF Quiet, Onward
<1>2. CASE link = "up"
  <2>1. tx' = <<[req |-> req, http |-> http, for |-> call]>>
    BY <1>2 DEF Transmit, Message
  <2>2. DOMAIN tx' = {1} /\ tx'[1].req = req /\ tx'[1].for = call
    BY <2>1
  <2>. QED
    BY <1>1, <1>2, <2>2 DEF OneRequest
<1>3. CASE link = "eof"
  <2>1. tx' = <<>> /\ DOMAIN tx' = {}
    BY <1>3, EmptySeq DEF Transmit, Message
  <2>. QED
    BY <2>1 DEF OneRequest
<1>. QED
  BY <1>2, <1>3

\* The two parts of a POST leave at once.
LEMMA PostLeaves ==
  ASSUME TypeOK, link \in {"up", "eof"}, tx = <<>>, rx' = <<>> \/ link = "eof",
         TransmitPost("write", call), UNCHANGED <<cmd, call>>, pc' = "postHeaders"
  PROVE  OneRequest'
<1>1. ~Quiet' /\ pc' # "banner" /\ Asked' = "data"
  BY DEF Quiet, Asked
<1>2. CASE link = "up"
  <2>1. tx' = <<Message("write", TRUE, call), Message("data", TRUE, call)>>
    BY <1>2 DEF TransmitPost
  <2>2. /\ DOMAIN tx' = {1, 2} /\ tx'[1].req = "write" /\ tx'[2].req = "data"
        /\ tx'[1].for = call /\ tx'[2].for = call
    BY <2>1 DEF Message
  <2>. QED
    BY <1>1, <1>2, <2>2 DEF OneRequest
<1>3. CASE link = "eof"
  <2>1. tx' = <<>> /\ DOMAIN tx' = {}
    BY <1>3, EmptySeq DEF TransmitPost
  <2>. QED
    BY <2>1 DEF OneRequest
<1>. QED
  BY <1>2, <1>3

----------------------------------------------------------------------------
(* How a step may end.                                                     *)

InStep == NothingOnClosed /\ (sock = "open" /\ clean => Synced)

LEMMA ClosedInStep ==
  ASSUME CddbDisconnect, pc' \in {"idle", "connect"}
  PROVE  InStep'
  BY DEF CddbDisconnect, Close, InStep, NothingOnClosed

LEMMA AbandonedInStep ==
  ASSUME sock' = "open", clean' = FALSE
  PROVE  InStep'
  BY DEF InStep, NothingOnClosed

\* A call that waits for the server has an open socket.
LEMMA SocketIsOpen ==
  ASSUME TypeOK, InStep, pc \notin {"idle", "connect"}
  PROVE  sock = "open" /\ (clean => Synced)
  BY DEF TypeOK, InStep, NothingOnClosed

LEMMA FailNoCodeInStep ==
  ASSUME TypeOK, InStep, pc \notin {"idle", "connect"}, FailNoCode
  PROVE  InStep'
  BY SocketIsOpen, AbandonedInStep DEF FailNoCode, KeepSocket

\* The call returns, having read the whole answer or given it up.
LEMMA EndsInStep ==
  ASSUME TypeOK, InStep, pc \in Onward, ~StrayPost, NEW rest, NEW e, NEW r,
         clean' = FALSE \/ (clean' = clean /\ Arrives /\ (clean => rest = <<>>)),
         DropConnection \/ GiveUp(e, rest) \/ Succeed(r, e, rest) \/ RecordEnds(e, rest)
  PROVE  InStep'
<1>1. pc' = "idle"
  BY DEF DropConnection, GiveUp, Succeed, RecordEnds, Return
<1>2. CASE CddbDisconnect
  BY <1>1, <1>2, ClosedInStep
<1>3. CASE ~CddbDisconnect
  <2>1. KeepSocket /\ tx' = tx /\ rx' = rest
    BY <1>3 DEF DropConnection, GiveUp, Succeed, RecordEnds, HttpClose
  <2>2. sock = "open" /\ sock' = "open" /\ (clean => Synced)
    BY <2>1, SocketIsOpen DEF Onward, KeepSocket
  <2>3. CASE clean' = FALSE
    BY <2>2, <2>3, AbandonedInStep
  <2>4. CASE clean' = clean /\ Arrives /\ clean /\ rest = <<>>
    <3>1. tx = <<>> /\ link \in {"up", "eof"} /\ Greeted
      BY <2>2, <2>4 DEF Synced, OneRequest, Arrives
    <3>2. Greeted' /\ link' \in {"up", "eof"}
      BY <2>1, <2>4, <3>1, GreetedKept DEF KeepSocket
    <3>3. Synced'
      BY <2>1, <2>4, <3>1, <3>2, NothingInFlight
    <3>. QED
      BY <2>2, <3>3 DEF InStep, NothingOnClosed
  <2>5. CASE clean' = clean /\ ~clean
    BY <2>2, <2>5 DEF InStep, NothingOnClosed
  <2>. QED
    BY <2>3, <2>4, <2>5
<1>. QED
  BY <1>2, <1>3

\* The call goes on with the next line of the answer.
LEMMA ReadOnInStep ==
  ASSUME TypeOK, InStep, Arrives, rx' = Tail(rx), KeepSocket,
         UNCHANGED <<tx, cmd, call, clean>>, ~StrayPost, ~StrayPost',
         pc \in Onward, pc' \in Onward, Asked' = Asked
  PROVE  InStep'
<1>1. sock = "open" /\ sock' = "open" /\ (clean => Synced)
  BY SocketIsOpen DEF Onward, KeepSocket
<1>2. clean => Synced'
  BY <1>1, ReadOn
<1>. QED
  BY <1>1, <1>2 DEF InStep, NothingOnClosed

\* The call has read the answer to one request and sends the next.
LEMMA NextRequestInStep ==
  ASSUME TypeOK, InStep, HasCode, rx' = Tail(rx), KeepSocket, UNCHANGED <<cmd, call, clean>>,
         \A code \in Nat : ~HasBody(Asked, code),
         NEW req, Transmit(req, FALSE, call),
         req \in {"hello", "proto", "data"}, Asked' = "data", ~StrayPost, ~StrayPost',
         pc \notin {"idle", "connect"}, pc' \in Onward
  PROVE  InStep'
<1>1. sock = "open" /\ sock' = "open" /\ (clean => Synced)
  BY SocketIsOpen DEF KeepSocket
<1>2. ASSUME clean PROVE Synced'
  <2>0. TypeOK /\ Arrives /\ OneAnswer /\ OneRequest /\ Greeted /\ link \in {"up", "eof"}
    BY <1>1, <1>2 DEF Synced, HasCode
  <2>1. Head(rx).code \in Nat
    BY <2>0, HeadType
  <2>2. rx' = <<>> /\ tx = <<>>
    BY <2>0, <2>1, NothingBehindStatus DEF OneRequest, Arrives
  <2>3. OneRequest'
    BY <2>0, <2>2, RequestLeaves
  <2>4. OneAnswer'
    <3>1. DOMAIN rx' = {}
      BY <2>2, EmptySeq
    <3>. QED
      BY <3>1 DEF OneAnswer
  <2>. QED
    BY <2>0, <2>3, <2>4, GreetedKept DEF Synced, KeepSocket
<1>. QED
  BY <1>1, <1>2 DEF InStep, NothingOnClosed

----------------------------------------------------------------------------
(* The steps of a call, and those of the application.                      *)

\* Between the commands nothing is in flight but a notice that the server hangs
\* up, whatever the application changes about the next call.
LEMMA QuietInStep ==
  ASSUME InStep, Quiet, UNCHANGED <<netVars, sock, clean>>,
         pc' \in {"idle", "connect"} \/ (pc' = "send" /\ sock = "open")
  PROVE  InStep'
<1>1. NothingOnClosed'
  BY DEF InStep, NothingOnClosed, netVars
<1>2. ASSUME sock = "open", clean PROVE Synced'
  <2>1. /\ link \in {"up", "eof"} /\ OneRequest /\ OneAnswer /\ Greeted /\ tx = <<>>
        /\ pc # "banner" /\ Quiet' /\ pc' # "banner"
    BY <1>2 DEF InStep, Synced, OneRequest, Quiet
  <2>2. OneRequest'
    <3>1. tx' = <<>> /\ DOMAIN tx' = {}
      BY <2>1, EmptySeq DEF netVars
    <3>. QED
      BY <3>1 DEF OneRequest
  <2>3. OneAnswer'
    <3>1. Asked = "data" /\ Asked' = "data" /\ ~StrayPost /\ ~StrayPost'
      BY <2>1 DEF Asked, Quiet, StrayPost
    <3>. QED
      BY <2>1, <3>1 DEF OneAnswer, netVars
  <2>4. Greeted' /\ link' \in {"up", "eof"}
    BY <2>1 DEF Greeted, netVars
  <2>. QED
    BY <2>2, <2>3, <2>4 DEF Synced
<1>. QED
  BY <1>1, <1>2 DEF InStep

LEMMA ApplicationInStep ==
  ASSUME TypeInv, InStep, Application
  PROVE  InStep'
<1>1. CASE \E c \in Calls : CddbCall(c)
  <2>1. PICK c \in Calls : CddbCall(c)
    BY <1>1
  <2>2. Quiet /\ UNCHANGED <<netVars, sock, clean>> /\ pc' \in {"idle", "connect"}
    BY <2>1 DEF CddbCall, KeepSocket, Quiet, netVars
  <2>. QED
    BY <2>2, QuietInStep
<1>2. CASE SetCacheMode \/ CddbSetSite
  <2>1. Quiet /\ UNCHANGED <<netVars, sock, clean>> /\ pc' \in {"idle", "connect"}
    BY <1>2 DEF SetCacheMode, CddbSetSite, histVars, netVars, Quiet
  <2>. QED
    BY <2>1, QuietInStep
<1>. QED
  BY <1>1, <1>2 DEF Application

LEMMA ConnectInStep ==
  ASSUME TypeInv, InStep,
         CddbConnectReuse \/ CddbConnectNoSocket \/ CddbConnectFails \/ CddbConnectSucceeds
  PROVE  InStep'
<1>1. CASE CddbConnectReuse \/ CddbConnectNoSocket
  <2>1. /\ Quiet /\ UNCHANGED <<netVars, sock, clean>>
        /\ pc' = "idle" \/ (pc' = "send" /\ sock = "open")
    BY <1>1 DEF CddbConnectReuse, CddbConnectNoSocket, GoOn, Return, histVars, Quiet
  <2>. QED
    BY <2>1, QuietInStep
<1>2. CASE CddbConnectFails
  BY <1>2, AbandonedInStep DEF CddbConnectFails, OpenSocket
<1>3. CASE CddbConnectSucceeds
  <2>1. /\ rx' = <<>> /\ tx' = <<>> /\ link' \in {"up", "eof"} /\ sock' = "open"
        /\ pc' = "banner" \/ peer' \in HttpSites
    BY <1>3 DEF CddbConnectSucceeds, OpenSocket, GoOn, Http
  <2>2. Greeted'
    BY <2>1 DEF Greeted
  <2>. QED
    BY <2>1, <2>2, NothingInFlight DEF InStep, NothingOnClosed
<1>. QED
  BY <1>1, <1>2, <1>3

LEMMA HandshakeInStep ==
  ASSUME TypeInv, InStep, CddbHandshakeBanner \/ CddbHandshakeHello \/ CddbHandshakeProto
  PROVE  InStep'
<1>0. /\ TypeOK /\ pc \in {"banner", "hello", "proto"} /\ Asked = "data" /\ ~StrayPost
      /\ \A code \in Nat : ~HasBody(Asked, code)
      /\ sock = "open" /\ (clean => Synced)
  <2>1. pc \in {"banner", "hello", "proto"}
    BY DEF CddbHandshakeBanner, CddbHandshakeHello, CddbHandshakeProto, Handshake
  <2>. QED
    BY <2>1, SocketIsOpen DEF Asked, HasBody, TypeInv, StrayPost
<1>1. CASE FailNoCode
  BY <1>0, <1>1, FailNoCodeInStep
<1>2. CASE ~FailNoCode /\ clean' = FALSE
  BY <1>0, <1>2, AbandonedInStep
     DEF CddbHandshakeBanner, CddbHandshakeHello, CddbHandshakeProto, Handshake, KeepSocket
<1>3. CASE ~FailNoCode /\ clean' # FALSE /\ (CddbHandshakeBanner \/ CddbHandshakeHello)
  <2>1. PICK req \in {"hello", "proto"} :
          /\ HasCode /\ rx' = Tail(rx) /\ KeepSocket /\ UNCHANGED <<cmd, call, clean>>
          /\ Transmit(req, FALSE, call) /\ pc' \in {"hello", "proto"}
    BY <1>3 DEF CddbHandshakeBanner, CddbHandshakeHello, Handshake, GoOn, appVars
  <2>2. Asked' = "data" /\ pc' \in Onward /\ ~StrayPost'
    BY <2>1 DEF Asked, Onward, StrayPost
  <2>. QED
    BY <1>0, <2>1, <2>2, NextRequestInStep
<1>4. CASE ~FailNoCode /\ CddbHandshakeProto
  <2>1. /\ HasCode /\ rx' = Tail(rx) /\ KeepSocket /\ tx' = tx /\ clean' = clean
        /\ Arrives
    BY <1>4 DEF CddbHandshakeProto, HasCode
  <2>2. ASSUME clean PROVE Synced'
    <3>0. OneAnswer /\ OneRequest /\ Greeted /\ link \in {"up", "eof"}
      BY <1>0, <2>2 DEF Synced
    <3>1. Head(rx).code \in Nat
      BY <1>0, <2>1, HeadType
    <3>2. rx' = <<>> /\ tx' = <<>>
      BY <1>0, <2>1, <3>0, <3>1, NothingBehindStatus DEF OneRequest, Arrives
    <3>3. Greeted' /\ link' \in {"up", "eof"}
      BY <2>1, <3>0, GreetedKept DEF KeepSocket
    <3>. QED
      BY <3>2, <3>3, NothingInFlight
  <2>. QED
    BY <1>0, <2>1, <2>2 DEF InStep, NothingOnClosed, KeepSocket
<1>. QED
  BY <1>1, <1>2, <1>3, <1>4

\* A request leaves on a quiet connection.
LEMMA RequestInStep ==
  ASSUME TypeInv, InStep, pc = "send",
         link \in {"up", "eof"} /\ tx = <<>> /\ (rx' = <<>> \/ link = "eof") => OneRequest',
         KeepSocket, UNCHANGED <<rx, cmd, call, clean>>,
         pc' \in {"answer", "httpStatus", "postHeaders"}
  PROVE  InStep'
<1>0. TypeOK /\ sock = "open" /\ sock' = "open" /\ (clean => Synced)
  BY SocketIsOpen DEF KeepSocket, TypeInv
<1>1. ASSUME clean PROVE Synced'
  <2>1. /\ link \in {"up", "eof"} /\ OneRequest /\ OneAnswer /\ Greeted /\ tx = <<>>
        /\ pc # "banner" /\ Quiet /\ ~Quiet' /\ pc' \in Onward /\ pc' # "banner"
    BY <1>0, <1>1 DEF Synced, OneRequest, Quiet, Onward
  <2>2. \A i \in DOMAIN rx :
          /\ rx[i].for = 0 /\ rx[i].kind = "status" /\ rx[i].code = 530 /\ link = "eof"
          /\ rx[i].last <=> ~HasBody(Asked, 530)
          /\ rx[i].last => i = Len(rx)
    BY <2>1 DEF OneAnswer, Quiet, StrayPost
  <2>3. rx' = <<>> \/ link = "eof"
    <3>1. rx # <<>> => 1 \in DOMAIN rx
      BY <1>0, RxShape, HeadAndTail
    <3>. QED
      BY <2>2, <3>1
  <2>4. OneRequest'
    BY <2>1, <2>3
  <2>5. ~HasBody(Asked, 530) /\ ~HasBody(Asked', 530)
    BY DEF HasBody
  <2>6. OneAnswer'
    BY <2>1, <2>2, <2>5 DEF OneAnswer, KeepSocket
  <2>7. Greeted' /\ link' \in {"up", "eof"}
    BY <2>1, GreetedKept DEF KeepSocket
  <2>. QED
    BY <2>4, <2>6, <2>7 DEF Synced
<1>. QED
  BY <1>0, <1>1 DEF InStep, NothingOnClosed

LEMMA SendInStep ==
  ASSUME TypeInv, InStep, CddbSendCmd \/ CddbHttpSendCmd \/ CddbHttpPost
  PROVE  InStep'
<1>0. pc = "send" /\ cmd \in Commands /\ UNCHANGED <<cmd, call, clean>>
  BY DEF CddbSendCmd, CddbHttpSendCmd, CddbHttpPost, TypeInv, InCall, appVars, histVars
<1>1. CASE CddbDisconnect
  <2>1. ~KeepSocket
    BY <1>0, <1>1, SocketIsOpen DEF KeepSocket, CddbDisconnect, TypeInv
  <2>2. pc' = "idle"
    BY <1>1, <2>1 DEF CddbSendCmd, CddbHttpSendCmd, CddbHttpPost, Return
  <2>. QED
    BY <1>1, <2>2, ClosedInStep
<1>2. CASE CddbSendCmd \/ (CddbHttpSendCmd /\ ~CddbDisconnect)
  <2>1. PICK req \in {cmd, "newline"} :
          /\ \E http \in BOOLEAN : Transmit(req, http, call)
          /\ KeepSocket /\ rx' = rx /\ pc' \in {"answer", "httpStatus"}
    BY <1>2 DEF CddbSendCmd, CddbHttpSendCmd, GoOn
  <2>2. PICK http \in BOOLEAN : Transmit(req, http, call)
    BY <2>1
  <2>3. Asked' = cmd /\ cmd # "data" /\ pc' \in Onward
    BY <1>0, <2>1 DEF Asked, Commands, Onward
  <2>4. link \in {"up", "eof"} /\ tx = <<>> /\ (rx' = <<>> \/ link = "eof") => OneRequest'
    BY <1>0, <2>1, <2>2, <2>3, RequestLeaves DEF TypeInv
  <2>. QED
    BY <1>0, <2>1, <2>4, RequestInStep
<1>3. CASE CddbHttpPost
  <2>1. /\ TransmitPost("write", call) /\ KeepSocket /\ rx' = rx /\ pc' = "postHeaders"
    BY <1>3 DEF CddbHttpPost, GoOn
  <2>2. link \in {"up", "eof"} /\ tx = <<>> /\ (rx' = <<>> \/ link = "eof") => OneRequest'
    BY <1>0, <2>1, PostLeaves DEF TypeInv
  <2>. QED
    BY <1>0, <2>1, <2>2, RequestInStep
<1>. QED
  BY <1>1, <1>2, <1>3

LEMMA HeadersInStep ==
  ASSUME TypeInv, InStep,
         CddbHttpParseResponse \/ CddbHttpParseHeaders \/ CddbPostParseHeaders
  PROVE  InStep'
<1>0. /\ TypeOK /\ pc \in {"httpStatus", "httpHeaders", "postHeaders"} /\ pc \in Onward
      /\ UNCHANGED <<cmd, call>> /\ sock = "open"
  <2>1. /\ pc \in {"httpStatus", "httpHeaders", "postHeaders"} /\ UNCHANGED <<cmd, call>>
    BY DEF CddbHttpParseResponse, CddbHttpParseHeaders, CddbPostParseHeaders, SkipHeaders,
       appVars
  <2>. QED
    BY <2>1, SocketIsOpen DEF Onward, TypeInv
<1>1. CASE CddbHttpParseResponse /\ CddbDisconnect
  <2>1. ~KeepSocket
    BY <1>0, <1>1 DEF KeepSocket, CddbDisconnect
  <2>2. pc' = "idle"
    BY <1>1, <2>1 DEF CddbHttpParseResponse, HttpFails, Return
  <2>. QED
    BY <1>1, <2>2, ClosedInStep
<1>2. CASE CddbHttpParseResponse /\ ~CddbDisconnect
  <2>1. /\ Arrives /\ rx' = Tail(rx) /\ KeepSocket /\ UNCHANGED <<clean, tx>>
        /\ pc = "httpStatus" /\ pc' = "httpHeaders"
    BY <1>2 DEF CddbHttpParseResponse, HttpFails, GoOn
  <2>2. Asked' = Asked /\ pc' \in Onward /\ ~StrayPost /\ ~StrayPost'
    BY <1>0, <2>1 DEF Asked, Onward, StrayPost
  <2>. QED
    BY <1>0, <2>1, <2>2, ReadOnInStep
<1>3. CASE CddbHttpParseHeaders \/ CddbPostParseHeaders
  <2>1. CASE clean' = FALSE
    BY <1>0, <1>3, <2>1, AbandonedInStep
       DEF CddbHttpParseHeaders, CddbPostParseHeaders, SkipHeaders, KeepSocket
  <2>2. CASE clean' # FALSE
    <3>1. /\ Arrives /\ rx' = Tail(rx) /\ KeepSocket /\ UNCHANGED <<clean, tx>>
          /\ \/ pc = "httpHeaders" /\ pc' \in {"httpHeaders", "answer"}
             \/ pc = "postHeaders" /\ pc' = (IF Head(rx).kind = "blank" THEN "entry" ELSE pc)
      BY <1>3, <2>2 DEF CddbHttpParseHeaders, CddbPostParseHeaders, SkipHeaders, GoOn
    <3>2. Asked' = Asked /\ pc' \in Onward
      BY <1>0, <3>1 DEF Asked, Onward
    <3>3. CASE StrayPost
      <4>1. sock' = "open" /\ (clean => Synced)
        BY <1>0, <3>1, SocketIsOpen DEF KeepSocket
      <4>2. clean => Synced'
        <5>1. Head(rx) = rx[1] /\ 1 \in DOMAIN rx
          BY <1>0, <3>1, RxShape, HeadAndTail DEF Arrives
        <5>2. clean => pc' = pc
          BY <3>1, <3>3, <4>1, <5>1 DEF Synced, OneAnswer, StrayPost
        <5>. QED
          BY <1>0, <3>1, <3>3, <4>1, <5>2, StrayOn
      <4>. QED
        BY <3>1, <4>1, <4>2 DEF InStep, NothingOnClosed
    <3>4. CASE ~StrayPost
      <4>1. ~StrayPost'
        BY <3>1, <3>4 DEF StrayPost, KeepSocket
      <4>. QED
        BY <1>0, <3>1, <3>2, <3>4, <4>1, ReadOnInStep
    <3>. QED
      BY <3>3, <3>4
  <2>. QED
    BY <2>1, <2>2
<1>. QED
  BY <1>1, <1>2, <1>3

\* A verdict that does not go on to a body is given on an answer without one.
LEMMA BodyVerdict ==
  ASSUME NEW code \in Nat, cmd \in Commands
  PROVE  /\ AnswerVerdict(cmd, code) # "BODY" => ~HasBody(cmd, code)
         /\ ~HasBody("write", code) /\ ~HasBody("data", code)
  BY DEF AnswerVerdict, HasBody, ReadVerdict, ListVerdict, SitesVerdict, GoAheadVerdict,
     Commands

LEMMA AnswerInStep ==
  ASSUME TypeInv, InStep, CddbAnswer \/ CddbWriteGoAhead \/ CddbWriteEntry
  PROVE  InStep'
<1>0. /\ TypeOK /\ pc \in {"answer", "entry"} /\ pc \in Onward /\ cmd \in Commands
      /\ UNCHANGED <<cmd, call>> /\ sock = "open" /\ (clean => Synced) /\ ~StrayPost
  <2>1. pc \in {"answer", "entry"} /\ UNCHANGED <<cmd, call>>
    BY DEF CddbAnswer, CddbWriteGoAhead, CddbWriteEntry, FailNoCode, appVars
  <2>. QED
    BY <2>1, SocketIsOpen DEF Onward, TypeInv, InCall, StrayPost
<1>1. CASE FailNoCode
  BY <1>0, <1>1, FailNoCodeInStep
<1>2. CASE ~FailNoCode
  <2>1. HasCode /\ Arrives /\ clean' = clean /\ Head(rx).code \in Nat
    <3>1. HasCode /\ Arrives /\ clean' = clean
      BY <1>2 DEF CddbAnswer, CddbWriteGoAhead, CddbWriteEntry, HasCode
    <3>. QED
      BY <1>0, <3>1, HeadType
  <2>2. CASE CddbAnswer /\ AnswerVerdict(cmd, Head(rx).code) = "BODY"
    <3>1. /\ KeepSocket /\ tx' = tx /\ rx' = Tail(rx) /\ pc = "answer" /\ pc' = "body"
      BY <1>2, <2>2 DEF CddbAnswer, GoOn, Errors
    <3>2. Asked' = Asked /\ pc' \in Onward /\ ~StrayPost'
      BY <1>0, <3>1 DEF Asked, Onward, StrayPost
    <3>. QED
      BY <1>0, <2>1, <3>1, <3>2, ReadOnInStep
  <2>3. CASE CddbWriteGoAhead /\ GoAheadVerdict(Head(rx).code) = "GO"
    <3>1. /\ Transmit("data", FALSE, call) /\ rx' = Tail(rx) /\ pc' = "entry"
          /\ KeepSocket /\ pc = "answer" /\ cmd = "write"
      BY <1>2, <2>3 DEF CddbWriteGoAhead, GoOn, Errors
    <3>2. Asked = "write" /\ Asked' = "data" /\ pc' \in Onward /\ ~StrayPost'
      BY <3>1 DEF Asked, Onward, StrayPost
    <3>3. \A code \in Nat : ~HasBody(Asked, code)
      BY <3>2 DEF HasBody
    <3>. QED
      BY <1>0, <2>1, <3>1, <3>2, <3>3, NextRequestInStep
  <2>4. CASE /\ ~(CddbAnswer /\ AnswerVerdict(cmd, Head(rx).code) = "BODY")
             /\ ~(CddbWriteGoAhead /\ GoAheadVerdict(Head(rx).code) = "GO")
    <3>1. ~HasBody(Asked, Head(rx).code)
      BY <1>0, <2>1, <2>4, BodyVerdict DEF CddbAnswer, CddbWriteGoAhead, CddbWriteEntry, Asked
    <3>2. clean => Tail(rx) = <<>>
      BY <1>0, <2>1, <3>1, NothingBehindStatus DEF Synced
    <3>3. \E r, e : DropConnection \/ GiveUp(e, Tail(rx)) \/ Succeed(r, e, Tail(rx))
      <4>1. CASE CddbAnswer
        BY <1>2, <2>4, <4>1 DEF CddbAnswer
      <4>2. CASE CddbWriteGoAhead
        BY <1>2, <2>4, <4>2 DEF CddbWriteGoAhead
      <4>3. CASE CddbWriteEntry
        BY <1>2, <4>3 DEF CddbWriteEntry
      <4>. QED
        BY <4>1, <4>2, <4>3
    <3>. QED
      BY <1>0, <2>1, <3>2, <3>3, EndsInStep
  <2>. QED
    BY <2>2, <2>3, <2>4
<1>. QED
  BY <1>1, <1>2

LEMMA BodyInStep ==
  ASSUME TypeInv, InStep, CddbReadBody \/ CddbListBody \/ CddbSitesBody
  PROVE  InStep'
<1>0. /\ TypeOK /\ pc = "body" /\ pc \in Onward /\ UNCHANGED <<cmd, call>>
      /\ sock = "open" /\ (clean => Synced) /\ ~StrayPost
  <2>1. pc = "body" /\ UNCHANGED <<cmd, call>>
    BY DEF CddbReadBody, CddbListBody, CddbSitesBody, appVars
  <2>. QED
    BY <2>1, SocketIsOpen DEF Onward, TypeInv, StrayPost
\* Each way on is one of three: the rest is given up, the dot was read, or the
\* next line is.
<1>1. \/ /\ clean' = FALSE
         /\ \E rest, e, r : GiveUp(e, rest) \/ Succeed(r, e, rest) \/ RecordEnds(e, rest)
      \/ /\ Arrives /\ Head(rx).kind = "dot" /\ clean' = clean
         /\ \E e, r : GiveUp(e, Tail(rx)) \/ Succeed(r, e, Tail(rx)) \/ RecordEnds(e, Tail(rx))
      \/ /\ Arrives /\ rx' = Tail(rx) /\ KeepSocket /\ UNCHANGED <<clean, tx>>
         /\ pc' = "body"
  <2>1. CASE CddbReadBody
    BY <2>1 DEF CddbReadBody, GoOn
  <2>2. CASE CddbListBody
    BY <2>2 DEF CddbListBody, ListEnds, GoOn
  <2>3. CASE CddbSitesBody
    BY <2>3 DEF CddbSitesBody, GoOn
  <2>. QED
    BY <2>1, <2>2, <2>3
<1>2. CASE /\ clean' = FALSE
           /\ \E rest, e, r :
                GiveUp(e, rest) \/ Succeed(r, e, rest) \/ RecordEnds(e, rest)
  BY <1>0, <1>2, EndsInStep
<1>3. CASE /\ Arrives /\ Head(rx).kind = "dot" /\ clean' = clean
           /\ \E e, r :
                GiveUp(e, Tail(rx)) \/ Succeed(r, e, Tail(rx)) \/ RecordEnds(e, Tail(rx))
  <2>1. clean => Tail(rx) = <<>>
    BY <1>0, <1>3, NothingBehindDot DEF Synced
  <2>. QED
    BY <1>0, <1>3, <2>1, EndsInStep
<1>4. CASE /\ Arrives /\ rx' = Tail(rx) /\ KeepSocket /\ UNCHANGED <<clean, tx>>
           /\ pc' = "body"
  <2>1. Asked' = Asked /\ pc' \in Onward /\ ~StrayPost'
    BY <1>0, <1>4 DEF Asked, Onward, StrayPost
  <2>. QED
    BY <1>0, <1>4, <2>1, ReadOnInStep
<1>. QED
  BY <1>1, <1>2, <1>3, <1>4

----------------------------------------------------------------------------
(* The steps of the server and the network.                                *)

\* A complete answer to the one request in flight.
LEMMA AnsweredInStep ==
  ASSUME TypeInv, Synced, UNCHANGED <<clientVars, peer>>, tx # <<>>, tx' = <<>>, ~StrayPost,
         link' \in {"up", "eof"}, Greeted',
         NEW lines \in Seq(Lines), rx' = rx \o lines,
         \A i \in DOMAIN lines :
           /\ lines[i].for = tx[1].for
           /\ lines[i].last => i = Len(lines)
           /\ lines[i].kind = "dot" => lines[i].last
           /\ lines[i].kind = "status" =>
                (lines[i].last <=> ~HasBody(Asked, lines[i].code))
  PROVE  Synced'
<1>1. rx = <<>> /\ ~Quiet /\ pc # "banner"
  BY DEF Synced, OneRequest
<1>2. rx' = lines
  BY <1>1
<1>3. tx[1].for = call /\ call # 0
  <2>1. 1 \in DOMAIN tx
    BY RxShape, HeadAndTail DEF TypeInv
  <2>2. tx[1].for = call
    BY <2>1 DEF Synced, OneRequest
  <2>3. call # 0
    BY <1>1, RxShape DEF TypeInv, InCall, Quiet
  <2>. QED
    BY <2>2, <2>3
<1>4. OneRequest'
  <2>1. DOMAIN tx' = {}
    BY EmptySeq
  <2>. QED
    BY <2>1 DEF OneRequest
<1>5. OneAnswer'
  <2>1. Asked' = Asked /\ call' = call /\ pc' = pc /\ ~StrayPost'
    BY DEF clientVars, Asked, StrayPost
  <2>. QED
    BY <1>1, <1>2, <1>3, <2>1 DEF OneAnswer, Quiet
<1>. QED
  BY <1>4, <1>5 DEF Synced

\* A line the server sends unasked, when nothing is in flight.
LEMMA NoticeInStep ==
  ASSUME TypeInv, Synced, UNCHANGED clientVars, rx = <<>>, tx = <<>>, tx' = <<>>,
         NEW code \in Nat, rx' = rx \o <<Status(code, 0, TRUE)>>,
         pc = "banner" \/ code = 530,
         link' \in {"up", "eof"}, code = 530 => link' = "eof", Greeted'
  PROVE  Synced'
<1>1. rx' = <<Status(code, 0, TRUE)>> /\ DOMAIN rx' = {1} /\ Len(rx') = 1
      /\ rx'[1] = Status(code, 0, TRUE)
  OBVIOUS
<1>2. rx'[1].for = 0 /\ rx'[1].last = TRUE /\ rx'[1].kind = "status" /\ rx'[1].code = code
  BY <1>1 DEF Status, Line
<1>3. pc = "banner" => Asked = "data"
  BY DEF Asked
<1>4. ~HasBody(Asked, code)
  BY <1>3 DEF HasBody
<1>5. Asked' = Asked /\ call' = call /\ pc' = pc
  BY DEF clientVars, Asked
<1>6. OneAnswer'
  <2>1. /\ rx'[1].last <=> ~HasBody(Asked', rx'[1].code)
        /\ rx'[1].kind = "dot" => rx'[1].last
    BY <1>2, <1>4, <1>5, Zenon
  <2>2. 1 = Len(rx') /\ rx'[1].for \in {0, call'}
    BY <1>1, <1>2
  <2>3. rx'[1].for = 0 /\ pc' # "banner" =>
          rx'[1].kind = "status" /\ rx'[1].code = 530 /\ link' = "eof"
    BY <1>2, <1>5
  <2>4. \A i \in DOMAIN rx' : i = 1
    BY <1>1
  <2>. DEFINE Fits(i) ==
         /\ rx'[i].for \in {0, call'}
         /\ StrayPost' => rx'[i].kind = "status"
         /\ rx'[i].last /\ ~StrayPost' => i = Len(rx')
         /\ rx'[i].kind = "dot" => rx'[i].last
         /\ rx'[i].kind = "status" => (rx'[i].last <=> ~HasBody(Asked', rx'[i].code))
         /\ Quiet' => rx'[i].for = 0
         /\ rx'[i].for = 0 /\ pc' # "banner" =>
              rx'[i].kind = "status" /\ rx'[i].code = 530 /\ link' = "eof"
  <2>5. Fits(1)
    BY <1>2, <2>1, <2>2, <2>3, Zenon
  <2>6. \A i \in DOMAIN rx' : Fits(i)
    <3>. HIDE DEF Fits
    <3>. QED
      BY <2>4, <2>5
  <2>. QED
    BY <2>6 DEF OneAnswer
<1>7. OneRequest'
  <2>1. DOMAIN tx' = {}
    BY EmptySeq
  <2>. QED
    BY <2>1 DEF OneRequest
<1>. QED
  BY <1>6, <1>7 DEF Synced

\* What the request in flight may be, and what may be behind it.
LEMMA RequestShape ==
  ASSUME TypeInv, Synced, tx # <<>>
  PROVE  /\ Head(tx) = tx[1] /\ Head(tx) \in Messages /\ Head(tx).for = call /\ call # 0
         /\ pc # "postHeaders" => Tail(tx) = <<>>
         /\ rx = <<>> \/ StrayPost
         /\ pc # "banner"
         /\ Head(tx).req \in IF Asked = "data" THEN {"hello", "proto", "data", "write"}
                            ELSE {cmd, "newline"}
         /\ cmd \in Commands /\ Asked \in {"data", cmd}
<1>1. /\ Head(tx) = tx[1] /\ Head(tx) \in Messages /\ 1 \in DOMAIN tx
      /\ Len(tx) \in Nat /\ Len(tx) > 0 /\ DOMAIN tx = 1..Len(tx)
      /\ Tail(tx) \in Seq(Messages) /\ Len(Tail(tx)) = Len(tx) - 1
  BY RxShape, HeadAndTail DEF TypeInv
<1>2. pc # "postHeaders" => \A i \in DOMAIN tx : i = 1
  BY DEF Synced, OneRequest
<1>3. pc # "postHeaders" => Len(tx) = 1
  BY <1>1, <1>2
<1>. DEFINE rest == Tail(tx)
<1>4. ASSUME pc # "postHeaders" PROVE rest \in Seq(Messages) /\ Len(rest) = 0
  <2>1. rest \in Seq(Messages) /\ Len(rest) = Len(tx) - 1
    BY <1>1
  <2>. HIDE DEF rest
  <2>2. Len(rest) = 1 - 1
    BY <2>1, <1>3, <1>4, Zenon
  <2>. QED
    BY <2>1, <2>2
<1>5. pc # "postHeaders" => rest = <<>>
  <2>. HIDE DEF rest
  <2>. QED
    BY <1>4, EmptySeq
<1>6. (rx = <<>> \/ StrayPost) /\ pc # "banner" /\ ~Quiet
  BY DEF Synced, OneRequest
<1>7. cmd \in Commands /\ Asked \in {"data", cmd} /\ call # 0
  BY <1>6, RxShape DEF TypeInv, InCall, Quiet, Asked
<1>. QED
  BY <1>1, <1>5, <1>6, <1>7 DEF Synced, OneRequest

\* An answer to the request in flight announces data where the call expects them.
LEMMA BodyAsAsked ==
  ASSUME TypeInv, Synced, tx # <<>>, NEW code \in Nat,
         Head(tx).req = "newline" => code = 500
  PROVE  HasBody(Asked, code) <=> HasBody(Head(tx).req, code)
<1>1. CASE Head(tx).req = "newline"
  BY <1>1 DEF HasBody
<1>2. CASE Head(tx).req # "newline" /\ Asked = "data"
  BY <1>2, RequestShape DEF HasBody
<1>3. CASE Head(tx).req # "newline" /\ Asked # "data"
  BY <1>3, RequestShape
<1>. QED
  BY <1>1, <1>2, <1>3

\* A CDDBP server takes the headers of a stray POST, or the entry, for a command and
\* answers with one line, or for a part of an entry and does not.
LEMMA StrayInStep ==
  ASSUME TypeInv, Synced, StrayPost, UNCHANGED <<clientVars, peer>>, tx # <<>>, tx' = Tail(tx),
         link = "up", link' \in {"up", "eof"}, Greeted',
         NEW lines \in Seq(Lines), rx' = rx \o lines,
         \A i \in DOMAIN lines :
           /\ lines[i].for = call
           /\ lines[i].kind = "status" /\ lines[i].last
  PROVE  Synced'
<1>1. /\ pc = "postHeaders" /\ Asked = "data" /\ Asked' = Asked /\ StrayPost' /\ ~Quiet'
      /\ pc' = pc /\ call' = call /\ call # 0
  <2>1. call # 0
    BY RequestShape
  <2>. QED
    BY <2>1 DEF StrayPost, Asked, clientVars, Quiet
<1>2. OneRequest'
  <2>1. \A i \in DOMAIN tx' : i + 1 \in DOMAIN tx /\ tx'[i] = tx[i + 1]
    BY RxShape, HeadAndTail DEF TypeInv
  <2>2. ASSUME NEW i \in DOMAIN tx'
        PROVE  tx'[i].for = call /\ tx'[i].req \in {"hello", "proto", "data", "write"}
    BY <1>1, <2>1 DEF Synced, OneRequest
  <2>. QED
    BY <1>1, <2>2 DEF OneRequest
<1>3. OneAnswer'
  <2>1. /\ Len(rx) \in Nat /\ Len(lines) \in Nat /\ DOMAIN lines = 1..Len(lines)
        /\ DOMAIN rx = 1..Len(rx) /\ DOMAIN rx' = 1..(Len(rx) + Len(lines))
        /\ \A i \in 1..(Len(rx) + Len(lines)) :
             rx'[i] = IF i <= Len(rx) THEN rx[i] ELSE lines[i - Len(rx)]
    BY RxShape, ConcatProperties DEF TypeInv
  <2>2. ASSUME NEW i \in DOMAIN rx'
        PROVE  \/ i \in DOMAIN rx /\ rx'[i] = rx[i]
               \/ \E j \in DOMAIN lines : rx'[i] = lines[j]
    BY <2>1
  <2>3. ASSUME NEW i \in DOMAIN rx
        PROVE  /\ rx[i].kind = "status" /\ rx[i].for = call
               /\ rx[i].last <=> ~HasBody("data", rx[i].code)
    BY <1>1 DEF Synced, OneAnswer
  <2>4. \A c : ~HasBody("data", c)
    BY DEF HasBody
  <2>5. ASSUME NEW i \in DOMAIN rx'
        PROVE  rx'[i].kind = "status" /\ rx'[i].for = call /\ rx'[i].last
    BY <2>2, <2>3, <2>4, <2>5
  <2>6. ASSUME NEW i \in DOMAIN rx'
        PROVE  rx'[i].kind = "status" => (rx'[i].last <=> ~HasBody("data", rx'[i].code))
    BY <2>4, <2>5, <2>6, Zenon
  <2>. QED
    BY <1>1, <2>5, <2>6 DEF OneAnswer
<1>. QED
  BY <1>2, <1>3 DEF Synced

LEMMA CommandInStep ==
  ASSUME TypeInv, Synced, SrvCommand, UNCHANGED clientVars
  PROVE  Synced'
<1>1. tx # <<>> /\ tx' = Tail(tx) /\ link = "up" /\ srv # "new" /\ peer' = peer
      /\ peer \notin HttpSites
  BY DEF SrvCommand
<1>2. /\ Head(tx) = tx[1] /\ Head(tx) \in Messages /\ Head(tx).for = call
      /\ ~StrayPost => tx' = <<>>
  BY <1>1, RequestShape DEF StrayPost
<1>3. PICK code \in IF Head(tx).http \/ Head(tx).req \in {"data", "newline"} THEN {500}
                    ELSE IF srv = "greeted" /\ Head(tx).req \in Commands THEN {409}
                    ELSE ReplyCodes[Head(tx).req] :
        \E lines \in Answers(Head(tx), code) :
          /\ Respond(lines, Closing(code))
          /\ srv' = IF Head(tx).http THEN srv ELSE NextSession(Head(tx).req, code)
  BY DEF SrvCommand
<1>4. PICK lines \in Answers(Head(tx), code) :
          /\ Respond(lines, Closing(code))
          /\ srv' = IF Head(tx).http THEN srv ELSE NextSession(Head(tx).req, code)
  BY <1>3
<1>5. code \in Nat /\ (Head(tx).req = "newline" => code = 500)
  <2>1. Head(tx).req \in Requests
    BY <1>2 DEF Messages
  <2>2. Head(tx).req = "newline" => code = 500
    BY <1>3
  <2>. QED
    BY <1>3, <2>1, <2>2, ReplyCodesAssumption
<1>6. /\ lines \in Seq(Lines)
      /\ \A i \in DOMAIN lines :
           /\ lines[i].for = Head(tx).for
           /\ lines[i].last <=> i = Len(lines)
           /\ lines[i].kind = "dot" => lines[i].last
           /\ lines[i].kind = "status" =>
                lines[i].code = code /\ (lines[i].last <=> ~HasBody(Head(tx).req, code))
  BY <1>2, <1>5, AnswersShape
<1>7. HasBody(Asked, code) <=> HasBody(Head(tx).req, code)
  BY <1>1, <1>5, BodyAsAsked
<1>8. link' \in {"up", "eof"} /\ rx' = rx \o lines
  BY <1>1, <1>4 DEF Respond
<1>9. Greeted'
  BY <1>1, <1>4 DEF Greeted, NextSession
<1>10. ASSUME NEW i \in DOMAIN lines
       PROVE  /\ lines[i].for = tx[1].for
              /\ lines[i].last => i = Len(lines)
              /\ lines[i].kind = "dot" => lines[i].last
              /\ lines[i].kind = "status" =>
                   (lines[i].last <=> ~HasBody(Asked, lines[i].code))
  <2>1. lines[i].for = tx[1].for
    BY <1>2, <1>6
  <2>2. (lines[i].last => i = Len(lines)) /\ (lines[i].kind = "dot" => lines[i].last)
    BY <1>6
  <2>3. lines[i].kind = "status" =>
          lines[i].code = code /\ (lines[i].last <=> ~HasBody(Head(tx).req, code))
    BY <1>6
  <2>. QED
    BY <2>1, <2>2, <2>3, <1>7, Zenon
<1>11. CASE StrayPost
  <2>1. Head(tx).req \in {"hello", "proto", "data", "write"}
    BY <1>1, <1>11, RequestShape DEF StrayPost, Asked
  <2>2. lines = <<Status(code, call, TRUE)>>
    BY <1>2, <1>4, <2>1 DEF Answers, HasBody
  <2>3. \A i \in DOMAIN lines :
          lines[i].for = call /\ lines[i].kind = "status" /\ lines[i].last
    BY <2>2 DEF Status, Line
  <2>. QED
    BY <1>1, <1>6, <1>8, <1>9, <1>11, <2>3, StrayInStep
<1>12. CASE ~StrayPost
  BY <1>1, <1>2, <1>6, <1>8, <1>9, <1>10, <1>12, AnsweredInStep
<1>. QED
  BY <1>11, <1>12

LEMMA EntryInStep ==
  ASSUME TypeInv, Synced, SrvEntry, UNCHANGED clientVars
  PROVE  Synced'
<1>1. tx # <<>> /\ tx' = Tail(tx) /\ link = "up" /\ srv = "input" /\ peer' = peer
      /\ peer \notin HttpSites
  BY DEF SrvEntry
<1>2. /\ Head(tx) = tx[1] /\ Head(tx) \in Messages /\ Head(tx).for = call
      /\ ~StrayPost => tx' = <<>> /\ rx = <<>>
  BY <1>1, RequestShape DEF StrayPost
<1>3. CASE ~(Head(tx).req = "data" /\ ~Head(tx).http)
  <2>1. rx' = rx /\ link' = link /\ srv' = srv
    BY <1>3 DEF SrvEntry
  <2>2. Greeted'
    BY <1>1, <2>1 DEF Greeted
  <2>3. CASE StrayPost
    <3>1. rx' = rx \o <<>> /\ <<>> \in Seq(Lines) /\ DOMAIN <<>> = {}
      BY <2>1, RxShape DEF TypeInv
    <3>. QED
      BY <1>1, <2>1, <2>2, <2>3, <3>1, StrayInStep
  <2>4. CASE ~StrayPost
    BY <1>1, <1>2, <2>1, <2>2, <2>4, NothingInFlight
  <2>. QED
    BY <2>3, <2>4
<1>4. CASE Head(tx).req = "data" /\ ~Head(tx).http
  <2>1. PICK code \in ReplyCodes["data"] :
          Respond(<<Status(code, Head(tx).for, TRUE)>>, Closing(code))
    BY <1>4 DEF SrvEntry
  <2>2. code \in Nat
    BY ReplyCodesAssumption DEF Requests
  <2>3. Asked = "data" /\ ~HasBody(Asked, code)
    <3>1. Asked = "data"
      BY <1>1, <1>4, RequestShape DEF Commands
    <3>. QED
      BY <3>1 DEF HasBody
  <2>. DEFINE l == Status(code, Head(tx).for, TRUE)
  <2>4. /\ l \in Lines /\ l.for = tx[1].for /\ l.last = TRUE /\ l.kind = "status"
        /\ l.code = code
    BY <1>2, <2>2 DEF Status, Line, Lines, Kinds, Messages
  <2>5. link' \in {"up", "eof"} /\ rx' = rx \o <<l>>
    BY <1>1, <2>1 DEF Respond
  <2>6. Greeted'
    BY <1>4 DEF SrvEntry, Greeted
  <2>. HIDE DEF l
  <2>7. <<l>> \in Seq(Lines) /\ Len(<<l>>) = 1 /\ DOMAIN <<l>> = {1} /\ <<l>>[1] = l
    BY <2>4
  <2>8. l.last /\ (l.kind = "status" => (l.last <=> ~HasBody(Asked, l.code)))
    BY <2>3, <2>4, Zenon
  <2>9. ASSUME NEW i \in DOMAIN <<l>>
        PROVE  i = Len(<<l>>) /\ <<l>>[i] = l
    BY <2>7
  <2>10. CASE StrayPost
    <3>1. \A i \in DOMAIN <<l>> :
            <<l>>[i].for = call /\ <<l>>[i].kind = "status" /\ <<l>>[i].last
      BY <1>2, <2>4, <2>9
    <3>. QED
      BY <1>1, <2>5, <2>6, <2>7, <2>10, <3>1, StrayInStep
  <2>11. CASE ~StrayPost
    BY <1>1, <1>2, <2>4, <2>5, <2>6, <2>7, <2>8, <2>9, <2>11, AnsweredInStep
  <2>. QED
    BY <2>10, <2>11
<1>. QED
  BY <1>3, <1>4

LEMMA UnaskedInStep ==
  ASSUME TypeInv, Synced, SrvBanner \/ SrvTimeout, UNCHANGED clientVars
  PROVE  Synced'
<1>1. CASE SrvBanner
  <2>1. link = "up" /\ srv = "new" /\ peer \notin HttpSites /\ srv' = "greeted" /\ tx' = tx
    BY <1>1 DEF SrvBanner
  <2>2. pc = "banner" /\ rx = <<>> /\ tx = <<>>
    BY <2>1 DEF Synced, Greeted, OneRequest
  <2>3. PICK code \in ReplyCodes["banner"] :
          Respond(<<Status(code, 0, TRUE)>>, Closing(code))
    BY <1>1 DEF SrvBanner
  <2>4. code \in Nat
    BY ReplyCodesAssumption
  <2>5. /\ link' \in {"up", "eof"} /\ (code = 530 => link' = "eof")
        /\ rx' = rx \o <<Status(code, 0, TRUE)>>
    BY <2>1, <2>3 DEF Respond, Closing
  <2>6. Greeted'
    BY <2>1 DEF Greeted
  <2>. QED
    BY <2>1, <2>2, <2>4, <2>5, <2>6, NoticeInStep
<1>2. CASE SrvTimeout
  <2>1. /\ rx = <<>> /\ tx = <<>> /\ tx' = <<>> /\ link' = "eof"
        /\ rx' = rx \o <<Status(530, 0, TRUE)>>
    BY <1>2 DEF SrvTimeout, Respond
  <2>2. Greeted' /\ 530 \in Nat
    BY <2>1 DEF Greeted
  <2>. QED
    BY <2>1, <2>2, NoticeInStep
<1>. QED
  BY <1>1, <1>2

\* The status line and the headers of an HTTP answer, and what follows them.
LEMMA HttpShape ==
  ASSUME NEW S, NEW a \in S, NEW b \in S, NEW lines \in Seq(S),
         NEW whole, whole = <<a>> \o <<b>> \o lines
  PROVE  /\ whole \in Seq(S) /\ Len(whole) = Len(lines) + 2 /\ Len(lines) \in Nat
         /\ whole[1] = a /\ whole[2] = b
         /\ \A i \in 3..(Len(lines) + 2) :
              i - 2 \in DOMAIN lines /\ whole[i] = lines[i - 2]
<1>. DEFINE ab == <<a>> \o <<b>>
<1>1. ab \in Seq(S) /\ Len(ab) = 2 /\ ab[1] = a /\ ab[2] = b
  OBVIOUS
<1>2. whole = ab \o lines
  OBVIOUS
<1>3. Len(lines) \in Nat /\ DOMAIN lines = 1..Len(lines)
  OBVIOUS
<1>. HIDE DEF ab
<1>4. /\ ab \o lines \in Seq(S) /\ Len(ab \o lines) = Len(ab) + Len(lines)
      /\ \A i \in 1..(Len(ab) + Len(lines)) :
           (ab \o lines)[i] = IF i <= Len(ab) THEN ab[i] ELSE lines[i - Len(ab)]
  BY <1>1, ConcatProperties
<1>. QED
  BY <1>1, <1>2, <1>3, <1>4

LEMMA HttpInStep ==
  ASSUME TypeInv, Synced, SrvHttp, UNCHANGED clientVars
  PROVE  Synced'
<1>. DEFINE m == Head(tx)
            f == m.for
            head(c) == Line("http", c, f, FALSE)
            blank(l) == Line("blank", 0, f, l)
<1>1. tx # <<>> /\ tx' = <<>> /\ link = "up" /\ peer' = peer /\ ~StrayPost
  BY DEF SrvHttp, StrayPost
<1>2. m = tx[1] /\ m \in Messages /\ f \in Nat
  <2>1. m = tx[1] /\ m \in Messages
    BY <1>1, RequestShape
  <2>. QED
    BY <2>1 DEF Messages
<1>3. \A c \in Nat, l \in BOOLEAN : head(c) \in Lines /\ blank(l) \in Lines
  BY <1>2 DEF Line, Lines, Kinds
<1>4. ASSUME NEW lines \in Seq(Lines), Respond(lines, TRUE),
             \A i \in DOMAIN lines :
               /\ lines[i].for = f
               /\ lines[i].last => i = Len(lines)
               /\ lines[i].kind = "dot" => lines[i].last
               /\ lines[i].kind = "status" =>
                    (lines[i].last <=> ~HasBody(Asked, lines[i].code))
      PROVE  Synced'
  <2>1. link' = "eof" /\ rx' = rx \o lines
    BY <1>4 DEF Respond
  <2>2. Greeted'
    BY <2>1 DEF Greeted
  <2>3. f = tx[1].for
    BY <1>2
  <2>. QED
    BY <1>1, <1>4, <2>1, <2>2, <2>3, AnsweredInStep
\* An error, without a body.
<1>5. ASSUME NEW c \in Nat, Respond(<<head(c)>> \o <<blank(TRUE)>>, TRUE)
      PROVE  Synced'
  <2>. DEFINE a == head(c)
              b == blank(TRUE)
              ab == <<a>> \o <<b>>
  <2>1. /\ a.for = f /\ a.last = FALSE /\ a.kind = "http"
        /\ b.for = f /\ b.last = TRUE /\ b.kind = "blank"
    BY DEF Line
  <2>2. a \in Lines /\ b \in Lines
    BY <1>3
  <2>. HIDE DEF a, b
  <2>3. ab \in Seq(Lines) /\ Len(ab) = 2 /\ DOMAIN ab = {1, 2} /\ ab[1] = a /\ ab[2] = b
    BY <2>2
  <2>. DEFINE Fits(l, i) ==
         /\ l.for = f
         /\ l.last => i = Len(ab)
         /\ l.kind = "dot" => l.last
         /\ l.kind = "status" => (l.last <=> ~HasBody(Asked, l.code))
  <2>4. Fits(a, 1) /\ Fits(b, 2)
    <3>1. Len(ab) = 2 /\ "http" # "dot" /\ "http" # "status" /\ "blank" # "status"
      BY <2>3
    <3>. QED
      BY <2>1, <3>1, Zenon
  <2>5. \A i \in DOMAIN ab : Fits(ab[i], i)
    <3>. HIDE DEF Fits, ab
    <3>. QED
      BY <2>3, <2>4
  <2>6. Respond(ab, TRUE)
    BY <1>5 DEF a, b
  <2>. HIDE DEF ab
  <2>. QED
    BY <1>4, <2>3, <2>5, <2>6
\* The answer to a command, in the body of the HTTP answer.
<1>6. ASSUME m.req \in Commands, NEW c \in Nat, NEW code \in Nat, NEW lines \in Answers(m, code),
             Respond(<<head(c)>> \o <<blank(FALSE)>> \o lines, TRUE)
      PROVE  Synced'
  <2>. DEFINE a == head(c)
              b == blank(FALSE)
              whole == <<a>> \o <<b>> \o lines
  <2>1. /\ a.for = f /\ a.last = FALSE /\ a.kind = "http"
        /\ b.for = f /\ b.last = FALSE /\ b.kind = "blank"
    BY DEF Line
  <2>2. a \in Lines /\ b \in Lines
    BY <1>3
  <2>3. /\ lines \in Seq(Lines)
        /\ \A i \in DOMAIN lines :
             /\ lines[i].for = m.for
             /\ lines[i].last <=> i = Len(lines)
             /\ lines[i].kind = "dot" => lines[i].last
             /\ lines[i].kind = "status" =>
                  lines[i].code = code /\ (lines[i].last <=> ~HasBody(m.req, code))
    BY <1>2, AnswersShape
  <2>4. HasBody(Asked, code) <=> HasBody(m.req, code)
    <3>1. m.req # "newline"
      BY <1>6 DEF Commands
    <3>. QED
      BY <1>1, <3>1, BodyAsAsked
  <2>5. Respond(whole, TRUE)
    BY <1>6
  <2>. HIDE DEF a, b
  <2>6. /\ whole \in Seq(Lines) /\ Len(whole) = Len(lines) + 2 /\ Len(lines) \in Nat
        /\ whole[1] = a /\ whole[2] = b
        /\ \A i \in 3..(Len(lines) + 2) :
             i - 2 \in DOMAIN lines /\ whole[i] = lines[i - 2]
    BY <2>2, <2>3, HttpShape
  <2>. HIDE DEF whole
  <2>. DEFINE Fits(l, i) ==
         /\ l.for = f
         /\ l.last => i = Len(whole)
         /\ l.kind = "dot" => l.last
         /\ l.kind = "status" => (l.last <=> ~HasBody(Asked, l.code))
  <2>7. Fits(a, 1) /\ Fits(b, 2)
    <3>1. "http" # "dot" /\ "http" # "status" /\ "blank" # "status" /\ "blank" # "dot"
      OBVIOUS
    <3>. QED
      BY <2>1, <3>1, Zenon
  <2>8. ASSUME NEW i \in 3..(Len(lines) + 2) PROVE Fits(lines[i - 2], i)
    <3>1. i - 2 \in DOMAIN lines
      BY <2>6
    <3>2. i - 2 = Len(lines) => i = Len(whole)
      BY <2>6
    <3>3. /\ lines[i - 2].for = f
          /\ lines[i - 2].last => i - 2 = Len(lines)
          /\ lines[i - 2].kind = "dot" => lines[i - 2].last
      BY <1>2, <2>3, <3>1
    <3>4. lines[i - 2].kind = "status" =>
            lines[i - 2].code = code /\ (lines[i - 2].last <=> ~HasBody(m.req, code))
      BY <2>3, <3>1
    <3>. QED
      BY <2>4, <3>2, <3>3, <3>4, Zenon
  <2>9. \A i \in DOMAIN whole : Fits(whole[i], i)
    <3>1. \A i \in DOMAIN whole : i = 1 \/ i = 2 \/ i \in 3..(Len(lines) + 2)
      BY <2>6
    <3>. HIDE DEF Fits
    <3>. QED
      BY <2>6, <2>7, <2>8, <3>1
  <2>. QED
    BY <1>4, <2>5, <2>6, <2>9
<1>7. \/ \E c \in Nat : Respond(<<head(c)>> \o <<blank(TRUE)>>, TRUE)
      \/ /\ m.req \in Commands
         /\ \E c \in Nat, code \in Nat : \E lines \in Answers(m, code) :
              Respond(<<head(c)>> \o <<blank(FALSE)>> \o lines, TRUE)
  <2>1. 400 \in Nat /\ ReplyCodes["http"] \subseteq Nat
    BY ReplyCodesAssumption
  <2>2. CASE ~(m.http /\ m.req \in Commands)
    <3>1. Respond(<<head(400)>> \o <<blank(TRUE)>>, TRUE)
      BY <1>2, <2>2 DEF SrvHttp
    <3>. QED
      BY <2>1, <3>1
  <2>3. CASE m.http /\ m.req \in Commands
    <3>. DEFINE answered == IF m.req = "write" THEN "data" ELSE m.req
    <3>1. PICK http \in ReplyCodes["http"] :
            IF http = 200
            THEN \E code \in ReplyCodes[answered] : \E lines \in Answers(m, code) :
                   Respond(<<head(http)>> \o <<blank(FALSE)>> \o lines, TRUE)
            ELSE Respond(<<head(http)>> \o <<blank(TRUE)>>, TRUE)
      BY <1>2, <2>3 DEF SrvHttp
    <3>2. ReplyCodes[answered] \subseteq Nat
      BY <2>3, ReplyCodesAssumption DEF Requests
    <3>3. CASE http # 200
      BY <2>1, <3>1, <3>3
    <3>4. CASE http = 200
      <4>1. PICK code \in ReplyCodes[answered] : \E lines \in Answers(m, code) :
              Respond(<<head(http)>> \o <<blank(FALSE)>> \o lines, TRUE)
        BY <3>1, <3>4
      <4>2. http \in Nat /\ code \in Nat
        BY <2>1, <3>2
      <4>. HIDE DEF head, blank
      <4>. QED
        BY <2>3, <4>1, <4>2
    <3>. QED
      BY <3>3, <3>4
  <2>. QED
    BY <2>2, <2>3
<1>. HIDE DEF head, blank
<1>. QED
  BY <1>5, <1>6, <1>7

LEMMA DropsInStep ==
  ASSUME TypeInv, Synced, LinkDrops, UNCHANGED clientVars
  PROVE  Synced'
<1>1. PICK k \in 0..Len(rx) : rx' = SubSeq(rx, 1, k)
  BY DEF LinkDrops
<1>2. link' = "eof" /\ link = "up" /\ tx' = <<>> /\ peer' = peer
  BY DEF LinkDrops
<1>3. rx \in Seq(Lines) /\ Len(rx) \in Nat /\ DOMAIN rx = 1..Len(rx)
  BY RxShape DEF TypeInv
<1>4. /\ Len(rx') = k /\ DOMAIN rx' = 1..k /\ k \in Nat
      /\ \A i \in 1..k : rx'[i] = rx[i] /\ i \in DOMAIN rx
  BY <1>1, <1>3
<1>5. Asked' = Asked /\ call' = call /\ pc' = pc /\ StrayPost' = StrayPost
  BY <1>2 DEF clientVars, Asked, StrayPost
<1>. DEFINE Fits(l) ==
       /\ l.for \in {0, call}
       /\ StrayPost => l.kind = "status"
       /\ l.kind = "dot" => l.last
       /\ l.kind = "status" => (l.last <=> ~HasBody(Asked, l.code))
       /\ Quiet => l.for = 0
       /\ l.for = 0 /\ pc # "banner" => l.kind = "status" /\ l.code = 530
<1>6. \A i \in DOMAIN rx : Fits(rx[i]) /\ (rx[i].last /\ ~StrayPost => i = Len(rx))
  BY DEF Synced, OneAnswer
<1>7. \A i \in DOMAIN rx' : Fits(rx'[i])
  <2>. HIDE DEF Fits
  <2>. QED
    BY <1>4, <1>6
<1>8. \A i \in DOMAIN rx' : rx'[i].last /\ ~StrayPost => i = Len(rx')
  <2>. SUFFICES ASSUME NEW i \in DOMAIN rx', rx'[i].last, ~StrayPost PROVE i = Len(rx')
    OBVIOUS
  <2>1. rx'[i] = rx[i] /\ i \in DOMAIN rx /\ i \in 1..k
    BY <1>4
  <2>2. rx[i].last
    BY <2>1, Zenon
  <2>3. i = Len(rx)
    BY <1>6, <2>1, <2>2, Zenon
  <2>4. \A n \in Nat : k \in 0..n /\ i \in 1..k /\ i = n => i = k
    BY <1>4
  <2>5. i = k
    BY <1>3, <2>1, <2>3, <2>4, Zenon
  <2>. QED
    BY <1>4, <2>5
<1>9. OneAnswer'
  BY <1>2, <1>5, <1>7, <1>8 DEF OneAnswer, Quiet
<1>10. OneRequest'
  <2>1. DOMAIN tx' = {}
    BY <1>2, EmptySeq
  <2>. QED
    BY <1>2, <2>1 DEF OneRequest
<1>. QED
  BY <1>2, <1>9, <1>10 DEF Synced, Greeted

LEMMA ServerInStep ==
  ASSUME TypeInv, InStep, Server, UNCHANGED clientVars
  PROVE  InStep'
<1>1. sock' = sock /\ clean' = clean
  BY DEF clientVars
<1>2. sock = "open"
  <2>1. link # "down"
    BY DEF Server, SrvBanner, SrvCommand, SrvEntry, SrvTimeout, SrvHttp, LinkDrops,
       LateConnect
  <2>. QED
    BY <2>1 DEF InStep, NothingOnClosed, TypeInv, TypeOK
<1>3. ASSUME clean PROVE Synced'
  <2>1. Synced /\ ~LateConnect
    BY <1>2, <1>3 DEF InStep, Synced, LateConnect
  <2>. QED
    BY <2>1, UnaskedInStep, CommandInStep, EntryInStep, HttpInStep, DropsInStep DEF Server
<1>. QED
  BY <1>1, <1>2, <1>3 DEF InStep, NothingOnClosed

----------------------------------------------------------------------------
(* The theorems.                                                           *)

LEMMA NextInStep ==
  ASSUME TypeInv, InStep, [Next]_vars
  PROVE  InStep'
<1>1. CASE Proceed
  BY <1>1, ConnectInStep, HandshakeInStep, SendInStep, HeadersInStep, AnswerInStep,
     BodyInStep DEF Proceed
<1>2. CASE Server /\ UNCHANGED clientVars
  BY <1>2, ServerInStep
<1>3. CASE UNCHANGED vars
  <2>1. UNCHANGED <<pc, cmd, call, sock, clean, netVars>>
    BY <1>3 DEF vars, clientVars
  <2>2. UNCHANGED <<Asked, Quiet, StrayPost>>
    BY <2>1 DEF Asked, Quiet, StrayPost, netVars
  <2>. QED
    BY <2>1, <2>2 DEF InStep, NothingOnClosed, Synced, OneRequest, OneAnswer, Greeted, netVars
<1>. QED
  BY <1>1, <1>2, <1>3, ApplicationInStep DEF Next

\* SyncInv holds of every state, whatever the servers answer, whenever the network
\* fails and however often the library is called: a socket that is closed has
\* nothing in flight, and on an open one on which no answer was abandoned
\* there is one request or one answer at a time, and no greeting is late.
THEOREM SyncInvariant == Spec => []SyncInv
<1>1. Init => TypeInv /\ InStep
  BY TypeInit DEF Init, InStep, NothingOnClosed
<1>2. TypeInv /\ InStep /\ [Next]_vars => TypeInv' /\ InStep'
  BY TypeStep, NextInStep
<1>3. TypeInv /\ InStep => SyncInv
  BY DEF TypeInv, InStep, SyncInv
<1>. QED
  BY <1>1, <1>2, <1>3, PTL DEF Spec

\* The commands of cddb_cmd.c read a complete answer before they return, unless
\* they abandon the connection: whatever is in flight belongs to the current
\* call, and between calls only the server's notice that it hangs up is.
THEOREM StaysInSync == Spec => []InSync
<1>1. TypeOK /\ SyncInv => InSync
  <2>. SUFFICES ASSUME TypeOK, Synced PROVE
         /\ \A i \in DOMAIN rx : rx[i].for \in {0, call}
         /\ \A i \in DOMAIN tx : tx[i].for = call
         /\ Idle => /\ tx = <<>>
                    /\ rx = <<>> \/ (link = "eof" /\ Len(rx) = 1 /\ rx[1].for = 0)
    BY DEF SyncInv, InSync
  <2>1. \A i \in DOMAIN rx : rx[i].for \in {0, call}
    BY DEF Synced, OneAnswer
  <2>2. \A i \in DOMAIN tx : tx[i].for = call
    BY DEF Synced, OneRequest
  <2>3. Idle => tx = <<>>
    BY DEF Idle, Quiet, Synced, OneRequest
  <2>4. ASSUME Idle, rx # <<>> PROVE link = "eof" /\ Len(rx) = 1 /\ rx[1].for = 0
    <3>1. 1 \in DOMAIN rx
      BY <2>4, RxShape, HeadAndTail
    <3>2. /\ rx[1].for = 0 /\ rx[1].kind = "status" /\ rx[1].code = 530 /\ link = "eof"
      BY <2>4, <3>1 DEF Idle, Quiet, Synced, OneAnswer
    <3>3. rx[1].last
      <4>1. ~HasBody(Asked, 530)
        BY DEF HasBody
      <4>2. rx[1].last <=> ~HasBody(Asked, rx[1].code)
        BY <3>1, <3>2 DEF Synced, OneAnswer
      <4>. QED
        BY <3>2, <4>1, <4>2
    <3>4. \A i \in DOMAIN rx : rx[i].last => i = Len(rx)
      BY <2>4 DEF Idle, StrayPost, Synced, OneAnswer
    <3>5. 1 = Len(rx)
      BY <3>1, <3>3, <3>4, Zenon
    <3>. QED
      BY <3>2, <3>5
  <2>. QED
    BY <2>1, <2>2, <2>3, <2>4
<1>. QED
  BY <1>1, TypeCorrect, SyncInvariant, PTL

----------------------------------------------------------------------------
(* What a call leaves behind when it returns.                              *)


\* The steps of a call by group, each in a place of its own.
ConnectSteps ==
  CddbConnectReuse \/ CddbConnectNoSocket \/ CddbConnectFails \/ CddbConnectSucceeds

HandshakeSteps == CddbHandshakeBanner \/ CddbHandshakeHello \/ CddbHandshakeProto

SendSteps == CddbSendCmd \/ CddbHttpSendCmd \/ CddbHttpPost

HeaderSteps == CddbHttpParseResponse \/ CddbHttpParseHeaders \/ CddbPostParseHeaders

AnswerSteps == CddbAnswer \/ CddbWriteGoAhead \/ CddbWriteEntry

BodySteps == CddbReadBody \/ CddbListBody \/ CddbSitesBody

\* Every step is a call that begins, a change by the application, a step of one of the
\* groups above, or one of the server.
LEMMA NextByGroup ==
  ASSUME [Next]_vars
  PROVE  \/ (\E c \in Calls : CddbCall(c)) \/ SetCacheMode \/ CddbSetSite
         \/ ConnectSteps \/ HandshakeSteps \/ SendSteps \/ HeaderSteps \/ AnswerSteps \/ BodySteps
         \/ (Server /\ UNCHANGED clientVars) \/ UNCHANGED vars
  BY DEF Next, Application, Proceed, ConnectSteps, HandshakeSteps, SendSteps, HeaderSteps,
         AnswerSteps, BodySteps

----------------------------------------------------------------------------
(* Error codes.                                                            *)

\* Where a call reads a status line the error code has been reset, and only a
\* connection that does not speak HTTP is greeted.
ErrInv ==
  /\ ErrorsTell
  /\ pc \in {"answer", "entry"} => errnum = "OK"
  /\ pc \in {"banner", "hello", "proto"} => ~Http

\* Every step keeps ErrInv: a call that ends says why, and resets the code before it reads.
LEMMA ErrNext ==
  ASSUME TypeInv, ErrInv, [Next]_vars
  PROVE  ErrInv'
<1> USE DEF ErrInv, ErrorsTell, Idle, Http
<1>1. ASSUME NEW c \in Calls, CddbCall(c) PROVE ErrInv'
  <2>1. c \in Commands
    BY CallsAssumption
  <2>2. PICK s \in Starts(c) :
          /\ pc' = IF s.ends THEN "idle" ELSE "connect"
          /\ ret' = s.ret
          /\ errnum' = s.err
    BY <1>1 DEF CddbCall
  <2>3. s.ends => /\ s.ret = "ok" => s.err = "OK"
                  /\ s.err \notin {"NOT_CONNECTED", "UNEXPECTED_EOF"}
    BY <2>1, <2>2 DEF Starts, ReadStarts, QueryStarts, AlbumStarts, WriteStarts, SitesStarts,
                      Local, Onwards, Commands
  <2> QED
    BY <2>2, <2>3
<1>2. CASE SetCacheMode
  BY <1>2 DEF SetCacheMode
<1>3. CASE CddbSetSite
  BY <1>3 DEF CddbSetSite, Commands
<1>4. CASE ConnectSteps
  <2>1. CASE CddbConnectReuse \/ CddbConnectSucceeds
    BY <2>1 DEF CddbConnectReuse, CddbConnectSucceeds, GoOn, appVars
  <2>2. CASE CddbConnectNoSocket \/ CddbConnectFails
    BY <2>2 DEF CddbConnectNoSocket, CddbConnectFails, Return
  <2> QED
    BY <1>4, <2>1, <2>2 DEF ConnectSteps
\* FailNoCode reports UNEXPECTED_EOF only where an earlier error was left.
<1>5. ASSUME FailNoCode, pc \in {"banner", "hello", "proto", "answer", "entry"} PROVE ErrInv'
  BY <1>5 DEF FailNoCode, Return, appVars
<1>6. CASE HandshakeSteps
  <2>1. CASE FailNoCode
    BY <1>5, <1>6, <2>1
    DEF HandshakeSteps, CddbHandshakeBanner, CddbHandshakeHello, CddbHandshakeProto, Handshake
  <2>2. CASE ~FailNoCode
    BY <1>6, <2>2
    DEF HandshakeSteps, CddbHandshakeBanner, CddbHandshakeHello, CddbHandshakeProto, Handshake,
        GoOn, Return, BannerVerdict, HelloVerdict, appVars
  <2> QED
    BY <2>1, <2>2
<1>7. CASE SendSteps
  BY <1>7 DEF SendSteps, CddbSendCmd, CddbHttpSendCmd, CddbHttpPost, GoOn, Return, appVars
<1>8. CASE HeaderSteps
  <2>1. CASE CddbHttpParseResponse
    BY <2>1 DEF CddbHttpParseResponse, HttpFails, CddbDisconnect, Return, GoOn, HttpVerdict
  <2>2. CASE CddbHttpParseHeaders \/ CddbPostParseHeaders
    BY <2>2 DEF CddbHttpParseHeaders, CddbPostParseHeaders, SkipHeaders, GoOn
  <2> QED
    BY <1>8, <2>1, <2>2 DEF HeaderSteps
<1>9. ASSUME DropConnection PROVE ErrInv'
  BY <1>9 DEF DropConnection, CddbDisconnect, Return
<1>10. ASSUME NEW e, e \notin {"NOT_CONNECTED", "UNEXPECTED_EOF"}, NEW rest, GiveUp(e, rest)
       PROVE  ErrInv'
  BY <1>10 DEF GiveUp, Return
<1>11. ASSUME NEW r, NEW rest, Succeed(r, "OK", rest) PROVE ErrInv'
  BY <1>11 DEF Succeed, Return
<1>12. CASE AnswerSteps
  <2>1. CASE FailNoCode
    BY <1>5, <1>12, <2>1 DEF AnswerSteps, CddbAnswer, CddbWriteGoAhead, CddbWriteEntry
  <2>2. CASE ~FailNoCode
    <3>1. cmd \in Commands
      BY <1>12 DEF AnswerSteps, CddbAnswer, CddbWriteGoAhead, CddbWriteEntry, TypeInv, InCall
    <3>2. CASE CddbAnswer
      <4>1. AnswerVerdict(cmd, Head(rx).code) # "UNEXPECTED_EOF"
        BY <3>1 DEF AnswerVerdict, ReadVerdict, ListVerdict, GoAheadVerdict, SitesVerdict, Commands
      <4> QED
        BY <1>9, <1>10, <1>11, <2>2, <3>2, <4>1 DEF CddbAnswer, GoOn
    <3>3. CASE CddbWriteGoAhead
      <4>1. GoAheadVerdict(Head(rx).code) # "UNEXPECTED_EOF"
        BY DEF GoAheadVerdict
      <4> QED
        BY <1>9, <1>10, <2>2, <3>3, <4>1 DEF CddbWriteGoAhead, GoOn
    <3>4. CASE CddbWriteEntry
      <4>1. EntryVerdict(Head(rx).code) # "UNEXPECTED_EOF"
        BY DEF EntryVerdict
      <4> QED
        BY <1>9, <1>10, <1>11, <2>2, <3>4, <4>1 DEF CddbWriteEntry
    <3> QED
      BY <1>12, <3>2, <3>3, <3>4 DEF AnswerSteps
  <2> QED
    BY <2>1, <2>2
<1>13. ASSUME NEW e \in {"OK", "ICONV_FAIL", "TRACK_NOT_FOUND"}, NEW rest, RecordEnds(e, rest)
       PROVE  ErrInv'
  BY <1>13 DEF RecordEnds, Return
<1>14. ASSUME NEW e, GoOn("body", e) PROVE ErrInv'
  BY <1>14 DEF GoOn
<1>15. CASE BodySteps
  <2>1. CASE CddbReadBody
    BY <1>13, <1>14, <2>1 DEF CddbReadBody
  <2>2. CASE CddbListBody
    BY <1>10, <1>11, <1>14, <2>2 DEF CddbListBody, ListEnds
  <2>3. CASE CddbSitesBody
    BY <1>10, <1>11, <1>14, <2>3 DEF CddbSitesBody
  <2> QED
    BY <1>15, <2>1, <2>2, <2>3 DEF BodySteps
<1>16. CASE UNCHANGED clientVars
  BY <1>16 DEF clientVars
<1> QED
  BY <1>1, <1>2, <1>3, <1>4, <1>6, <1>7, <1>8, <1>12, <1>15, <1>16, NextByGroup DEF vars

\* A call that returns success leaves no error behind, NOT_CONNECTED is never
\* reported with the socket open, nor is UNEXPECTED_EOF in HTTP: whatever the
\* servers answer and however often the library is called (cddb_cmd.c).
THEOREM ErrorsReported == Spec => []ErrorsTell
<1>1. Init => ErrInv
  BY DEF Init, ErrInv, ErrorsTell, Idle
<1>2. TypeInv /\ ErrInv /\ [Next]_vars => ErrInv'
  BY ErrNext
<1>3. Init => TypeInv
  BY TypeInit
<1>4. TypeInv /\ [Next]_vars => TypeInv'
  BY TypeStep
<1>5. ErrInv => ErrorsTell
  BY DEF ErrInv
<1> QED
  BY <1>1, <1>2, <1>3, <1>4, <1>5, PTL DEF Spec

----------------------------------------------------------------------------
(* The handshake.                                                          *)

\* An open socket to a server that does not speak HTTP, on which no answer was
\* abandoned, is in the middle of the handshake or past it.
ShookInv ==
  sock = "open" /\ clean /\ peer \notin HttpSites
    => shook \/ pc \in {"banner", "hello", "proto"}

\* Every step keeps ShookInv: a socket is opened for the handshake, and what breaks it off
\* abandons an answer.
LEMMA ShookNext ==
  ASSUME TypeInv, ShookInv, [Next]_vars
  PROVE  ShookInv'
<1> USE DEF ShookInv
<1>1. ASSUME clean' = FALSE PROVE ShookInv'
  BY <1>1
<1>2. ASSUME sock' = "closed" PROVE ShookInv'
  BY <1>2
<1>3. ASSUME UNCHANGED <<sock, clean, peer, shook>>, pc \notin {"banner", "hello", "proto"}
      PROVE  ShookInv'
  BY <1>3
<1>4. CASE (\E c \in Calls : CddbCall(c)) \/ SetCacheMode \/ CddbSetSite
  BY <1>3, <1>4 DEF CddbCall, SetCacheMode, CddbSetSite, KeepSocket, histVars, netVars
<1>5. CASE ConnectSteps
  <2>1. CASE CddbConnectReuse \/ CddbConnectNoSocket
    BY <1>3, <2>1 DEF CddbConnectReuse, CddbConnectNoSocket, histVars, netVars
  <2>2. CASE CddbConnectFails
    BY <1>1, <2>2 DEF CddbConnectFails
  <2>3. CASE CddbConnectSucceeds
    BY <2>3 DEF CddbConnectSucceeds, OpenSocket, GoOn, Http
  <2> QED
    BY <1>5, <2>1, <2>2, <2>3 DEF ConnectSteps
<1>6. CASE HandshakeSteps
  <2>1. CASE CddbHandshakeProto
    BY <1>1, <2>1 DEF CddbHandshakeProto, FailNoCode
  <2>2. CASE CddbHandshakeBanner \/ CddbHandshakeHello
    BY <1>1, <2>2 DEF CddbHandshakeBanner, CddbHandshakeHello, Handshake, FailNoCode, GoOn
  <2> QED
    BY <1>6, <2>1, <2>2 DEF HandshakeSteps
<1>7. CASE SendSteps
  BY <1>2, <1>3, <1>7
  DEF SendSteps, CddbSendCmd, CddbHttpSendCmd, CddbHttpPost, KeepSocket, CddbDisconnect, histVars
<1>8. CASE HeaderSteps
  BY <1>1, <1>2, <1>3, <1>8
  DEF HeaderSteps, CddbHttpParseResponse, HttpFails, CddbDisconnect, CddbHttpParseHeaders,
      CddbPostParseHeaders, SkipHeaders, KeepSocket
<1>9. ASSUME NEW e, NEW r, NEW rest,
             DropConnection \/ GiveUp(e, rest) \/ Succeed(r, e, rest) \/ RecordEnds(e, rest),
             UNCHANGED <<clean, shook>> \/ clean' = FALSE, pc \in {"answer", "entry", "body"}
      PROVE  ShookInv'
  BY <1>1, <1>2, <1>3, <1>9
  DEF DropConnection, GiveUp, Succeed, RecordEnds, HttpClose, CddbDisconnect, KeepSocket
<1>10. CASE AnswerSteps
  <2>1. CASE FailNoCode
    BY <1>1, <2>1 DEF FailNoCode
  <2>2. CASE ~FailNoCode /\ KeepSocket
    BY <1>3, <1>10, <2>2
    DEF AnswerSteps, CddbAnswer, CddbWriteGoAhead, CddbWriteEntry, KeepSocket
  <2>3. CASE ~FailNoCode /\ ~KeepSocket
    <3>1. CASE CddbAnswer
      BY <1>9, <2>3, <3>1 DEF CddbAnswer
    <3>2. CASE CddbWriteGoAhead
      BY <1>9, <2>3, <3>2 DEF CddbWriteGoAhead
    <3>3. CASE CddbWriteEntry
      BY <1>9, <2>3, <3>3 DEF CddbWriteEntry
    <3> QED
      BY <1>10, <3>1, <3>2, <3>3 DEF AnswerSteps
  <2> QED
    BY <2>1, <2>2, <2>3
<1>11. CASE BodySteps
  <2>1. ASSUME KeepSocket PROVE ShookInv'
    BY <1>1, <1>3, <1>11, <2>1
    DEF BodySteps, CddbReadBody, CddbListBody, CddbSitesBody, KeepSocket
  <2>2. CASE CddbReadBody
    BY <1>9, <2>1, <2>2 DEF CddbReadBody
  <2>3. CASE CddbListBody
    BY <1>9, <2>1, <2>3 DEF CddbListBody, ListEnds
  <2>4. CASE CddbSitesBody
    BY <1>9, <2>1, <2>4 DEF CddbSitesBody
  <2> QED
    BY <1>11, <2>2, <2>3, <2>4 DEF BodySteps
<1>12. CASE Server /\ UNCHANGED clientVars
  <2>1. peer' = peer
    BY <1>12 DEF Server, SrvBanner, SrvCommand, SrvEntry, SrvTimeout, SrvHttp, LinkDrops,
                 LateConnect
  <2> QED
    BY <1>12, <2>1 DEF clientVars
<1>13. CASE UNCHANGED vars
  BY <1>13 DEF vars, clientVars, netVars
<1> QED
  BY <1>4, <1>5, <1>6, <1>7, <1>8, <1>10, <1>11, <1>12, <1>13, NextByGroup

\* No command leaves on a CDDBP connection before the handshake is complete, unless
\* the connection failed under way (cddb_connect, cddb_handshake).
THEOREM HandshakeComesFirst == Spec => []ShakenFirst
<1>1. Init => TypeInv /\ ShookInv
  BY TypeInit DEF Init, ShookInv
<1>2. TypeInv /\ ShookInv /\ [Next]_vars => TypeInv' /\ ShookInv'
  BY TypeStep, ShookNext
<1>3. ShookInv => ShakenFirst
  BY DEF ShookInv, ShakenFirst
<1> QED
  BY <1>1, <1>2, <1>3, PTL DEF Spec

----------------------------------------------------------------------------
(* Cached data only.                                                       *)

\* A call that goes on although only cached data is wanted is one of cddb_sites.
LocalInv == pc # "idle" /\ useCache = "only" => cmd = "sites"

\* Every step keeps LocalInv: with cached data only, the other commands end where they begin.
LEMMA LocalNext ==
  ASSUME LocalInv, [Next]_vars
  PROVE  LocalInv'
<1> USE DEF LocalInv
<1>1. ASSUME NEW c \in Calls, CddbCall(c) PROVE LocalInv'
  <2>1. c \in Commands
    BY CallsAssumption
  <2>2. PICK s \in Starts(c) : pc' = IF s.ends THEN "idle" ELSE "connect"
    BY <1>1 DEF CddbCall
  <2>3. useCache = "only" /\ c # "sites" => s.ends
    BY <2>1, <2>2 DEF Starts, ReadStarts, QueryStarts, AlbumStarts, WriteStarts, Local, Onwards,
                      Commands
  <2> QED
    BY <1>1, <2>2, <2>3 DEF CddbCall
<1>2. CASE SetCacheMode \/ CddbSetSite
  BY <1>2 DEF SetCacheMode, CddbSetSite
<1>3. ASSUME UNCHANGED appVars, pc # "idle" PROVE LocalInv'
  BY <1>3 DEF appVars
<1>4. CASE ConnectSteps
  BY <1>3, <1>4 DEF ConnectSteps, CddbConnectReuse, CddbConnectNoSocket, CddbConnectFails,
                    CddbConnectSucceeds
<1>5. CASE HandshakeSteps
  BY <1>3, <1>5 DEF HandshakeSteps, CddbHandshakeBanner, CddbHandshakeHello, CddbHandshakeProto,
                    Handshake, FailNoCode
<1>6. CASE SendSteps
  BY <1>3, <1>6 DEF SendSteps, CddbSendCmd, CddbHttpSendCmd, CddbHttpPost
<1>7. CASE HeaderSteps
  BY <1>3, <1>7 DEF HeaderSteps, CddbHttpParseResponse, CddbHttpParseHeaders,
                    CddbPostParseHeaders, SkipHeaders
<1>8. CASE AnswerSteps
  BY <1>3, <1>8 DEF AnswerSteps, CddbAnswer, CddbWriteGoAhead, CddbWriteEntry, FailNoCode
<1>9. CASE BodySteps
  BY <1>3, <1>9 DEF BodySteps, CddbReadBody, CddbListBody, CddbSitesBody
<1>10. CASE UNCHANGED clientVars
  BY <1>10 DEF clientVars
<1> QED
  BY <1>1, <1>2, <1>4, <1>5, <1>6, <1>7, <1>8, <1>9, <1>10, NextByGroup DEF vars

\* The server takes requests and never adds one.
LEMMA ServerTakes ==
  ASSUME TypeInv, Server
  PROVE  Len(tx') <= Len(tx)
<1>1. tx \in Seq(Messages) /\ Len(tx) \in Nat
  BY RxShape DEF TypeInv
<1>2. tx # <<>> => Len(Tail(tx)) = Len(tx) - 1
  BY <1>1, HeadAndTail
<1>3. Len(<<>>) = 0
  OBVIOUS
<1>4. tx' = tx \/ tx' = <<>> \/ (tx # <<>> /\ tx' = Tail(tx))
  BY DEF Server, SrvBanner, SrvCommand, SrvEntry, SrvTimeout, SrvHttp, LinkDrops, LateConnect
<1> QED
  BY <1>1, <1>2, <1>3, <1>4

\* A step of a call belongs to a call that has been made, and keeps to what it was
\* made with.
LEMMA CallSteps ==
  ASSUME ConnectSteps \/ HandshakeSteps \/ SendSteps \/ HeaderSteps \/ AnswerSteps \/ BodySteps
  PROVE  pc # "idle" /\ UNCHANGED appVars
<1>1. CASE ConnectSteps \/ HandshakeSteps
  BY <1>1 DEF ConnectSteps, CddbConnectReuse, CddbConnectNoSocket, CddbConnectFails,
              CddbConnectSucceeds, HandshakeSteps, CddbHandshakeBanner, CddbHandshakeHello,
              CddbHandshakeProto, Handshake, FailNoCode
<1>2. CASE SendSteps \/ HeaderSteps
  BY <1>2 DEF SendSteps, CddbSendCmd, CddbHttpSendCmd, CddbHttpPost, HeaderSteps,
              CddbHttpParseResponse, CddbHttpParseHeaders, CddbPostParseHeaders, SkipHeaders
<1>3. CASE AnswerSteps \/ BodySteps
  BY <1>3 DEF AnswerSteps, CddbAnswer, CddbWriteGoAhead, CddbWriteEntry, FailNoCode, BodySteps,
              CddbReadBody, CddbListBody, CddbSitesBody
<1> QED
  BY <1>1, <1>2, <1>3

\* Reading, querying and writing open no connection, send nothing and read nothing
\* while the application has asked for cached data only (cddb_cache_only).
THEOREM CacheOnlyIsLocal == Spec => CacheOnlyStaysLocal
<1>1. Init => TypeInv /\ LocalInv
  BY TypeInit DEF Init, LocalInv
<1>2. TypeInv /\ LocalInv /\ [Next]_vars => TypeInv' /\ LocalInv'
  BY TypeStep, LocalNext
<1>3. TypeInv /\ LocalInv /\ [Next]_vars =>
        [ useCache = "only" /\ cmd' # "sites"
          => sock' = sock /\ Len(tx') <= Len(tx) /\ used' \subseteq used ]_vars
  <2> SUFFICES ASSUME TypeInv, LocalInv, [Next]_vars, vars' # vars,
                      useCache = "only", cmd' # "sites"
               PROVE  sock' = sock /\ Len(tx') <= Len(tx) /\ used' \subseteq used
    OBVIOUS
  <2>1. Len(tx) \in Nat
    BY RxShape DEF TypeInv
  <2>2. CASE (\E c \in Calls : CddbCall(c)) \/ SetCacheMode \/ CddbSetSite
    BY <2>1, <2>2 DEF CddbCall, SetCacheMode, CddbSetSite, KeepSocket, histVars, netVars
  <2>3. ~(ConnectSteps \/ HandshakeSteps \/ SendSteps \/ HeaderSteps \/ AnswerSteps \/ BodySteps)
    BY CallSteps DEF LocalInv, appVars
  <2>4. CASE Server /\ UNCHANGED clientVars
    BY <2>4, ServerTakes DEF clientVars
  <2> QED
    BY <2>2, <2>3, <2>4, NextByGroup
<1> QED
  BY <1>1, <1>2, <1>3, PTL DEF Spec, CacheOnlyStaysLocal

----------------------------------------------------------------------------
(* One command for each HTTP connection.                                   *)

\* Success closes an HTTP connection.
HttpInv ==
  pc = "idle" /\ ret # "fail" /\ used # {} /\ Http /\ cmd \in Commands => sock = "closed"

\* Every step keeps HttpInv: each way a command succeeds disconnects from HTTP.
LEMMA HttpNext ==
  ASSUME HttpInv, [Next]_vars
  PROVE  HttpInv'
<1> USE DEF HttpInv, Http
<1>1. ASSUME NEW c \in Calls, CddbCall(c) PROVE HttpInv'
  BY <1>1 DEF CddbCall
<1>2. CASE SetCacheMode \/ CddbSetSite
  BY <1>2 DEF SetCacheMode, CddbSetSite, Commands, histVars
<1>3. ASSUME pc' # "idle" \/ ret' = "fail" \/ sock' = "closed" PROVE HttpInv'
  BY <1>3
<1>4. CASE ConnectSteps
  BY <1>3, <1>4 DEF ConnectSteps, CddbConnectReuse, CddbConnectNoSocket, CddbConnectFails,
                    CddbConnectSucceeds, GoOn, Return
<1>5. CASE HandshakeSteps
  BY <1>3, <1>5 DEF HandshakeSteps, CddbHandshakeBanner, CddbHandshakeHello, CddbHandshakeProto,
                    Handshake, FailNoCode, GoOn, Return
<1>6. CASE SendSteps
  BY <1>3, <1>6 DEF SendSteps, CddbSendCmd, CddbHttpSendCmd, CddbHttpPost, GoOn, Return
<1>7. CASE HeaderSteps
  BY <1>3, <1>7 DEF HeaderSteps, CddbHttpParseResponse, HttpFails, CddbHttpParseHeaders,
                    CddbPostParseHeaders, SkipHeaders, GoOn, Return
<1>8. ASSUME NEW e, NEW r, NEW rest, UNCHANGED appVars,
             \/ FailNoCode \/ DropConnection \/ GiveUp(e, rest)
             \/ Succeed(r, e, rest) \/ RecordEnds(e, rest) \/ GoOn("body", e) \/ GoOn("entry", e)
      PROVE  HttpInv'
  <2>1. CASE FailNoCode \/ DropConnection \/ GiveUp(e, rest) \/ GoOn("body", e) \/ GoOn("entry", e)
    BY <1>3, <2>1 DEF FailNoCode, DropConnection, GiveUp, GoOn, Return
  <2>2. CASE Succeed(r, e, rest) \/ RecordEnds(e, rest)
    <3>1. ~Http \/ sock' = "closed"
      BY <2>2 DEF Succeed, RecordEnds, HttpClose, CddbDisconnect
    <3> QED
      BY <1>8, <3>1 DEF appVars
  <2> QED
    BY <1>8, <2>1, <2>2
<1>9. CASE AnswerSteps
  <2>1. UNCHANGED appVars
    BY <1>9, CallSteps
  <2>2. CASE FailNoCode
    BY <1>8, <2>1, <2>2
  <2>3. CASE ~FailNoCode /\ CddbAnswer
    BY <1>8, <2>1, <2>3 DEF CddbAnswer
  <2>4. CASE ~FailNoCode /\ CddbWriteGoAhead
    BY <1>8, <2>1, <2>4 DEF CddbWriteGoAhead
  <2>5. CASE ~FailNoCode /\ CddbWriteEntry
    BY <1>8, <2>1, <2>5 DEF CddbWriteEntry
  <2> QED
    BY <1>9, <2>2, <2>3, <2>4, <2>5 DEF AnswerSteps
<1>10. CASE BodySteps
  <2>1. UNCHANGED appVars
    BY <1>10, CallSteps
  <2>2. CASE CddbReadBody
    BY <1>8, <2>1, <2>2 DEF CddbReadBody
  <2>3. CASE CddbListBody
    BY <1>8, <2>1, <2>3 DEF CddbListBody, ListEnds
  <2>4. CASE CddbSitesBody
    BY <1>8, <2>1, <2>4 DEF CddbSitesBody
  <2> QED
    BY <1>10, <2>2, <2>3, <2>4 DEF BodySteps
<1>11. CASE UNCHANGED clientVars
  BY <1>11 DEF clientVars
<1> QED
  BY <1>1, <1>2, <1>4, <1>5, <1>6, <1>7, <1>9, <1>10, <1>11, NextByGroup DEF vars

\* What is in flight on a connection that stays in step is one request at most, or the
\* two parts of a POST.
LEMMA OneInFlight ==
  ASSUME TypeInv, InStep, clean, pc # "postHeaders"
  PROVE  Len(tx) <= 1
<1>1. Len(tx) \in Nat /\ DOMAIN tx = 1..Len(tx)
  BY RxShape DEF TypeInv
<1>2. CASE sock = "closed"
  <2>1. tx = <<>>
    BY <1>2 DEF InStep, NothingOnClosed
  <2>2. Len(<<>>) = 0
    OBVIOUS
  <2> QED
    BY <2>1, <2>2
<1>3. CASE sock # "closed"
  <2>1. sock = "open" /\ OneRequest
    BY <1>3 DEF InStep, Synced, TypeInv, TypeOK
  <2>2. \A i \in DOMAIN tx : i = 1
    BY <2>1 DEF OneRequest
  <2>3. Len(tx) # 0 => Len(tx) \in DOMAIN tx
    BY <1>1
  <2> QED
    BY <1>1, <2>2, <2>3
<1> QED
  BY <1>2, <1>3

\* InStep, which the proofs of CddbConnProofs are about, is an invariant with the types.
LEMMA InStepInvariant == Spec => [](TypeInv /\ InStep)
<1>1. Init => TypeInv /\ InStep
  BY TypeInit DEF Init, InStep, NothingOnClosed
<1>2. TypeInv /\ InStep /\ [Next]_vars => TypeInv' /\ InStep'
  BY TypeStep, NextInStep
<1> QED
  BY <1>1, <1>2, PTL DEF Spec

----------------------------------------------------------------------------
(* A call reads its own answer.                                            *)

\* What the calls have used: nothing before the answer, then lines of their own; a
\* notice that the server hangs up is the last line to come.
OwnInv ==
  /\ pc \notin {"idle", "entry", "body"} => used = {}
  /\ clean /\ pc \in {"entry", "body"} =>
       \/ used \subseteq {call}
       \/ pc = "body" /\ used \subseteq {0, call} /\ rx = <<>> /\ link = "eof"
  /\ OwnAnswer

\* The next line is the call's own, or the server's notice that it hangs up.
LEMMA NextLineOwn ==
  ASSUME TypeInv, InStep, clean, Arrives, pc \in {"answer", "entry", "body"}
  PROVE  \/ Head(rx).for = call
         \/ /\ Head(rx).for = 0 /\ Head(rx).kind = "status" /\ Head(rx).code = 530
            /\ link = "eof" /\ Tail(rx) = <<>>
<1>1. sock = "open" /\ Synced
  BY SocketIsOpen DEF TypeInv
<1>2. Head(rx) = rx[1] /\ 1 \in DOMAIN rx
  BY RxShape, HeadAndTail DEF Arrives, TypeInv
<1>3. rx[1].for \in {0, call}
  BY <1>1, <1>2 DEF Synced, OneAnswer
<1>4. CASE rx[1].for = 0
  <2>1. rx[1].kind = "status" /\ rx[1].code = 530 /\ link = "eof"
    BY <1>1, <1>2, <1>4 DEF Synced, OneAnswer
  <2>2. ~HasBody(Asked, Head(rx).code) /\ HasCode
    BY <1>2, <2>1 DEF HasBody, HasCode
  <2>3. Tail(rx) = <<>>
    BY <1>1, <2>2, NothingBehindStatus DEF Synced, TypeInv, StrayPost
  <2> QED
    BY <1>2, <1>4, <2>1, <2>3
<1> QED
  BY <1>2, <1>3, <1>4

\* Every step keeps OwnInv: a line that is used is the next one, which is the call's own.
LEMMA OwnNext ==
  ASSUME TypeInv, InStep, OwnInv, [Next]_vars
  PROVE  OwnInv'
<1> USE DEF OwnInv, OwnAnswer, Idle
<1>1. ASSUME NEW c \in Calls, CddbCall(c) PROVE OwnInv'
  BY <1>1 DEF CddbCall
<1>2. CASE SetCacheMode \/ CddbSetSite
  BY <1>2 DEF SetCacheMode, CddbSetSite, histVars, Commands
<1>3. ASSUME used' = {}, call' = call PROVE OwnInv'
  BY <1>3
<1>4. ASSUME clean' = FALSE, pc' = "idle" PROVE OwnInv'
  BY <1>4
<1>5. CASE ConnectSteps \/ HandshakeSteps
  <2>1. used' = used /\ call' = call /\ used = {}
    BY <1>5 DEF ConnectSteps, CddbConnectReuse, CddbConnectNoSocket, CddbConnectFails,
                CddbConnectSucceeds, HandshakeSteps, CddbHandshakeBanner, CddbHandshakeHello,
                CddbHandshakeProto, Handshake, FailNoCode, appVars, histVars
  <2> QED
    BY <1>3, <2>1
<1>6. CASE SendSteps \/ HeaderSteps
  <2>1. used' = used /\ call' = call /\ used = {}
    BY <1>6 DEF SendSteps, CddbSendCmd, CddbHttpSendCmd, CddbHttpPost, HeaderSteps,
                CddbHttpParseResponse, CddbHttpParseHeaders, CddbPostParseHeaders, SkipHeaders,
                appVars, histVars
  <2> QED
    BY <1>3, <2>1
\* The call returns, and fails if what it read is the notice.
<1>7. ASSUME pc' = "idle", clean' = clean, cmd' = cmd, call' = call, Reads(Head(rx)), Arrives,
             pc \in {"answer", "entry", "body"}, Head(rx).for = call \/ ret' = "fail"
      PROVE  OwnInv'
  <2>1. ASSUME clean PROVE used \subseteq {call} /\ Head(rx).for \in {0, call}
    BY <1>7, <2>1, NextLineOwn DEF Arrives
  <2>2. used' = used \cup {Head(rx).for}
    BY <1>7 DEF Reads
  <2> QED
    BY <1>7, <2>1, <2>2
<1>8. CASE AnswerSteps
  <2>1. CASE FailNoCode
    BY <1>4, <2>1 DEF FailNoCode, Return
  <2>2. CASE ~FailNoCode
    <3>1. /\ HasCode /\ Arrives /\ Reads(Head(rx)) /\ clean' = clean /\ cmd' = cmd /\ call' = call
          /\ pc \in {"answer", "entry"} /\ cmd \in Commands
      <4>1. /\ HasCode /\ Reads(Head(rx)) /\ clean' = clean /\ cmd' = cmd /\ call' = call
            /\ pc \in {"answer", "entry"}
        BY <1>8, <2>2 DEF AnswerSteps, CddbAnswer, CddbWriteGoAhead, CddbWriteEntry, appVars
      <4> QED
        BY <4>1 DEF HasCode, TypeInv, InCall
    <3>2. clean => Head(rx).for = call \/ Head(rx).code = 530
      BY <3>1, NextLineOwn
    <3>3. ASSUME pc' \in {"entry", "body"}, Head(rx).code # 530, used = {} PROVE OwnInv'
      BY <3>1, <3>2, <3>3 DEF Reads
    <3>4. ASSUME pc' = "idle", ret' = "fail" PROVE OwnInv'
      BY <1>7, <3>1, <3>4
    <3>5. ASSUME pc' = "idle", Head(rx).code # 530 PROVE OwnInv'
      <4>1. CASE clean
        BY <1>7, <3>1, <3>2, <3>5, <4>1
      <4>2. CASE ~clean
        BY <3>1, <3>5, <4>2
      <4> QED
        BY <4>1, <4>2
    <3>6. CASE CddbAnswer
      <4> DEFINE v == AnswerVerdict(cmd, Head(rx).code)
      <4>1. v \in {"BODY", "MATCH", "NOMATCH"} => Head(rx).code # 530
        BY <3>1 DEF AnswerVerdict, ReadVerdict, ListVerdict, GoAheadVerdict, SitesVerdict, Commands
      <4>2. used = {}
        BY <3>6 DEF CddbAnswer
      <4>3. \/ v = "BODY" /\ pc' = "body"
            \/ v \in {"MATCH", "NOMATCH"} /\ pc' = "idle"
            \/ pc' = "idle" /\ ret' = "fail"
        BY <2>2, <3>6 DEF CddbAnswer, GoOn, Succeed, GiveUp, DropConnection, Return
      <4> QED
        BY <3>3, <3>4, <3>5, <4>1, <4>2, <4>3
    <3>7. CASE CddbWriteGoAhead
      <4>1. GoAheadVerdict(Head(rx).code) = "GO" => Head(rx).code # 530
        BY DEF GoAheadVerdict
      <4>2. used = {}
        BY <3>7 DEF CddbWriteGoAhead
      <4>3. \/ GoAheadVerdict(Head(rx).code) = "GO" /\ pc' = "entry"
            \/ pc' = "idle" /\ ret' = "fail"
        BY <2>2, <3>7 DEF CddbWriteGoAhead, GoOn, GiveUp, DropConnection, Return
      <4> QED
        BY <3>3, <3>4, <4>1, <4>2, <4>3
    <3>8. CASE CddbWriteEntry
      <4>1. EntryVerdict(Head(rx).code) = "DONE" => Head(rx).code # 530
        BY DEF EntryVerdict
      <4>2. \/ EntryVerdict(Head(rx).code) = "DONE" /\ pc' = "idle"
            \/ pc' = "idle" /\ ret' = "fail"
        BY <2>2, <3>8 DEF CddbWriteEntry, Succeed, GiveUp, DropConnection, Return
      <4> QED
        BY <3>4, <3>5, <4>1, <4>2
    <3> QED
      BY <1>8, <3>6, <3>7, <3>8 DEF AnswerSteps
  <2> QED
    BY <2>1, <2>2
<1>9. CASE BodySteps
  <2>1. pc = "body" /\ cmd' = cmd /\ call' = call
    BY <1>9, CallSteps DEF BodySteps, CddbReadBody, CddbListBody, CddbSitesBody, appVars
\* The answer is given up, its dot is read, or its next line is.
  <2>2. \/ pc' = "idle" /\ clean' = FALSE
        \/ /\ pc' = "idle" /\ clean' = clean /\ Arrives /\ Reads(Head(rx))
           /\ Head(rx).kind = "dot"
        \/ /\ pc' = "body" /\ clean' = clean /\ Arrives /\ Reads(Head(rx))
           /\ rx' = Tail(rx) /\ link' = link
    <3>1. CASE CddbReadBody
      BY <3>1 DEF CddbReadBody, RecordEnds, Return, GoOn, KeepSocket
    <3>2. CASE CddbListBody
      BY <3>2 DEF CddbListBody, ListEnds, Succeed, GiveUp, Return, GoOn, KeepSocket
    <3>3. CASE CddbSitesBody
      BY <3>3 DEF CddbSitesBody, Succeed, GiveUp, Return, GoOn, KeepSocket
    <3> QED
      BY <1>9, <3>1, <3>2, <3>3 DEF BodySteps
  <2>3. CASE /\ pc' = "idle" /\ clean' = clean /\ Arrives /\ Reads(Head(rx))
             /\ Head(rx).kind = "dot"
    <3>1. CASE clean
      <4>1. Head(rx).for = call
        BY <2>1, <2>3, <3>1, NextLineOwn
      <4> QED
        BY <1>7, <2>1, <2>3, <4>1
    <3>2. CASE ~clean
      BY <2>1, <2>3, <3>2
    <3> QED
      BY <3>1, <3>2
  <2>4. CASE /\ pc' = "body" /\ clean' = clean /\ Arrives /\ Reads(Head(rx))
             /\ rx' = Tail(rx) /\ link' = link
    <3>1. ASSUME clean PROVE \/ used' \subseteq {call}
                             \/ used' \subseteq {0, call} /\ rx' = <<>> /\ link' = "eof"
      <4>1. used \subseteq {call}
        BY <2>1, <2>4, <3>1 DEF Arrives
      <4>2. Head(rx).for = call \/ (Head(rx).for = 0 /\ link = "eof" /\ Tail(rx) = <<>>)
        BY <2>1, <2>4, <3>1, NextLineOwn
      <4> QED
        BY <2>4, <4>1, <4>2 DEF Reads
    <3> QED
      BY <2>1, <2>4, <3>1
  <2> QED
    BY <1>4, <2>2, <2>3, <2>4
<1>10. CASE Server /\ UNCHANGED clientVars
  <2>1. link # "eof"
    BY <1>10 DEF Server, SrvBanner, SrvCommand, SrvEntry, SrvTimeout, SrvHttp, LinkDrops,
                 LateConnect
  <2> QED
    BY <1>10, <2>1 DEF clientVars
<1>11. CASE UNCHANGED vars
  BY <1>11 DEF vars, clientVars, netVars
<1> QED
  BY <1>1, <1>2, <1>5, <1>6, <1>8, <1>9, <1>10, <1>11, NextByGroup

\* A call that succeeds has used the answer to its own command only, whatever was in
\* flight and however the calls before it ended, unless an answer was abandoned on the
\* socket (cddb_get_response_code and the readers of cddb_cmd.c).
THEOREM AnswersAreOwn == Spec => []OwnAnswer
<1>1. Init => OwnInv
  BY DEF Init, OwnInv, OwnAnswer, Commands
<1>2. TypeInv /\ InStep /\ OwnInv /\ [Next]_vars => OwnInv'
  BY OwnNext
<1>3. OwnInv => OwnAnswer
  BY DEF OwnInv
<1> QED
  BY <1>1, <1>2, <1>3, InStepInvariant, PTL DEF Spec

----------------------------------------------------------------------------
(* A connection that an HTTP command has used.                             *)

\* The first command written to an HTTP connection is in flight until the server has
\* closed the connection, and what comes back is for a call.  A second command gets
\* nowhere and is answered by nothing.
SpentInv ==
  /\ clean /\ peer \in HttpSites /\ sent > 1 => used = {}
  /\ clean /\ sock = "open" /\ peer \in HttpSites =>
       /\ sent > 0 /\ tx = <<>> => link = "eof"
       /\ \A i \in DOMAIN rx : rx[i].for # 0
       /\ sent > 1 => link = "eof" /\ rx = <<>>

\* A step that writes no command, opens no connection and reads the next line if any.
LEMMA SpentKept ==
  ASSUME TypeInv, InStep, SpentInv, UNCHANGED <<clean, peer, sent>>,
         used' \subseteq used \/ Arrives,
         \/ sock' = "closed"
         \/ /\ UNCHANGED <<sock, link>>
            /\ tx' = tx \/ tx' # <<>>
            /\ rx' = rx \/ (Arrives /\ rx' = Tail(rx))
  PROVE  SpentInv'
<1>1. ASSUME clean, peer \in HttpSites, sent > 1, Arrives PROVE FALSE
  BY <1>1 DEF SpentInv, InStep, NothingOnClosed, Arrives, TypeInv, TypeOK
<1>2. clean /\ peer \in HttpSites /\ sent > 1 => used' = {}
  BY <1>1 DEF SpentInv
<1>3. ASSUME sock' = "open", clean, peer \in HttpSites
      PROVE  /\ sent > 0 /\ tx' = <<>> => link' = "eof"
             /\ \A i \in DOMAIN rx' : rx'[i].for # 0
             /\ sent > 1 => link' = "eof" /\ rx' = <<>>
  <2>1. /\ sock = "open" /\ link' = link /\ (tx' = tx \/ tx' # <<>>)
        /\ rx' = rx \/ (Arrives /\ rx' = Tail(rx))
    BY <1>3
  <2>2. \A i \in DOMAIN rx : rx[i].for # 0
    BY <1>3, <2>1 DEF SpentInv
  <2>3. \A i \in DOMAIN rx' : rx'[i].for # 0
    <3>1. CASE rx' = rx
      BY <2>2, <3>1
    <3>2. CASE Arrives /\ rx' = Tail(rx)
      <4>1. \A i \in DOMAIN Tail(rx) : i + 1 \in DOMAIN rx /\ Tail(rx)[i] = rx[i + 1]
        BY <3>2, RxShape, HeadAndTail DEF Arrives, TypeInv
      <4> QED
        BY <2>2, <3>2, <4>1
    <3> QED
      BY <2>1, <3>1, <3>2
  <2>4. sent > 1 => link' = "eof" /\ rx' = <<>>
    BY <1>1, <1>3, <2>1 DEF SpentInv
  <2>5. sent > 0 /\ tx' = <<>> => link' = "eof"
    BY <1>3, <2>1 DEF SpentInv
  <2> QED
    BY <2>3, <2>4, <2>5
<1> QED
  BY <1>2, <1>3 DEF SpentInv

\* A sequence to which something has been appended is not empty.
LEMMA AppendMore ==
  ASSUME NEW S, NEW s \in Seq(S), NEW x
  PROVE  Append(s, x) # <<>>
<1> DEFINE T == S \cup {x}
<1>1. s \in Seq(T) /\ x \in T /\ Len(s) \in Nat
  OBVIOUS
<1> HIDE DEF T
<1>2. Append(s, x) \in Seq(T) /\ Len(Append(s, x)) = Len(s) + 1
  BY <1>1, AppendProperties
<1>3. Len(Append(s, x)) # 0
  BY <1>1, <1>2
<1> QED
  BY <1>3, EmptySeq

\* A command is written: if it is not the first, the server has hung up.
LEMMA SpentSend ==
  ASSUME TypeInv, InStep, OwnInv, SpentInv, SendSteps
  PROVE  SpentInv'
<1>1. pc = "send" /\ used' = used /\ clean' = clean
  BY DEF SendSteps, CddbSendCmd, CddbHttpSendCmd, CddbHttpPost, histVars
<1>2. CASE CddbDisconnect /\ sent' = sent
  BY <1>1, <1>2, SpentKept DEF CddbDisconnect, Close
<1>3. CASE ~(CddbDisconnect /\ sent' = sent)
  <2>1. KeepSocket /\ rx' = rx /\ sent' = sent + 1
    BY <1>3 DEF SendSteps, CddbSendCmd, CddbHttpSendCmd, CddbHttpPost, Sends
  <2>2. link = "up" => tx' # <<>>
    <3>1. \A req, http : Transmit(req, http, call) /\ link = "up" => tx' # <<>>
      BY RxShape, AppendMore DEF Transmit, TypeInv
    <3>2. TransmitPost(cmd, call) /\ link = "up" => tx' # <<>>
      <4> DEFINE a == Message(cmd, TRUE, call)
                 b == Message("data", TRUE, call)
      <4>1. tx \in Seq(Messages) /\ a \in Messages /\ b \in Messages
        <5>1. cmd \in Requests /\ "data" \in Requests /\ call \in Nat
          BY <1>1 DEF TypeInv, TypeOK, InCall, Requests
        <5> QED
          BY <5>1, RxShape DEF TypeInv, Message, Messages
      <4> HIDE DEF a, b
      <4>2. <<a, b>> \in Seq(Messages) /\ Len(<<a, b>>) = 2
        BY <4>1
      <4>3. Len(tx \o <<a, b>>) = Len(tx) + 2 /\ Len(tx) \in Nat
        BY <4>1, <4>2, ConcatProperties
      <4>4. tx \o <<a, b>> # <<>>
        BY <4>3, EmptySeq
      <4> QED
        BY <4>4 DEF TransmitPost, a, b
    <3> QED
      BY <1>3, <3>1, <3>2 DEF SendSteps, CddbSendCmd, CddbHttpSendCmd, CddbHttpPost
  <2>3. used = {}
    BY <1>1 DEF OwnInv
  <2>4. ASSUME clean, peer \in HttpSites
        PROVE  /\ sent + 1 > 0 /\ tx' = <<>> => link = "eof"
               /\ \A i \in DOMAIN rx : rx[i].for # 0
               /\ sent + 1 > 1 => link = "eof" /\ rx = <<>>
    <3>1. sock = "open" /\ Synced /\ Quiet
      BY <1>1, <2>4, SocketIsOpen DEF TypeInv, Quiet
    <3>2. tx = <<>> /\ link \in {"up", "eof"} /\ \A i \in DOMAIN rx : rx[i].for = 0
      BY <3>1 DEF Synced, OneRequest, OneAnswer
    <3>3. \A i \in DOMAIN rx : rx[i].for # 0
      BY <2>4, <3>1 DEF SpentInv
    <3>4. rx = <<>>
      <4>1. rx # <<>> => 1 \in DOMAIN rx
        BY RxShape, HeadAndTail DEF TypeInv
      <4> QED
        BY <3>2, <3>3, <4>1
    <3>5. sent > 0 => link = "eof"
      BY <2>4, <3>1, <3>2 DEF SpentInv
    <3>6. sent + 1 > 1 => sent > 0
      BY DEF TypeInv, TypeOK
    <3>7. tx' = <<>> => link = "eof"
      BY <2>2, <3>2
    <3> QED
      BY <3>3, <3>4, <3>5, <3>6, <3>7
  <2> QED
    BY <1>1, <2>1, <2>3, <2>4 DEF SpentInv, KeepSocket
<1> QED
  BY <1>2, <1>3

\* Lines that all belong to one call.
AllFor(lines, f) == lines \in Seq(Lines) /\ \A i \in DOMAIN lines : lines[i].for = f

\* Putting such lines together gives such lines.
LEMMA ForConcat ==
  ASSUME NEW f, NEW s, NEW t, AllFor(s, f), AllFor(t, f)
  PROVE  AllFor(s \o t, f)
<1>1. s \in Seq(Lines) /\ t \in Seq(Lines)
  BY DEF AllFor
<1>2. /\ s \o t \in Seq(Lines) /\ Len(s \o t) = Len(s) + Len(t)
      /\ \A i \in 1..(Len(s) + Len(t)) :
           (s \o t)[i] = IF i <= Len(s) THEN s[i] ELSE t[i - Len(s)]
  BY <1>1, ConcatProperties
<1>3. /\ Len(s) \in Nat /\ Len(t) \in Nat /\ DOMAIN s = 1..Len(s) /\ DOMAIN t = 1..Len(t)
      /\ DOMAIN (s \o t) = 1..(Len(s) + Len(t))
  BY <1>1, <1>2, LenProperties
<1>4. ASSUME NEW i \in 1..(Len(s) + Len(t)) PROVE (s \o t)[i].for = f
  <2>1. CASE i <= Len(s)
    BY <1>2, <1>3, <1>4, <2>1 DEF AllFor
  <2>2. CASE ~(i <= Len(s))
    <3>1. i - Len(s) \in DOMAIN t
      BY <1>3, <1>4, <2>2
    <3> QED
      BY <1>2, <1>4, <2>2, <3>1 DEF AllFor
  <2> QED
    BY <2>1, <2>2
<1> QED
  BY <1>2, <1>3, <1>4 DEF AllFor

\* What an HTTP server sends is for the call whose request it answers.
LEMMA HttpFor ==
  ASSUME TypeInv, Synced, SrvHttp
  PROVE  link' = "eof" /\ \A i \in DOMAIN rx' : rx'[i].for # 0
<1> DEFINE m == Head(tx)
           head(c) == <<Line("http", c, m.for, FALSE)>>
           blank(l) == <<Line("blank", 0, m.for, l)>>
<1>1. tx # <<>> /\ ~StrayPost
  BY DEF SrvHttp, StrayPost
<1>2. m \in Messages /\ m.for = call /\ call # 0 /\ rx = <<>> /\ call \in Nat
  BY <1>1, RequestShape, RxShape DEF TypeInv
<1>3. \A x \in Lines : x.for = call => AllFor(<<x>>, call)
  BY DEF AllFor
<1>4. ASSUME NEW c \in Nat PROVE AllFor(head(c), call)
  <2>1. Line("http", c, m.for, FALSE) \in Lines /\ Line("http", c, m.for, FALSE).for = call
    BY <1>2 DEF Line, Lines, Kinds
  <2> QED
    BY <1>3, <2>1
<1>5. ASSUME NEW l \in BOOLEAN PROVE AllFor(blank(l), call)
  <2>1. Line("blank", 0, m.for, l) \in Lines /\ Line("blank", 0, m.for, l).for = call
    BY <1>2 DEF Line, Lines, Kinds
  <2> QED
    BY <1>3, <2>1
<1>6. ASSUME NEW code \in Nat, NEW lines \in Answers(m, code) PROVE AllFor(lines, call)
  BY <1>2, AnswersShape DEF AllFor
<1>7. ASSUME NEW lines, AllFor(lines, call), Respond(lines, TRUE)
      PROVE  link' = "eof" /\ \A i \in DOMAIN rx' : rx'[i].for # 0
  <2>1. rx' = lines /\ link' = "eof"
    BY <1>2, <1>7 DEF Respond, AllFor
  <2> QED
    BY <1>2, <1>7, <2>1 DEF AllFor
<1>8. 400 \in Nat /\ TRUE \in BOOLEAN /\ FALSE \in BOOLEAN
  OBVIOUS
<1>9. CASE m.http /\ m.req \in Commands
  <2>1. PICK http \in ReplyCodes["http"] :
          IF http = 200
          THEN \E code \in ReplyCodes[IF m.req = "write" THEN "data" ELSE m.req] :
               \E lines \in Answers(m, code) :
                 Respond(head(http) \o blank(FALSE) \o lines, TRUE)
          ELSE Respond(head(http) \o blank(TRUE), TRUE)
    BY <1>9 DEF SrvHttp
  <2>2. http \in Nat
    BY ReplyCodesAssumption
  <2>3. AllFor(head(http) \o blank(FALSE), call) /\ AllFor(head(http) \o blank(TRUE), call)
    <3> HIDE DEF head, blank
    <3> QED
      BY <1>4, <1>5, <1>8, <2>2, ForConcat
  <2>4. CASE http = 200
    <3>1. PICK code \in ReplyCodes[IF m.req = "write" THEN "data" ELSE m.req] :
            \E lines \in Answers(m, code) :
              Respond(head(http) \o blank(FALSE) \o lines, TRUE)
      BY <2>1, <2>4
    <3>2. PICK lines \in Answers(m, code) : Respond(head(http) \o blank(FALSE) \o lines, TRUE)
      BY <3>1
    <3>3. code \in Nat
      BY <1>9, ReplyCodesAssumption DEF Requests
    <3>4. AllFor(lines, call)
      BY <1>6, <3>3
    <3> DEFINE top == head(http) \o blank(FALSE)
    <3>5. AllFor(top, call) /\ Respond(top \o lines, TRUE)
      BY <2>3, <3>2
    <3> HIDE DEF top
    <3>6. AllFor(top \o lines, call)
      BY <3>4, <3>5, ForConcat
    <3> QED
      BY <1>7, <3>5, <3>6
  <2>5. CASE http # 200
    BY <1>7, <2>1, <2>3, <2>5
  <2> QED
    BY <2>4, <2>5
<1>10. CASE ~(m.http /\ m.req \in Commands)
  <2>1. Respond(head(400) \o blank(TRUE), TRUE)
    BY <1>10 DEF SrvHttp
  <2>2. AllFor(head(400) \o blank(TRUE), call)
    <3> HIDE DEF head, blank
    <3> QED
      BY <1>4, <1>5, <1>8, ForConcat
  <2> QED
    BY <1>7, <2>1, <2>2
<1> QED
  BY <1>9, <1>10

\* The server and the network: an answer ends with the connection.
LEMMA SpentServer ==
  ASSUME TypeInv, InStep, SpentInv, Server, UNCHANGED clientVars
  PROVE  SpentInv'
<1>1. clean' = clean /\ sock' = sock /\ sent' = sent /\ used' = used
  BY DEF clientVars
<1>2. peer' = peer
  BY DEF Server, SrvBanner, SrvCommand, SrvEntry, SrvTimeout, SrvHttp, LinkDrops, LateConnect
<1> SUFFICES ASSUME clean, sock = "open", peer \in HttpSites
             PROVE  /\ sent > 0 /\ tx' = <<>> => link' = "eof"
                    /\ \A i \in DOMAIN rx' : rx'[i].for # 0
                    /\ sent > 1 => link' = "eof" /\ rx' = <<>>
  BY <1>1, <1>2 DEF SpentInv
<1>3. Synced
  BY DEF InStep
<1>4. SrvHttp \/ LinkDrops
  BY <1>3 DEF Server, SrvBanner, SrvCommand, SrvEntry, SrvTimeout, LateConnect, Synced
<1>5. link = "up" /\ ~(sent > 1)
  BY <1>4 DEF SrvHttp, LinkDrops, SpentInv
<1>6. CASE SrvHttp
  BY <1>3, <1>5, <1>6, HttpFor
<1>7. CASE LinkDrops
  <2>1. PICK k \in 0..Len(rx) : rx' = SubSeq(rx, 1, k)
    BY <1>7 DEF LinkDrops
  <2>2. rx \in Seq(Lines) /\ Len(rx) \in Nat
    BY RxShape DEF TypeInv
  <2>3. \A i \in DOMAIN rx' : i \in DOMAIN rx /\ rx'[i] = rx[i]
    BY <2>1, <2>2
  <2>4. \A i \in DOMAIN rx' : rx'[i].for # 0
    BY <2>3 DEF SpentInv
  <2>5. link' = "eof"
    BY <1>7 DEF LinkDrops
  <2> QED
    BY <1>5, <2>4, <2>5
<1> QED
  BY <1>4, <1>6, <1>7

\* Every step keeps SpentInv.
LEMMA SpentNext ==
  ASSUME TypeInv, InStep, OwnInv, SpentInv, [Next]_vars
  PROVE  SpentInv'
<1>1. ASSUME clean' = FALSE PROVE SpentInv'
  BY <1>1 DEF SpentInv
<1>2. CASE (\E c \in Calls : CddbCall(c)) \/ SetCacheMode \/ CddbSetSite
  <2>1. UNCHANGED <<clean, peer, sent, sock, link, tx, rx>> /\ used' \subseteq used
    BY <1>2 DEF CddbCall, SetCacheMode, CddbSetSite, KeepSocket, histVars, netVars
  <2> QED
    BY <2>1, SpentKept
<1>3. CASE ConnectSteps
  <2>1. CASE CddbConnectReuse \/ CddbConnectNoSocket
    BY <2>1, SpentKept DEF CddbConnectReuse, CddbConnectNoSocket, histVars, netVars
  <2>2. CASE CddbConnectFails
    BY <1>1, <2>2 DEF CddbConnectFails
  <2>3. CASE CddbConnectSucceeds
    <3>1. sent' = 0 /\ rx' = <<>> /\ DOMAIN rx' = {}
      BY <2>3, EmptySeq DEF CddbConnectSucceeds, OpenSocket
    <3> QED
      BY <3>1 DEF SpentInv
  <2> QED
    BY <1>3, <2>1, <2>2, <2>3 DEF ConnectSteps
\* Whatever is transmitted, it is not less than nothing.
<1>4. \A req, http : Transmit(req, http, call) => tx' = tx \/ tx' # <<>>
  BY RxShape, AppendMore DEF Transmit, TypeInv
<1>5. CASE HandshakeSteps
  <2>1. CASE clean' = FALSE
    BY <1>1, <2>1
  <2>2. CASE clean' # FALSE
    <3>1. /\ UNCHANGED <<clean, peer, sent, sock, link, used>> /\ Arrives /\ rx' = Tail(rx)
          /\ tx' = tx \/ tx' # <<>>
      <4>1. CASE CddbHandshakeProto
        BY <2>2, <4>1 DEF CddbHandshakeProto, FailNoCode, HasCode, KeepSocket
      <4>2. CASE CddbHandshakeBanner
        BY <1>4, <2>2, <4>2 DEF CddbHandshakeBanner, Handshake, FailNoCode, HasCode, KeepSocket
      <4>3. CASE CddbHandshakeHello
        BY <1>4, <2>2, <4>3 DEF CddbHandshakeHello, Handshake, FailNoCode, HasCode, KeepSocket
      <4> QED
        BY <1>5, <4>1, <4>2, <4>3 DEF HandshakeSteps
    <3> QED
      BY <3>1, SpentKept
  <2> QED
    BY <2>1, <2>2
<1>6. CASE HeaderSteps
  <2>1. CASE clean' = FALSE
    BY <1>1, <2>1
  <2>2. CASE clean' # FALSE
    <3>1. /\ UNCHANGED <<clean, peer, sent, used>>
          /\ \/ sock' = "closed"
             \/ UNCHANGED <<sock, link, tx>> /\ Arrives /\ rx' = Tail(rx)
      <4>1. CASE CddbHttpParseResponse
        BY <4>1 DEF CddbHttpParseResponse, HttpFails, CddbDisconnect, Close, KeepSocket
      <4>2. CASE CddbHttpParseHeaders
        BY <2>2, <4>2 DEF CddbHttpParseHeaders, SkipHeaders, KeepSocket
      <4>3. CASE CddbPostParseHeaders
        BY <2>2, <4>3 DEF CddbPostParseHeaders, SkipHeaders, KeepSocket
      <4> QED
        BY <1>6, <4>1, <4>2, <4>3 DEF HeaderSteps
    <3> QED
      BY <3>1, SpentKept
  <2> QED
    BY <2>1, <2>2
<1>7. ASSUME NEW e, NEW r, Arrives, UNCHANGED <<clean, sent>>,
             DropConnection \/ GiveUp(e, Tail(rx)) \/ Succeed(r, e, Tail(rx))
               \/ RecordEnds(e, Tail(rx))
      PROVE  SpentInv'
  <2>1. /\ peer' = peer
        /\ sock' = "closed" \/ (UNCHANGED <<sock, link, tx>> /\ rx' = Tail(rx))
    BY <1>7 DEF DropConnection, GiveUp, Succeed, RecordEnds, HttpClose, CddbDisconnect, Close,
                KeepSocket
  <2> QED
    BY <1>7, <2>1, SpentKept
<1>8. ASSUME Arrives, UNCHANGED <<clean, sent>>, KeepSocket, rx' = Tail(rx),
             tx' = tx \/ tx' # <<>>
      PROVE  SpentInv'
  BY <1>8, SpentKept DEF KeepSocket
<1>9. CASE AnswerSteps
  <2>1. CASE FailNoCode
    BY <1>1, <2>1 DEF FailNoCode
  <2>2. CASE ~FailNoCode
    <3>1. Arrives /\ UNCHANGED <<clean, sent>>
      BY <1>9, <2>2 DEF AnswerSteps, CddbAnswer, CddbWriteGoAhead, CddbWriteEntry, HasCode
    <3>2. CASE CddbAnswer
      BY <1>7, <1>8, <2>2, <3>1, <3>2 DEF CddbAnswer
    <3>3. CASE CddbWriteGoAhead
      BY <1>4, <1>7, <1>8, <2>2, <3>1, <3>3 DEF CddbWriteGoAhead
    <3>4. CASE CddbWriteEntry
      BY <1>7, <2>2, <3>1, <3>4 DEF CddbWriteEntry
    <3> QED
      BY <1>9, <3>2, <3>3, <3>4 DEF AnswerSteps
  <2> QED
    BY <2>1, <2>2
<1>10. CASE BodySteps
  <2>1. CASE clean' = FALSE
    BY <1>1, <2>1
  <2>2. CASE clean' # FALSE
    <3>1. sent' = sent
      BY <1>10 DEF BodySteps, CddbReadBody, CddbListBody, CddbSitesBody
    <3>2. CASE CddbReadBody
      BY <1>7, <1>8, <2>2, <3>1, <3>2 DEF CddbReadBody
    <3>3. CASE CddbListBody
      BY <1>7, <1>8, <2>2, <3>1, <3>3 DEF CddbListBody, ListEnds
    <3>4. CASE CddbSitesBody
      BY <1>7, <1>8, <2>2, <3>1, <3>4 DEF CddbSitesBody
    <3> QED
      BY <1>10, <3>2, <3>3, <3>4 DEF BodySteps
  <2> QED
    BY <2>1, <2>2
<1>11. CASE UNCHANGED vars
  <2>1. UNCHANGED <<clean, peer, sent, sock, link, tx, rx, used>>
    BY <1>11 DEF vars, clientVars, netVars
  <2> QED
    BY <2>1, SpentKept
<1> QED
  BY <1>2, <1>3, <1>5, <1>6, <1>9, <1>10, <1>11, SpentSend, SpentServer, NextByGroup

\* An HTTP connection is closed by success, and one that is used for a second command
\* gives no answer to it, unless an answer was abandoned (the calls of cddb_disconnect at
\* the end of each command, and the returns of cddb_cmd.c that make none).
THEOREM OneCommandEach == Spec => []OneHttpCommand
<1>1. Init => HttpInv /\ OwnInv /\ SpentInv
  <2> SUFFICES ASSUME Init PROVE HttpInv /\ OwnInv /\ SpentInv
    OBVIOUS
  <2>1. used = {} /\ sent = 0 /\ DOMAIN rx = {} /\ sock = "closed" /\ cmd \notin Commands
        /\ pc = "idle"
    BY EmptySeq DEF Init, Commands
  <2> QED
    BY <2>1 DEF HttpInv, OwnInv, OwnAnswer, SpentInv
<1>2. HttpInv /\ [Next]_vars => HttpInv'
  BY HttpNext
<1>3. TypeInv /\ InStep /\ OwnInv /\ [Next]_vars => OwnInv'
  BY OwnNext
<1>4. TypeInv /\ InStep /\ OwnInv /\ SpentInv /\ [Next]_vars => SpentInv'
  BY SpentNext
<1>5. HttpInv /\ SpentInv => OneHttpCommand
  BY DEF HttpInv, SpentInv, OneHttpCommand, Idle
<1> QED
  BY <1>1, <1>2, <1>3, <1>4, <1>5, InStepInvariant, PTL DEF Spec

----------------------------------------------------------------------------
(* The lines of an entry.                                                  *)

\* A submission over HTTP is not answered twice, and one is made over HTTP as long as the
\* site speaks it.
PostInv ==
  /\ pc \in {"httpStatus", "httpHeaders"} => cmd # "write"
  /\ pc = "postHeaders" => Http

\* An entry is on its way only to a server that waits for it, and one that has said so
\* does; unless it is the entry of a POST.
EntryInv ==
  clean /\ peer \notin HttpSites /\ pc # "postHeaders" =>
    /\ \A i \in DOMAIN tx : tx[i].req = "data" => srv = "input"
    /\ pc = "answer" /\ cmd = "write" =>
         \A i \in DOMAIN rx : i = 1 /\ rx[i].kind = "status" /\ rx[i].code = 320 => srv = "input"

\* Every step keeps PostInv: cddb_write reads the headers of its own POST.
LEMMA PostNext ==
  ASSUME PostInv, [Next]_vars
  PROVE  PostInv'
<1> USE DEF PostInv, Http
<1>1. CASE (\E c \in Calls : CddbCall(c)) \/ SetCacheMode \/ CddbSetSite
  BY <1>1 DEF CddbCall, SetCacheMode, CddbSetSite
<1>2. CASE ConnectSteps \/ HandshakeSteps
  BY <1>2 DEF ConnectSteps, CddbConnectReuse, CddbConnectNoSocket, CddbConnectFails,
              CddbConnectSucceeds, HandshakeSteps, CddbHandshakeBanner, CddbHandshakeHello,
              CddbHandshakeProto, Handshake, FailNoCode, GoOn, Return
<1>3. CASE SendSteps \/ HeaderSteps
  BY <1>3 DEF SendSteps, CddbSendCmd, CddbHttpSendCmd, CddbHttpPost, HeaderSteps,
              CddbHttpParseResponse, HttpFails, CddbHttpParseHeaders, CddbPostParseHeaders,
              SkipHeaders, GoOn, Return, appVars
<1>4. CASE AnswerSteps
  BY <1>4 DEF AnswerSteps, CddbAnswer, CddbWriteGoAhead, CddbWriteEntry, FailNoCode,
              DropConnection, GiveUp, Succeed, GoOn, Return
<1>5. CASE BodySteps
  BY <1>5 DEF BodySteps, CddbReadBody, CddbListBody, CddbSitesBody, ListEnds, RecordEnds,
              GiveUp, Succeed, GoOn, Return
<1>6. CASE UNCHANGED clientVars
  BY <1>6 DEF clientVars
<1> QED
  BY <1>1, <1>2, <1>3, <1>4, <1>5, <1>6, NextByGroup DEF vars

\* A request that is the only one in flight.
LEMMA TransmitOne ==
  ASSUME tx = <<>>, NEW req, NEW http, Transmit(req, http, call), NEW i \in DOMAIN tx'
  PROVE  tx'[i].req = req
<1> DEFINE m == [req |-> req, http |-> http, for |-> call]
<1>1. link = "up" => tx' = <<m>>
  BY DEF Transmit, Message
<1>2. link # "up" => tx' = <<>>
  BY DEF Transmit, Message
<1>3. DOMAIN <<m>> = {1} /\ <<m>>[1] = m /\ m.req = req
  OBVIOUS
<1> HIDE DEF m
<1>4. link = "up"
  BY <1>2, EmptySeq
<1> QED
  BY <1>1, <1>3, <1>4

\* A request that is no entry leaves on a connection with nothing else in flight.
LEMMA EntryKept ==
  ASSUME EntryInv, KeepSocket, clean' = clean, NEW req, req # "data", NEW http,
         clean => tx = <<>>, pc # "postHeaders",
         Transmit(req, http, call), pc' # "answer" \/ cmd' # "write"
  PROVE  EntryInv'
<1>1. ASSUME clean PROVE \A i \in DOMAIN tx' : tx'[i].req # "data"
  BY <1>1, TransmitOne
<1> QED
  BY <1>1 DEF EntryInv

\* A step of a call keeps EntryInv: it sends an entry only where it has read a 320.
LEMMA EntryClient ==
  ASSUME TypeInv, InStep, PostInv, EntryInv,
         ConnectSteps \/ HandshakeSteps \/ SendSteps \/ HeaderSteps \/ AnswerSteps \/ BodySteps
  PROVE  EntryInv'
<1>1. ASSUME clean' = FALSE PROVE EntryInv'
  BY <1>1 DEF EntryInv
<1>2. ASSUME tx' = <<>>, pc' # "answer" PROVE EntryInv'
  <2>1. DOMAIN tx' = {}
    BY <1>2, EmptySeq
  <2> QED
    BY <1>2, <2>1 DEF EntryInv
<1>3. ASSUME UNCHANGED <<tx, peer, srv, clean>>, pc # "postHeaders",
             pc' # "answer" \/ cmd' # "write"
      PROVE  EntryInv'
  BY <1>3 DEF EntryInv
<1>4. ASSUME clean, pc \notin {"idle", "connect", "postHeaders"}, Arrives \/ pc = "send"
      PROVE  tx = <<>>
  BY <1>4, SocketIsOpen DEF Synced, OneRequest, Quiet, Arrives, StrayPost, TypeInv
<1>5. CASE ConnectSteps
  <2>1. CASE CddbConnectReuse \/ CddbConnectNoSocket
    BY <1>3, <2>1 DEF CddbConnectReuse, CddbConnectNoSocket, GoOn, Return, histVars, netVars
  <2>2. CASE CddbConnectFails \/ CddbConnectSucceeds
    BY <1>2, <2>2 DEF CddbConnectFails, CddbConnectSucceeds, OpenSocket, GoOn, Return
  <2> QED
    BY <1>5, <2>1, <2>2 DEF ConnectSteps
<1>6. CASE HandshakeSteps
  <2>1. CASE clean' = FALSE
    BY <1>1, <2>1
  <2>2. CASE clean' # FALSE /\ CddbHandshakeProto
    BY <1>3, <2>2 DEF CddbHandshakeProto, FailNoCode, GoOn, KeepSocket
  <2>3. CASE clean' # FALSE /\ (CddbHandshakeBanner \/ CddbHandshakeHello)
    <3>1. PICK req \in {"hello", "proto"} :
            /\ Arrives /\ KeepSocket /\ clean' = clean /\ Transmit(req, FALSE, call)
            /\ pc' \in {"hello", "proto"} /\ pc \in {"banner", "hello"}
      BY <2>3 DEF CddbHandshakeBanner, CddbHandshakeHello, Handshake, FailNoCode, GoOn, HasCode
    <3> QED
      BY <1>4, <3>1, EntryKept
  <2> QED
    BY <1>6, <2>1, <2>2, <2>3 DEF HandshakeSteps
<1>7. CASE SendSteps
  <2>1. CASE CddbSendCmd
    <3>1. PICK req \in {cmd, "newline"} : Transmit(req, FALSE, call)
      BY <2>1 DEF CddbSendCmd
    <3>2. req # "data" /\ KeepSocket /\ rx' = rx /\ clean' = clean /\ pc = "send"
      BY <2>1, <3>1 DEF CddbSendCmd, TypeInv, InCall, Commands, histVars
    <3>3. ASSUME clean PROVE /\ \A i \in DOMAIN tx' : tx'[i].req # "data"
                             /\ \A i \in DOMAIN rx : rx[i].code # 320
      <4>1. tx = <<>>
        BY <1>4, <3>2, <3>3
      <4>2. \A i \in DOMAIN rx : rx[i].for = 0 /\ rx[i].code = 530
        BY <3>2, <3>3, SocketIsOpen DEF Synced, OneAnswer, Quiet, TypeInv
      <4>3. \A i \in DOMAIN tx' : tx'[i].req = req
        BY <3>1, <4>1, TransmitOne
      <4>4. \A i \in DOMAIN tx' : tx'[i].req # "data"
        BY <3>2, <4>3
      <4>5. \A i \in DOMAIN rx : rx[i].code # 320
        BY <4>2
      <4> QED
        BY <4>4, <4>5
    <3> QED
      BY <3>2, <3>3 DEF EntryInv, KeepSocket
  <2>2. CASE CddbHttpSendCmd
    <3>1. CASE CddbDisconnect
      BY <1>2, <2>2, <3>1 DEF CddbHttpSendCmd, CddbDisconnect, Close, Return, GoOn
    <3>2. CASE ~CddbDisconnect
      <4>1. PICK req \in {cmd, "newline"} : Transmit(req, TRUE, call)
        BY <2>2, <3>2 DEF CddbHttpSendCmd
      <4>2. /\ req # "data" /\ KeepSocket /\ clean' = clean /\ pc = "send"
            /\ pc' = "httpStatus"
        BY <2>2, <3>2, <4>1 DEF CddbHttpSendCmd, TypeInv, InCall, Commands, GoOn, histVars
      <4> QED
        BY <1>4, <4>1, <4>2, EntryKept
    <3> QED
      BY <3>1, <3>2
  <2>3. CASE CddbHttpPost
    BY <2>3 DEF CddbHttpPost, GoOn, EntryInv
  <2> QED
    BY <1>7, <2>1, <2>2, <2>3 DEF SendSteps
<1>8. CASE HeaderSteps
  <2>1. CASE CddbHttpParseResponse
    BY <1>2, <1>3, <2>1
    DEF CddbHttpParseResponse, HttpFails, CddbDisconnect, Close, Return, GoOn, KeepSocket
  <2>2. CASE CddbHttpParseHeaders
    <3>1. cmd # "write" /\ cmd' = cmd
      BY <2>2 DEF CddbHttpParseHeaders, SkipHeaders, PostInv, appVars
    <3> QED
      BY <1>1, <1>3, <2>2, <3>1 DEF CddbHttpParseHeaders, SkipHeaders, KeepSocket
  <2>3. CASE CddbPostParseHeaders
    <3>1. CASE clean' = FALSE
      BY <1>1, <3>1
    <3>2. CASE clean' # FALSE
      <4>1. /\ Arrives /\ clean' = clean /\ peer' = peer /\ pc = "postHeaders"
            /\ pc' = (IF Head(rx).kind = "blank" THEN "entry" ELSE "postHeaders")
        BY <2>3, <3>2 DEF CddbPostParseHeaders, SkipHeaders, KeepSocket, GoOn
      <4>2. Head(rx) = rx[1] /\ 1 \in DOMAIN rx
        BY <4>1, RxShape, HeadAndTail DEF Arrives, TypeInv
      <4>3. clean /\ peer \notin HttpSites => Head(rx).kind = "status"
        BY <4>1, <4>2, SocketIsOpen DEF Synced, OneAnswer, StrayPost, TypeInv
      <4> QED
        BY <4>1, <4>3 DEF EntryInv
    <3> QED
      BY <3>1, <3>2
  <2> QED
    BY <1>8, <2>1, <2>2, <2>3 DEF HeaderSteps
<1>9. ASSUME NEW e, NEW r, NEW rest, clean' = clean \/ clean' = FALSE, pc # "postHeaders",
             DropConnection \/ GiveUp(e, rest) \/ Succeed(r, e, rest) \/ RecordEnds(e, rest)
      PROVE  EntryInv'
  <2>1. pc' = "idle" /\ (tx' = <<>> \/ UNCHANGED <<tx, peer, srv>>)
    BY <1>9 DEF DropConnection, GiveUp, Succeed, RecordEnds, HttpClose, CddbDisconnect, Close,
                Return, KeepSocket
  <2> QED
    BY <1>1, <1>2, <1>3, <1>9, <2>1
<1>10. ASSUME NEW e, GoOn("body", e), KeepSocket, tx' = tx, clean' = clean, pc # "postHeaders"
       PROVE  EntryInv'
  BY <1>3, <1>10 DEF GoOn, KeepSocket
<1>11. CASE AnswerSteps
  <2>1. CASE FailNoCode
    BY <1>1, <2>1 DEF FailNoCode
  <2>2. CASE ~FailNoCode /\ CddbAnswer
    BY <1>9, <1>10, <2>2 DEF CddbAnswer
  <2>3. CASE ~FailNoCode /\ CddbWriteGoAhead
    <3>1. CASE GoAheadVerdict(Head(rx).code) # "GO"
      BY <1>9, <2>3, <3>1 DEF CddbWriteGoAhead
    <3>2. CASE GoAheadVerdict(Head(rx).code) = "GO"
      <4>1. Head(rx).code = 320
        BY <3>2 DEF GoAheadVerdict
      <4>2. /\ Transmit("data", FALSE, call) /\ KeepSocket /\ clean' = clean /\ HasCode
            /\ pc = "answer" /\ cmd = "write" /\ pc' = "entry"
        BY <2>3, <3>2 DEF CddbWriteGoAhead, GoOn, Errors
      <4>3. Arrives /\ Head(rx) = rx[1] /\ 1 \in DOMAIN rx
        BY <4>2, RxShape, HeadAndTail DEF HasCode, Arrives, TypeInv
      <4>4. clean /\ peer \notin HttpSites => srv = "input"
        BY <4>1, <4>2, <4>3 DEF EntryInv, HasCode
      <4> QED
        BY <4>2, <4>4 DEF EntryInv, KeepSocket
    <3> QED
      BY <3>1, <3>2
  <2>4. CASE ~FailNoCode /\ CddbWriteEntry
    BY <1>9, <2>4 DEF CddbWriteEntry
  <2> QED
    BY <1>11, <2>1, <2>2, <2>3, <2>4 DEF AnswerSteps
<1>12. CASE BodySteps
  <2>1. CASE CddbReadBody
    BY <1>1, <1>9, <1>10, <2>1 DEF CddbReadBody
  <2>2. CASE CddbListBody
    BY <1>1, <1>9, <1>10, <2>2 DEF CddbListBody, ListEnds
  <2>3. CASE CddbSitesBody
    BY <1>1, <1>9, <1>10, <2>3 DEF CddbSitesBody
  <2> QED
    BY <1>12, <2>1, <2>2, <2>3 DEF BodySteps
<1> QED
  BY <1>5, <1>6, <1>7, <1>8, <1>11, <1>12

\* The server says that it waits for an entry when it does.
LEMMA EntryServer ==
  ASSUME TypeInv, InStep, EntryInv, Server, UNCHANGED clientVars
  PROVE  EntryInv'
<1>1. pc' = pc /\ cmd' = cmd /\ clean' = clean /\ sock' = sock
  BY DEF clientVars
<1>2. peer' = peer
  BY DEF Server, SrvBanner, SrvCommand, SrvEntry, SrvTimeout, SrvHttp, LinkDrops, LateConnect
<1> SUFFICES ASSUME clean, peer \notin HttpSites, pc # "postHeaders" PROVE EntryInv'
  BY <1>1, <1>2 DEF EntryInv
<1>3. sock = "open" /\ Synced
  <2>1. link # "down"
    BY DEF Server, SrvBanner, SrvCommand, SrvEntry, SrvTimeout, SrvHttp, LinkDrops, LateConnect
  <2> QED
    BY <2>1 DEF InStep, NothingOnClosed, TypeInv, TypeOK
<1>4. ASSUME tx' = <<>>, pc # "answer" \/ cmd # "write" PROVE EntryInv'
  <2>1. DOMAIN tx' = {}
    BY <1>4, EmptySeq
  <2> QED
    BY <1>1, <1>4, <2>1 DEF EntryInv
<1>5. ASSUME tx' = <<>>, DOMAIN rx' = {} \/ (1 \in DOMAIN rx' /\ (rx'[1].code # 320 \/ srv' = "input"))
      PROVE  EntryInv'
  <2>1. DOMAIN tx' = {}
    BY <1>5, EmptySeq
  <2> QED
    BY <1>5, <2>1 DEF EntryInv
<1>6. ASSUME tx # <<>> PROVE rx = <<>> /\ Tail(tx) = <<>> /\ DOMAIN rx = {}
  BY <1>3, <1>6, RequestShape, EmptySeq DEF StrayPost
<1>7. CASE SrvBanner
  <2>1. pc = "banner" /\ rx = <<>> /\ tx = <<>> /\ tx' = tx
    BY <1>3, <1>7 DEF SrvBanner, Synced, Greeted, OneRequest, StrayPost
  <2> QED
    BY <1>4, <2>1
<1>8. CASE SrvCommand
  <2>1. tx # <<>> /\ tx' = Tail(tx) /\ Head(tx) \in Messages
    BY <1>3, <1>8, RequestShape DEF SrvCommand
  <2>2. tx' = <<>> /\ rx = <<>>
    BY <1>6, <2>1
  <2>3. CASE pc = "answer" /\ cmd = "write"
    <3>1. Head(tx).req \in {"write", "newline"}
      BY <1>3, <2>1, <2>3, RequestShape DEF Asked
    <3>2. PICK code \in IF Head(tx).http \/ Head(tx).req \in {"data", "newline"} THEN {500}
                        ELSE IF srv = "greeted" /\ Head(tx).req \in Commands THEN {409}
                        ELSE ReplyCodes[Head(tx).req] :
            \E lines \in Answers(Head(tx), code) :
              /\ Respond(lines, Closing(code))
              /\ srv' = IF Head(tx).http THEN srv ELSE NextSession(Head(tx).req, code)
      BY <1>8 DEF SrvCommand
    <3>3. ~HasBody(Head(tx).req, code)
      BY <3>1 DEF HasBody
    <3>4. /\ Respond(<<Status(code, Head(tx).for, TRUE)>>, Closing(code))
          /\ srv' = IF Head(tx).http THEN srv ELSE NextSession(Head(tx).req, code)
      BY <3>2, <3>3 DEF Answers
    <3> DEFINE l == Status(code, Head(tx).for, TRUE)
    <3>5. l.code = code
      BY DEF Status, Line
    <3>6. rx' = <<>> \o <<l>>
      BY <2>2, <3>4 DEF Respond
    <3> HIDE DEF l
    <3>7. rx' = <<l>>
      BY <3>6
    <3>8. 1 \in DOMAIN rx' /\ rx'[1] = l
      BY <3>7
    <3>9. ASSUME code = 320 PROVE srv' = "input"
      <4>1. ~Head(tx).http /\ Head(tx).req = "write"
        BY <3>1, <3>2, <3>9
      <4> QED
        BY <3>4, <3>9, <4>1 DEF NextSession
    <3> QED
      BY <1>5, <2>2, <3>5, <3>8, <3>9
  <2> QED
    BY <1>4, <2>2, <2>3
<1>9. CASE SrvEntry
  <2>1. tx # <<>> /\ tx' = Tail(tx)
    BY <1>9 DEF SrvEntry
  <2>2. tx' = <<>> /\ DOMAIN rx = {}
    BY <1>6, <2>1
  <2>3. CASE Head(tx).req = "data"
    <3>1. pc # "answer" \/ cmd # "write"
      BY <1>3, <2>1, <2>3, RequestShape DEF Asked
    <3> QED
      BY <1>4, <2>2, <3>1
  <2>4. CASE Head(tx).req # "data"
    <3>1. rx' = rx
      BY <1>9, <2>4 DEF SrvEntry
    <3> QED
      BY <1>5, <2>2, <3>1
  <2> QED
    BY <2>3, <2>4
<1>10. CASE SrvTimeout
  <2> DEFINE l == Status(530, 0, TRUE)
  <2>1. tx' = <<>> /\ rx' = <<>> \o <<l>>
    BY <1>10 DEF SrvTimeout, Respond
  <2>2. l.code = 530
    BY DEF Status, Line
  <2> HIDE DEF l
  <2>3. rx' = <<l>>
    BY <2>1
  <2>4. 1 \in DOMAIN rx' /\ rx'[1] = l
    BY <2>3
  <2> QED
    BY <1>5, <2>1, <2>2, <2>4
<1>11. CASE SrvHttp
  BY <1>11 DEF SrvHttp
<1>12. CASE LinkDrops
  <2>1. PICK k \in 0..Len(rx) : rx' = SubSeq(rx, 1, k)
    BY <1>12 DEF LinkDrops
  <2>2. rx \in Seq(Lines) /\ Len(rx) \in Nat
    BY RxShape DEF TypeInv
  <2>3. \A i \in DOMAIN rx' : i \in DOMAIN rx /\ rx'[i] = rx[i]
    BY <2>1, <2>2
  <2>4. tx' = <<>> /\ srv' = srv /\ DOMAIN tx' = {}
    BY <1>12, EmptySeq DEF LinkDrops
  <2> QED
    BY <1>1, <1>2, <2>3, <2>4 DEF EntryInv
<1>13. ~LateConnect
  BY <1>3 DEF LateConnect, Synced
<1> QED
  BY <1>7, <1>8, <1>9, <1>10, <1>11, <1>12, <1>13 DEF Server

\* Every step keeps EntryInv.
LEMMA EntryNext ==
  ASSUME TypeInv, InStep, PostInv, EntryInv, [Next]_vars
  PROVE  EntryInv'
<1>1. CASE (\E c \in Calls : CddbCall(c)) \/ SetCacheMode \/ CddbSetSite
  BY <1>1 DEF CddbCall, SetCacheMode, CddbSetSite, KeepSocket, histVars, netVars, EntryInv
<1>2. CASE UNCHANGED vars
  BY <1>2 DEF vars, clientVars, netVars, EntryInv
<1> QED
  BY <1>1, <1>2, EntryClient, EntryServer, NextByGroup

\* While the site is one that speaks CDDBP, the lines of an entry go only to a server that
\* has asked for them, unless an answer was abandoned on the socket (the two phases of
\* cddb_write).
THEOREM EntriesAreWanted == Spec => []EntryWanted
<1>1. Init => PostInv /\ EntryInv
  <2> SUFFICES ASSUME Init PROVE PostInv /\ EntryInv
    OBVIOUS
  <2>1. DOMAIN tx = {} /\ pc = "idle"
    BY EmptySeq DEF Init
  <2> QED
    BY <2>1 DEF PostInv, EntryInv
<1>2. PostInv /\ [Next]_vars => PostInv'
  BY PostNext
<1>3. TypeInv /\ InStep /\ PostInv /\ EntryInv /\ [Next]_vars => EntryInv'
  BY EntryNext
<1>4. TypeInv /\ InStep /\ PostInv /\ EntryInv => EntryWanted
  <2> SUFFICES ASSUME TypeInv, InStep, EntryInv, clean, peer \notin HttpSites,
                      pc # "postHeaders", NEW i \in DOMAIN tx, tx[i].req = "data"
               PROVE  i = 1 /\ srv = "input"
    BY DEF EntryWanted, PostInv
  <2>1. srv = "input"
    BY DEF EntryInv
  <2>2. Len(tx) \in Nat /\ DOMAIN tx = 1..Len(tx) /\ Len(tx) <= 1
    BY RxShape, OneInFlight DEF TypeInv
  <2> QED
    BY <2>1, <2>2
<1> QED
  BY <1>1, <1>2, <1>3, <1>4, InStepInvariant, PTL DEF Spec

=============================================================================
