----------------------------- MODULE CddbServer -----------------------------
(***************************************************************************)
(* The TCP connection and the server at its other end.  Neither is part of *)
(* the repository: they do what the client code in lib/ relies on.         *)
(*                                                                         *)
(* A request or a response line carries, in its field "for", the number of *)
(* the library call it was sent for or answers.  The code never sees that  *)
(* number: it is there so that properties can say which call a line        *)
(* belongs to.  A line the server sends unasked is for call 0.             *)
(*                                                                         *)
(* rx holds the lines in flight towards the client, in order.  A line in   *)
(* rx may reach the client in time or too late: the choice is made by the  *)
(* client's read (CddbConn).                                               *)
(***************************************************************************)
EXTENDS CddbProtocol, Sequences

CONSTANTS
  Sites,        \* the servers an application may configure
  HttpSites,    \* those of them that speak HTTP
  ReplyCodes,   \* the codes a server may answer to a request with
  MaxLines      \* the longest list or record, in lines of data

ASSUME SitesAssumption == HttpSites \subseteq Sites
ASSUME ReplyCodesAssumption ==
  ReplyCodes \in [Requests \cup {"banner", "http"} -> SUBSET Nat]
ASSUME MaxLinesAssumption == MaxLines \in Nat

VARIABLES
  peer,   \* the site the socket was opened to
  link,   \* state of the TCP connection
  srv,    \* state of the server's session
  tx,     \* requests in flight to the server
  rx      \* lines in flight to the client

netVars == <<peer, link, srv, tx, rx>>

\* "pending": connect() timed out, the connection may still come up.
\* "eof":     nothing more will arrive than what is in rx.
Links == { "down", "pending", "up", "eof" }

\* "input": the server has answered 320 and takes what it receives for the
\* lines of an entry, up to the dot.
Sessions == { "new", "greeted", "shaken", "input" }

Kinds == { "status", "data", "dot", "http", "blank", "junk" }

\* "last" marks the line that completes an answer.
Lines == [kind : Kinds, code : Nat, for : Nat, last : BOOLEAN]

Messages == [req : Requests, http : BOOLEAN, for : Nat]

Line(k, c, f, l)   == [kind |-> k, code |-> c, for |-> f, last |-> l]
Status(c, f, l)    == Line("status", c, f, l)

NetTypeOK ==
  /\ peer \in Sites
  /\ link \in Links
  /\ srv \in Sessions
  /\ tx \in Seq(Messages)
  /\ rx \in Seq(Lines)

----------------------------------------------------------------------------
(* What the client does to the connection.                                 *)

\* A request leaves if the connection is up.  sock_fwrite gives up on a
\* connection that is not, and none of its callers looks at what it returns.
Message(req, http, f) == [req |-> req, http |-> http, for |-> f]

Transmit(req, http, f) ==
  tx' = IF link = "up" THEN Append(tx, Message(req, http, f)) ELSE tx

\* The headers of a POST, and the entry behind them.
TransmitPost(req, f) ==
  tx' = IF link = "up"
        THEN tx \o <<Message(req, TRUE, f), Message("data", TRUE, f)>>
        ELSE tx

\* close(2): whatever was in flight is gone.
Close ==
  /\ link' = "down"
  /\ srv' = "new"
  /\ tx' = <<>>
  /\ rx' = <<>>
  /\ UNCHANGED peer

----------------------------------------------------------------------------
(* What the server and the network do.                                     *)

\* The lines that answer request m with the given code.
Answers(m, code) ==
  IF HasBody(m.req, code)
  THEN { <<Status(code, m.for, FALSE)>>
           \o [i \in 1..n |-> Line("data", 0, m.for, FALSE)]
           \o <<Line("dot", 0, m.for, TRUE)>> : n \in 0..MaxLines }
  ELSE { <<Status(code, m.for, TRUE)>> }

\* The codes after which the server closes the connection.
Closing(code) == code \in {432, 433, 434, 431, 530}

Respond(lines, closes) ==
  /\ rx' = rx \o lines
  /\ link' = IF closes THEN "eof" ELSE link

\* A CDDBP server greets the client, unasked.
SrvBanner ==
  /\ link = "up" /\ peer \notin HttpSites /\ srv = "new"
  /\ \E code \in ReplyCodes["banner"] :
       Respond(<<Status(code, 0, TRUE)>>, Closing(code))
  /\ srv' = "greeted"
  /\ UNCHANGED <<peer, tx>>

\* The session after a CDDBP server answered req with code.
NextSession(req, code) ==
  CASE req = "hello" /\ code \in {200, 402} -> "shaken"
    [] req = "write" /\ code = 320          -> "input"
    [] OTHER                                -> srv

\* A CDDBP server answers one command.  Before the handshake it answers 409 to
\* everything but the handshake; it answers 500 to what is no command.
SrvCommand ==
  /\ link = "up" /\ peer \notin HttpSites /\ srv \in {"greeted", "shaken"}
  /\ tx # <<>>
  /\ LET m     == Head(tx)
         codes == IF m.http \/ m.req \in {"data", "newline"} THEN {500}
                  ELSE IF srv = "greeted" /\ m.req \in Commands THEN {409}
                  ELSE ReplyCodes[m.req]
     IN \E code \in codes : \E lines \in Answers(m, code) :
          /\ Respond(lines, Closing(code))
          /\ srv' = IF m.http THEN srv ELSE NextSession(m.req, code)
  /\ tx' = Tail(tx)
  /\ UNCHANGED peer

\* A CDDBP server that waits for an entry takes every line for a part of it
\* and answers when it has seen the dot that ends the entry; the entry of a POST
\* has none.
SrvEntry ==
  /\ link = "up" /\ peer \notin HttpSites /\ srv = "input"
  /\ tx # <<>>
  /\ IF Head(tx).req = "data" /\ ~Head(tx).http
     THEN /\ \E code \in ReplyCodes["data"] :
               Respond(<<Status(code, Head(tx).for, TRUE)>>, Closing(code))
          /\ srv' = "shaken"
     ELSE UNCHANGED <<rx, link, srv>>
  /\ tx' = Tail(tx)
  /\ UNCHANGED peer

\* A CDDBP server drops a client that stays silent, and says so.
SrvTimeout ==
  /\ link = "up" /\ peer \notin HttpSites /\ srv # "new"
  /\ tx = <<>> /\ rx = <<>>
  /\ Respond(<<Status(530, 0, TRUE)>>, TRUE)
  /\ UNCHANGED <<peer, srv, tx>>

\* An HTTP server answers one request, of a POST with all that is behind its headers,
\* and closes the connection.
SrvHttp ==
  /\ link = "up" /\ peer \in HttpSites /\ tx # <<>>
  /\ LET m     == Head(tx)
         head(c)  == <<Line("http", c, m.for, FALSE)>>
         blank(l) == <<Line("blank", 0, m.for, l)>>
     IN IF m.http /\ m.req \in Commands
        THEN \E http \in ReplyCodes["http"] :
               IF http = 200
               THEN \E code \in ReplyCodes[IF m.req = "write" THEN "data" ELSE m.req] :
                    \E lines \in Answers(m, code) :
                      Respond(head(http) \o blank(FALSE) \o lines, TRUE)
               ELSE Respond(head(http) \o blank(TRUE), TRUE)
        ELSE Respond(head(400) \o blank(TRUE), TRUE)
  /\ tx' = <<>>
  /\ UNCHANGED <<peer, srv>>

\* The connection breaks; some of the lines in flight still arrive.
LinkDrops ==
  /\ link = "up"
  /\ link' = "eof"
  /\ \E k \in 0..Len(rx) : rx' = SubSeq(rx, 1, k)
  /\ tx' = <<>>
  /\ UNCHANGED <<peer, srv>>

\* A connection that connect() did not wait for comes up or is refused.
LateConnect ==
  /\ link = "pending"
  /\ link' \in {"up", "eof"}
  /\ UNCHANGED <<peer, srv, tx, rx>>

Server ==
  \/ SrvBanner
  \/ SrvCommand
  \/ SrvEntry
  \/ SrvTimeout
  \/ SrvHttp
  \/ LinkDrops
  \/ LateConnect

=============================================================================
