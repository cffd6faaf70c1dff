------------------------------ MODULE CddbConn ------------------------------
(***************************************************************************)
(* One connection structure (cddb_conn_t) and the thread that makes        *)
(* library calls on it: cddb_connect, cddb_handshake, cddb_disconnect,     *)
(* cddb_send_cmd, cddb_get_response_code and the commands built on them,   *)
(* cddb_read, cddb_query, cddb_album, cddb_write and cddb_sites.           *)
(*                                                                         *)
(* A call blocks; between two of its reads or writes the server and the    *)
(* network (CddbServer) take steps.  "pc" names the place where the call   *)
(* blocks next.                                                            *)
(***************************************************************************)
EXTENDS CddbServer

CONSTANTS
  Calls,      \* the commands the application uses
  MaxCalls    \* bound on the number of calls

ASSUME CallsAssumption == Calls \subseteq Commands
ASSUME MaxCallsAssumption == MaxCalls \in Nat

VARIABLES
  pc,         \* where the current call is; "idle" between calls
  cmd,        \* the function called last, "none" before the first call
  call,       \* number of calls made
  site,       \* the configured server: name, port, protocol
  useCache,   \* c->use_cache
  sock,       \* "closed" for c->socket == -1
  errnum,     \* c->errnum
  ret,        \* what the last call returned
  parsed,     \* the record or list read so far is not empty
  clean,      \* history: no answer was abandoned on this socket
  shook,      \* history: the handshake was completed on this socket
  used,       \* history: the calls whose answers this call has consumed
  sent        \* history: the commands written to this socket

appVars   == <<cmd, call, site, useCache>>
histVars  == <<clean, shook, used>>
clientVars == <<pc, cmd, call, site, useCache, sock, errnum, ret, parsed,
                clean, shook, used, sent>>
vars == <<clientVars, netVars>>

Places == { "idle", "connect", "banner", "hello", "proto", "send",
            "httpStatus", "httpHeaders", "postHeaders",
            "answer", "entry", "body" }

\* "ok": TRUE or a number of matches; "none": no match; "fail": FALSE or -1.
Results == { "ok", "none", "fail" }

TypeOK ==
  /\ NetTypeOK
  /\ pc \in Places
  /\ cmd \in Commands \cup {"none", "set_site"}
  /\ call \in Nat
  /\ site \in Sites
  /\ useCache \in {"off", "on", "only"}
  /\ sock \in {"closed", "open"}
  /\ errnum \in Errors
  /\ ret \in Results
  /\ parsed \in BOOLEAN
  /\ clean \in BOOLEAN
  /\ shook \in BOOLEAN
  /\ used \in SUBSET Nat
  /\ sent \in Nat

\* c->is_http_enabled follows the configured site.
Http == site \in HttpSites

\* cddb_new: no socket, default server, caching allowed.
Init ==
  /\ pc = "idle" /\ cmd = "none" /\ call = 0
  /\ site \in Sites /\ useCache = "on"
  /\ sock = "closed" /\ errnum = "OK" /\ ret = "ok" /\ parsed = FALSE
  /\ clean = TRUE /\ shook = FALSE /\ used = {} /\ sent = 0
  /\ peer \in Sites /\ link = "down" /\ srv = "new"
  /\ tx = <<>> /\ rx = <<>>

----------------------------------------------------------------------------
(* Building blocks.                                                        *)

Return(r, e) ==
  /\ pc' = "idle"
  /\ ret' = r
  /\ errnum' = e

GoOn(place, e) ==
  /\ pc' = place
  /\ errnum' = e
  /\ UNCHANGED ret

\* cddb_disconnect resets the error code; callers set theirs afterwards.
CddbDisconnect ==
  /\ sock' = "closed"
  /\ Close

KeepSocket == UNCHANGED <<sock, peer, link, srv>>

\* Mutant: the connection is kept for the next command in HTTP too.
HttpCloseKeeps(rxRest) == KeepSocket /\ UNCHANGED tx /\ rx' = rxRest

\* "close connection if using HTTP"; otherwise the next call reuses the
\* socket, and rxRest is what is left to read on it.
HttpClose(rxRest) ==
  IF Http THEN CddbDisconnect
  ELSE KeepSocket /\ UNCHANGED tx /\ rx' = rxRest

\* What is left in flight when cddb_read_line returns NULL: nothing is lost when
\* the time-out strikes between two lines or the connection ends; when it
\* strikes within a line the beginning of the line is gone, and what follows
\* is read as a line of its own, perhaps one that starts with a number.
Torn(l) ==
  {[l EXCEPT !.kind = "junk"]}
    \cup (IF l.kind = "status" THEN {[l EXCEPT !.code = 0]} ELSE {})

Unread ==
  {rx} \cup
  (IF rx = <<>> THEN {} ELSE {<<t>> \o Tail(rx) : t \in Torn(Head(rx))})

\* The line cddb_read_line returns, when it returns one.
Arrives == rx # <<>>

Reads(l) == used' = used \cup {l.for}

\* cddb_get_response_code returns -1 and its caller gives up.  When no line
\* came, UNEXPECTED_EOF is set only if an earlier operation had left an error.
\* Whatever was on its way stays there, and so does the socket.
FailNoCode ==
  /\ \/ /\ rx' \in Unread
        /\ Return("fail", IF errnum # "OK" THEN "UNEXPECTED_EOF" ELSE "OK")
     \/ /\ Arrives /\ Head(rx).kind # "status"
        /\ rx' = Tail(rx)
        /\ Return("fail", "INVALID_RESPONSE")
  /\ clean' = FALSE
  /\ KeepSocket
  /\ UNCHANGED <<appVars, sent, parsed, shook, used, tx>>

\* cddb_get_response_code returns the code of a status line.
HasCode == Arrives /\ Head(rx).kind = "status"

----------------------------------------------------------------------------
(* Starting a call: what it checks and does before it needs the server.    *)

\* The call ends with result r and error e, or goes on to cddb_connect with
\* error code e, which nothing has reset yet.
Local(r, e)  == [ends |-> TRUE, ret |-> r, err |-> e]
Onwards(e)   == [ends |-> FALSE, ret |-> ret, err |-> e]

\* Mutant: the check for CACHE_ONLY after a cache miss is lost.
ReadStartsMissGoesOn ==
  { Local("fail", "DATA_MISSING"), Onwards(errnum) }
  \cup (IF useCache = "off" THEN {} ELSE { Local("ok", "OK") })

\* An entry in the cache directory may be found and parsed, or found and
\* rejected by cddb_parse_record.
ReadStarts ==
  { Local("fail", "DATA_MISSING") }
  \cup (IF useCache = "off" THEN {} ELSE { Local("ok", "OK") })
  \cup (IF useCache = "only"
        THEN { Local("fail", "DISC_NOT_FOUND") }
        ELSE { Onwards(errnum) })
  \cup (IF useCache = "on"
        THEN { Onwards("TRACK_NOT_FOUND"), Onwards("ICONV_FAIL") }
        ELSE {})

\* A disc that is not in the cache and may not be looked up is no match: the
\* call returns FALSE, which is a count of 0.
QueryStarts ==
  { Local("fail", "DATA_MISSING") }
  \cup (IF useCache = "off" THEN {} ELSE { Local("ok", "OK") })
  \cup (IF useCache = "only"
        THEN { Local("none", "DISC_NOT_FOUND") }
        ELSE { Local("fail", "LINE_SIZE"), Onwards(errnum) })

AlbumStarts ==
  { Local("fail", "DATA_MISSING") }
  \cup (IF useCache = "only"
        THEN { Local("none", "DISC_NOT_FOUND") }
        ELSE { Onwards(errnum) })

WriteStarts ==
  { Local("fail", "EMAIL_INVALID"), Local("fail", "DATA_MISSING"),
    Local("fail", "ICONV_FAIL") }
  \cup (IF useCache = "only" THEN { Local("ok", "OK") } ELSE { Onwards(errnum) })

\* cddb_sites looks at nothing before it connects.
SitesStarts == { Onwards(errnum) }

Starts(c) ==
  CASE c = "read"  -> ReadStarts
    [] c = "query" -> QueryStarts
    [] c = "album" -> AlbumStarts
    [] c = "write" -> WriteStarts
    [] c = "sites" -> SitesStarts

\* The application calls function c of cddb_cmd.h.
CddbCall(c) ==
  /\ pc = "idle" /\ call < MaxCalls
  /\ cmd' = c
  /\ call' = call + 1
  /\ used' = {}
  /\ parsed' = FALSE
  /\ \E s \in Starts(c) :
       /\ pc' = IF s.ends THEN "idle" ELSE "connect"
       /\ ret' = s.ret
       /\ errnum' = s.err
  /\ KeepSocket
  /\ UNCHANGED <<site, useCache, clean, shook, sent, tx, rx>>

\* cddb_cache_enable, cddb_cache_disable, cddb_cache_only.
SetCacheMode ==
  /\ pc = "idle"
  /\ useCache' \in {"off", "on", "only"} \ {useCache}
  /\ UNCHANGED <<pc, cmd, call, site, sock, errnum, ret, parsed, histVars, sent, netVars>>

\* cddb_set_site: a site it cannot use changes nothing, a site it can use
\* changes the configuration, and neither touches an open socket.
CddbSetSite ==
  /\ pc = "idle"
  /\ cmd' = "set_site"
  /\ \/ site' = site /\ ret' = "fail" /\ errnum' = "INVALID"
     \/ site' \in Sites /\ ret' = "ok" /\ errnum' = "OK"
  /\ UNCHANGED <<pc, call, useCache, sock, parsed, histVars, sent, netVars>>

----------------------------------------------------------------------------
(* cddb_connect and cddb_handshake.                                        *)

\* A socket that is open is taken for a connection that works.
CddbConnectReuse ==
  /\ pc = "connect" /\ sock = "open"
  /\ GoOn("send", "OK")
  /\ UNCHANGED <<appVars, sent, sock, parsed, histVars, netVars>>

\* Mutant: errno goes where the error code of the library belongs.
CddbConnectNoSocketErrno ==
  /\ pc = "connect" /\ sock = "closed"
  /\ \E e \in {"ETIMEDOUT", "EMFILE"} : Return("fail", e)
  /\ UNCHANGED <<appVars, sent, sock, parsed, histVars, netVars>>

\* The host name cannot be resolved in time, or there are no sockets left.
CddbConnectNoSocket ==
  /\ pc = "connect" /\ sock = "closed"
  /\ \E e \in {"UNKNOWN_HOST_NAME", "CONNECT"} : Return("fail", e)
  /\ UNCHANGED <<appVars, sent, sock, parsed, histVars, netVars>>

\* c->socket is set before timeout_connect, whatever becomes of it.
OpenSocket ==
  /\ sock' = "open"
  /\ peer' = site
  /\ srv' = "new"
  /\ tx' = <<>> /\ rx' = <<>>
  /\ shook' = FALSE
  /\ sent' = 0

\* timeout_connect returns -1: the connection is refused, did not come up in
\* time, or came up at once.  The call fails and leaves the socket open.
CddbConnectFails ==
  /\ pc = "connect" /\ sock = "closed"
  /\ OpenSocket
  /\ link' \in {"eof", "pending", "up"}
  /\ clean' = FALSE
  /\ Return("fail", "CONNECT")
  /\ UNCHANGED <<appVars, parsed, used>>

\* Mutant: the test for HTTP before the handshake is the wrong way round.
CddbConnectSucceedsNoHandshake ==
  /\ pc = "connect" /\ sock = "closed"
  /\ OpenSocket
  /\ link' \in {"up", "eof"}
  /\ clean' = TRUE
  /\ IF ~Http THEN GoOn("send", "OK") ELSE GoOn("banner", errnum)
  /\ UNCHANGED <<appVars, parsed, used>>

\* timeout_connect returns 0: the connection is up, or connect() failed at
\* once with an error other than EINPROGRESS.
CddbConnectSucceeds ==
  /\ pc = "connect" /\ sock = "closed"
  /\ OpenSocket
  /\ link' \in {"up", "eof"}
  /\ clean' = TRUE
  /\ IF Http THEN GoOn("send", "OK") ELSE GoOn("banner", errnum)
  /\ UNCHANGED <<appVars, parsed, used>>

\* One step of the handshake at place "at": it fails, or the verdict on the
\* code read is to refuse, or the next request leaves.
Handshake(at, Verdict(_), request, next) ==
  /\ pc = at
  /\ \/ FailNoCode
     \/ /\ HasCode
        /\ rx' = Tail(rx)
        /\ IF Verdict(Head(rx).code) = "DONE"
           THEN /\ Transmit(request, FALSE, call)
                /\ GoOn(next, "OK")
                /\ UNCHANGED clean
           ELSE /\ Return("fail", Verdict(Head(rx).code))
                /\ clean' = FALSE
                /\ UNCHANGED tx
        /\ KeepSocket
        /\ UNCHANGED <<appVars, sent, parsed, shook, used>>

CddbHandshakeBanner == Handshake("banner", BannerVerdict, "hello", "hello")

CddbHandshakeHello  == Handshake("hello", HelloVerdict, "proto", "proto")

\* Whatever code answers "proto", the handshake is over.
CddbHandshakeProto ==
  /\ pc = "proto"
  /\ \/ FailNoCode
     \/ /\ HasCode
        /\ rx' = Tail(rx)
        /\ GoOn("send", "OK")
        /\ shook' = TRUE
        /\ KeepSocket
        /\ UNCHANGED <<appVars, sent, parsed, clean, used, tx>>

----------------------------------------------------------------------------
(* cddb_send_cmd.                                                          *)

\* The offsets of a query and the title of an album may be too long for the
\* buffer in which the command is put together.
MayBeTooLong == cmd \in {"query", "album"}

\* Mutant: the newline goes out once with the command and once more behind it.
CddbSendCmdTwoNewlines ==
  /\ pc = "send" /\ ~Http
  /\ IF link = "up"
     THEN tx' = tx \o [i \in 1..2 |-> [req  |-> IF i = 1 THEN cmd ELSE "newline",
                                      http |-> FALSE, for |-> call]]
     ELSE UNCHANGED tx
  /\ sent' = sent + 1
  /\ GoOn("answer", "OK")
  /\ KeepSocket
  /\ UNCHANGED <<appVars, parsed, histVars, rx>>

\* A command is written to the socket, whether or not the socket takes it.
Sends == sent' = sent + 1

\* CDDBP: a command that is too long is dropped and the newline behind it
\* sent.  The error is reset in either case.
CddbSendCmd ==
  /\ pc = "send" /\ ~Http
  /\ \E req \in {cmd} \cup (IF MayBeTooLong THEN {"newline"} ELSE {}) :
       Transmit(req, FALSE, call)
  /\ Sends
  /\ GoOn("answer", "OK")
  /\ KeepSocket
  /\ UNCHANGED <<appVars, parsed, histVars, rx>>

\* HTTP: cddb_http_send_cmd notices a command that is too long in one of its
\* two buffers; the one behind it makes a request nobody can answer.
CddbHttpSendCmd ==
  /\ pc = "send" /\ Http /\ cmd # "write"
  /\ \/ /\ \E req \in {cmd} \cup (IF MayBeTooLong THEN {"newline"} ELSE {}) :
             Transmit(req, TRUE, call)
        /\ Sends
        /\ GoOn("httpStatus", errnum)
        /\ KeepSocket
        /\ UNCHANGED rx
     \/ /\ MayBeTooLong
        /\ CddbDisconnect
        /\ UNCHANGED sent
        /\ Return("fail", "LINE_SIZE")
  /\ UNCHANGED <<appVars, parsed, histVars>>

\* HTTP: the headers of a submission, and then the lines of the entry, leave before
\* anything is read.
CddbHttpPost ==
  /\ pc = "send" /\ Http /\ cmd = "write"
  /\ TransmitPost(cmd, call)
  /\ Sends
  /\ GoOn("postHeaders", "OK")
  /\ KeepSocket
  /\ UNCHANGED <<appVars, parsed, histVars, rx>>

\* Mutant: cddb_send_cmd does not close the socket of a failed HTTP request.
HttpFailsKeepsSocket(e) ==
  /\ KeepSocket /\ UNCHANGED <<tx, rx>>
  /\ Return("fail", e)
  /\ UNCHANGED clean

\* cddb_http_parse_response.  When it fails, cddb_send_cmd closes the socket
\* and restores the error the closing has reset.
HttpFails(e) ==
  /\ CddbDisconnect
  /\ Return("fail", e)
  /\ UNCHANGED clean

CddbHttpParseResponse ==
  /\ pc = "httpStatus"
  /\ \/ HttpFails("UNEXPECTED_EOF")
     \/ /\ Arrives
        /\ IF Head(rx).kind # "http" THEN HttpFails("INVALID_RESPONSE")
           ELSE IF HttpVerdict(Head(rx).code) # "DONE"
           THEN HttpFails(HttpVerdict(Head(rx).code))
           ELSE /\ rx' = Tail(rx)
                /\ GoOn("httpHeaders", "OK")
                /\ KeepSocket
                /\ UNCHANGED <<clean, tx>>
  /\ UNCHANGED <<appVars, sent, parsed, shook, used>>

\* Mutant: headers are skipped up to an empty line, however long it takes.
SkipHeadersForever(at, next) ==
  /\ pc = at
  /\ Arrives /\ rx' = Tail(rx)
  /\ GoOn(IF Head(rx).kind = "blank" THEN next ELSE at, "OK")
  /\ UNCHANGED clean
  /\ KeepSocket
  /\ UNCHANGED <<appVars, sent, parsed, shook, used, tx>>

\* cddb_http_parse_headers: lines are skipped up to an empty one, or until no
\* line comes.
SkipHeaders(at, next) ==
  /\ pc = at
  /\ \/ /\ rx' \in Unread /\ clean' = FALSE /\ GoOn(next, "OK")
     \/ /\ Arrives /\ rx' = Tail(rx)
        /\ GoOn(IF Head(rx).kind = "blank" THEN next ELSE at, "OK")
        /\ UNCHANGED clean
  /\ KeepSocket
  /\ UNCHANGED <<appVars, sent, parsed, shook, used, tx>>

CddbHttpParseHeaders == SkipHeaders("httpHeaders", "answer")

CddbPostParseHeaders == SkipHeaders("postHeaders", "entry")

----------------------------------------------------------------------------
(* The answers.                                                            *)

\* The server says it has closed the connection, or wants a handshake.
DropConnection ==
  /\ CddbDisconnect
  /\ Return("fail", "NOT_CONNECTED")

\* Give up with error e: the socket stays open, in HTTP too.
GiveUp(e, rest) ==
  /\ KeepSocket
  /\ UNCHANGED tx
  /\ rx' = rest
  /\ Return("fail", e)

\* The call has what it wanted.
Succeed(r, e, rest) ==
  /\ HttpClose(rest)
  /\ Return(r, e)

\* The switch of cddb_read, cddb_sites and cddb_handle_response_list.  The data
\* of an exact match may turn out to be unusable.
CddbAnswer ==
  /\ pc = "answer" /\ cmd # "write"
  /\ \/ FailNoCode
     \/ /\ HasCode
        /\ Reads(Head(rx))
        /\ LET v    == AnswerVerdict(cmd, Head(rx).code)
               rest == Tail(rx)
           IN \/ v = "BODY" /\ GoOn("body", "OK")
                 /\ KeepSocket /\ UNCHANGED tx /\ rx' = rest
              \/ v = "MATCH" /\ Succeed("ok", "OK", rest)
              \/ v = "MATCH" /\ \E e \in {"INVALID_RESPONSE", "ICONV_FAIL"} : GiveUp(e, rest)
              \/ v = "NOMATCH" /\ Succeed("none", "OK", rest)
              \/ v = "NOT_CONNECTED" /\ DropConnection
              \/ v = "NO_SITES" /\ GiveUp("OK", rest)
              \/ v \in Errors \ {"NOT_CONNECTED"} /\ GiveUp(v, rest)
        /\ UNCHANGED <<appVars, sent, parsed, clean, shook>>

\* cddb_write, CDDBP: the entry leaves when the server asks for it.
CddbWriteGoAhead ==
  /\ pc = "answer" /\ cmd = "write"
  /\ \/ FailNoCode
     \/ /\ HasCode
        /\ Reads(Head(rx))
        /\ LET v == GoAheadVerdict(Head(rx).code)
           IN \/ /\ v = "GO"
                 /\ Transmit("data", FALSE, call)
                 /\ rx' = Tail(rx)
                 /\ GoOn("entry", "OK")
                 /\ KeepSocket
              \/ v = "NOT_CONNECTED" /\ DropConnection
              \/ v \in Errors \ {"NOT_CONNECTED"} /\ GiveUp(v, Tail(rx))
        /\ UNCHANGED <<appVars, sent, parsed, clean, shook>>

\* cddb_write: what the server makes of the entry.
CddbWriteEntry ==
  /\ pc = "entry"
  /\ \/ FailNoCode
     \/ /\ HasCode
        /\ Reads(Head(rx))
        /\ LET v == EntryVerdict(Head(rx).code)
           IN \/ v = "DONE" /\ Succeed("ok", "OK", Tail(rx))
              \/ v = "NOT_CONNECTED" /\ DropConnection
              \/ v \in Errors \ {"NOT_CONNECTED"} /\ GiveUp(v, Tail(rx))
        /\ UNCHANGED <<appVars, sent, parsed, clean, shook>>

\* cddb_parse_record is done: FALSE if the text cannot be converted.  In HTTP
\* cddb_read closes the socket whatever the result, which resets the error.
RecordEnds(e, rest) ==
  /\ HttpClose(rest)
  /\ IF e = "OK" THEN Return("ok", "OK")
     ELSE Return("fail", IF Http THEN "OK" ELSE e)

\* cddb_parse_record, as a reader of lines.  A dot ends the record only once the
\* parser has come past the disc title; no line at all ends it too, and counts
\* as success.  A track title for a track that does not exist ends it early.
CddbReadBody ==
  /\ pc = "body" /\ cmd = "read"
  /\ \/ /\ \E rest \in Unread : \E e \in {"OK", "ICONV_FAIL"} : RecordEnds(e, rest)
        /\ clean' = FALSE
        /\ UNCHANGED <<parsed, used>>
     \/ /\ Arrives /\ Reads(Head(rx))
        /\ IF Head(rx).kind = "dot" /\ parsed
           THEN /\ \E e \in {"OK", "ICONV_FAIL"} : RecordEnds(e, Tail(rx))
                /\ UNCHANGED <<parsed, clean>>
           ELSE \/ /\ parsed' = (parsed \/ Head(rx).kind = "data")
                   /\ rx' = Tail(rx)
                   /\ GoOn("body", "OK")
                   /\ KeepSocket
                   /\ UNCHANGED <<clean, tx>>
                \/ /\ parsed /\ Head(rx).kind = "data"
                   /\ RecordEnds("TRACK_NOT_FOUND", Tail(rx))
                   /\ clean' = FALSE
                   /\ UNCHANGED parsed
  /\ UNCHANGED <<appVars, sent, shook>>

\* cddb_handle_response_list: the matches up to the dot.  A line that is no match
\* ends the call and leaves the rest unread; an empty list is an error.
ListEnds(rest) ==
  IF parsed THEN Succeed("ok", "OK", rest) ELSE GiveUp("INVALID_RESPONSE", rest)

CddbListBody ==
  /\ pc = "body" /\ cmd \in {"query", "album"}
  /\ \/ /\ \E rest \in Unread : ListEnds(rest)
        /\ clean' = FALSE
        /\ UNCHANGED <<parsed, used>>
     \/ /\ Arrives /\ Reads(Head(rx))
        /\ \/ /\ Head(rx).kind = "dot" /\ ListEnds(Tail(rx))
              /\ UNCHANGED <<parsed, clean>>
           \/ /\ Head(rx).kind = "data"
              /\ parsed' = TRUE
              /\ rx' = Tail(rx)
              /\ GoOn("body", "OK")
              /\ KeepSocket
              /\ UNCHANGED <<clean, tx>>
           \/ /\ Head(rx).kind # "dot"
              /\ \E e \in {"INVALID_RESPONSE", "ICONV_FAIL"} : GiveUp(e, Tail(rx))
              /\ clean' = FALSE
              /\ UNCHANGED parsed
  /\ UNCHANGED <<appVars, sent, shook>>

\* cddb_sites: a line that is no site is skipped; one that cannot be converted
\* ends the call and leaves the rest unread.
CddbSitesBody ==
  /\ pc = "body" /\ cmd = "sites"
  /\ \/ /\ \E rest \in Unread : Succeed("ok", "OK", rest)
        /\ clean' = FALSE
        /\ UNCHANGED <<parsed, used>>
     \/ /\ Arrives /\ Reads(Head(rx))
        /\ \/ /\ Head(rx).kind = "dot" /\ Succeed("ok", "OK", Tail(rx))
              /\ UNCHANGED clean
           \/ /\ Head(rx).kind # "dot"
              /\ rx' = Tail(rx)
              /\ GoOn("body", "OK")
              /\ KeepSocket
              /\ UNCHANGED <<clean, tx>>
           \/ /\ Head(rx).kind = "data"
              /\ GiveUp("ICONV_FAIL", Tail(rx))
              /\ clean' = FALSE
        /\ UNCHANGED parsed
  /\ UNCHANGED <<appVars, sent, shook>>

----------------------------------------------------------------------------
(* The specification.                                                      *)

\* The steps a call takes once it has been made.
Proceed ==
  \/ CddbConnectReuse \/ CddbConnectNoSocket
  \/ CddbConnectFails \/ CddbConnectSucceeds
  \/ CddbHandshakeBanner \/ CddbHandshakeHello \/ CddbHandshakeProto
  \/ CddbSendCmd \/ CddbHttpSendCmd \/ CddbHttpPost
  \/ CddbHttpParseResponse \/ CddbHttpParseHeaders \/ CddbPostParseHeaders
  \/ CddbAnswer \/ CddbWriteGoAhead \/ CddbWriteEntry
  \/ CddbReadBody \/ CddbListBody \/ CddbSitesBody

\* What the application does between calls.
Application ==
  \/ \E c \in Calls : CddbCall(c)
  \/ SetCacheMode
  \/ CddbSetSite

Next ==
  \/ Application
  \/ Proceed
  \/ Server /\ UNCHANGED clientVars

Spec == Init /\ [][Next]_vars

\* Every read, write and connect has a time-out, so a call that has been made
\* goes on.  Nothing is assumed of the server, the network or the application.
FairSpec == Spec /\ WF_vars(Proceed)

----------------------------------------------------------------------------
(* What a connection promises.                                             *)

Idle == pc = "idle"

\* The request whose answer the call is reading, as far as that answer may have
\* a body; "data" stands for every request whose answer is one line.
Asked == IF pc \in {"httpStatus", "httpHeaders", "answer", "body"} THEN cmd ELSE "data"

\* The call has not sent its command yet.
Quiet == pc \in {"idle", "connect", "send"}

\* The headers and the entry of a POST go to a CDDBP server: the site was changed and
\* the socket of the old one is open.
StrayPost == pc = "postHeaders" /\ peer \notin HttpSites

\* Requests alternate with answers: a request in flight is that of the current
\* call and the only one, but for the entry behind the headers of a POST, and
\* nothing is in flight the other way.
OneRequest ==
  /\ \A i \in DOMAIN tx :
       /\ i = 1 \/ pc = "postHeaders"
       /\ tx[i].for = call
       /\ tx[i].req \in IF Asked = "data" THEN {"hello", "proto", "data", "write"}
                        ELSE {cmd, "newline"}
  /\ (rx # <<>> /\ ~StrayPost) \/ Quiet \/ pc = "banner" => tx = <<>>

\* What is in flight to the client is the rest of one answer, or the server's
\* notice that it hangs up.  A stray POST gets one answer to its headers and one to
\* its entry.
OneAnswer ==
  \A i \in DOMAIN rx :
    /\ rx[i].for \in {0, call}
    /\ StrayPost => rx[i].kind = "status"
    /\ rx[i].last /\ ~StrayPost => i = Len(rx)
    /\ rx[i].kind = "dot" => rx[i].last
    /\ rx[i].kind = "status" => (rx[i].last <=> ~HasBody(Asked, rx[i].code))
    /\ Quiet => rx[i].for = 0
    /\ rx[i].for = 0 /\ pc # "banner" =>
         rx[i].kind = "status" /\ rx[i].code = 530 /\ link = "eof"

\* No greeting is still to come.
Greeted ==
  (pc = "banner" /\ rx = <<>>) \/ peer \in HttpSites \/ link = "eof" \/ srv # "new"

InCall == pc # "idle" => call > 0 /\ cmd \in Commands

NothingOnClosed ==
  sock = "closed" =>
    pc \in {"idle", "connect"} /\ link = "down" /\ tx = <<>> /\ rx = <<>>

Synced == link \in {"up", "eof"} /\ OneRequest /\ OneAnswer /\ Greeted

\* The inductive form of InSync, below.
SyncInv ==
  /\ InCall
  /\ NothingOnClosed
  /\ sock = "open" /\ clean => Synced

\* As long as no answer has been abandoned on the socket, requests and answers
\* alternate: whatever is in flight belongs to the current call, between
\* calls nothing is in flight but the server's notice that it hangs up, and a
\* call that succeeded has used its own answer only (the commands of
\* cddb_cmd.c read a complete answer before they return).
InSync ==
  (sock = "open" /\ clean) =>
    /\ \A i \in DOMAIN rx : rx[i].for \in {0, call}
    /\ \A i \in DOMAIN tx : tx[i].for = call
    /\ Idle => /\ tx = <<>>
               /\ rx = <<>> \/ (link = "eof" /\ Len(rx) = 1 /\ rx[1].for = 0)

OwnAnswer ==
  (clean /\ Idle /\ cmd \in Commands) =>
    /\ used \subseteq {0, call}
    /\ ret # "fail" => used \subseteq {call}

\* On a CDDBP connection whose handshake did not fail, no command leaves before
\* the handshake is complete (cddb_connect, cddb_handshake).
ShakenFirst ==
  sock = "open" /\ clean /\ peer \notin HttpSites
    /\ pc \in {"send", "answer", "entry", "body"}
    => shook

\* As long as the site is one that speaks CDDBP, the lines of an entry are sent only
\* to a server that has asked for them, and never end up as commands (the two
\* phases of cddb_write).  After a change to a site that speaks HTTP they may, see
\* EntryAsked.
EntryWanted ==
  clean /\ peer \notin HttpSites /\ ~Http =>
    \A i \in DOMAIN tx : tx[i].req = "data" => i = 1 /\ srv = "input"

\* A call that returns success leaves no error behind, and an error that means
\* "retry with a new connection" is never reported with the socket still open.
ErrorsTell ==
  /\ Idle /\ ret = "ok" => errnum = "OK"
  /\ Idle /\ errnum = "NOT_CONNECTED" => sock = "closed"
  /\ Idle /\ Http /\ cmd \in Commands /\ errnum = "UNEXPECTED_EOF" => sock = "closed"

\* An HTTP connection serves one command: a command that succeeds closes it (the
\* calls of cddb_disconnect at the end of each command), and as long as no answer was
\* abandoned a command written to a connection that an earlier one has used, as
\* happens after an answer of 401, 402 or 403, gets nothing from it.
OneHttpCommand ==
  /\ Idle /\ ret # "fail" /\ used # {} /\ Http /\ cmd \in Commands => sock = "closed"
  /\ clean /\ peer \in HttpSites /\ sent > 1 => used = {}

\* While the application has asked for cached data only, reading, querying and
\* writing open no connection, send nothing and read nothing; for the list of
\* mirrors see NeverContacts.
CacheOnlyStaysLocal ==
  [][ useCache = "only" /\ cmd' # "sites"
      => sock' = sock /\ Len(tx') <= Len(tx) /\ used' \subseteq used ]_vars

\* Every call comes back to the application.
CallReturns == (pc # "idle") ~> (pc = "idle")

----------------------------------------------------------------------------
(* What comments and documentation say of a connection, and the code does  *)
(* not do.                                                                 *)

\* "Never contact a server to retrieve any data" (cddb_conn.h, of cddb_cache_only): no
\* call opens a connection, sends or reads while only cached data is wanted.
NeverContacts ==
  [][ useCache = "only" => sock' = sock /\ Len(tx') <= Len(tx) /\ used' \subseteq used ]_vars

\* "320 OK, input CDDB data" comes before the data (freedb.howto.txt, of the command
\* "cddb write"): no entry goes to a CDDBP server that has not asked for it.
EntryAsked ==
  clean /\ peer \notin HttpSites =>
    \A i \in DOMAIN tx : tx[i].req = "data" => srv = "input"

\* "close connection very time when using HTTP" (ChangeLog, of cddb_cmd.c): no HTTP
\* connection is used for a second command, not even when every answer was read.
HttpClosedEveryTime == clean /\ sock = "open" /\ peer \in HttpSites => sent <= 1

\* "This handshake must occur before other cddb commands" (freedb.howto.txt).
HandshakeFirst ==
  \A i \in DOMAIN tx :
    peer \notin HttpSites /\ tx[i].req \in Commands => srv \in {"shaken", "input"}

=============================================================================
