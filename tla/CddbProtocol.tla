---------------------------- MODULE CddbProtocol ----------------------------
(***************************************************************************)
(* The vocabulary shared by the other modules: the error codes of          *)
(* cddb_error.h, the commands an application may issue, and the tables     *)
(* that say what libcddb makes of each response code of the server.        *)
(*                                                                         *)
(* A verdict is what a handler does with a response code: the name of the  *)
(* error it sets when it gives up, or one of the words of Proceeds when    *)
(* it goes on.                                                             *)
(***************************************************************************)
EXTENDS Naturals

\* cddb_error_t, in the order of the enumeration.
Errors ==
  { "OK",
    "OUT_OF_MEMORY", "LINE_SIZE", "NOT_IMPLEMENTED", "UNKNOWN",
    "SERVER_ERROR", "UNKNOWN_HOST_NAME", "CONNECT", "PERMISSION_DENIED",
    "NOT_CONNECTED",
    "UNEXPECTED_EOF", "INVALID_RESPONSE", "DISC_NOT_FOUND",
    "DATA_MISSING", "TRACK_NOT_FOUND", "REJECTED", "EMAIL_INVALID",
    "INVALID_CHARSET", "ICONV_FAIL",
    "PROXY_AUTH", "INVALID" }

\* The public functions of cddb_cmd.h that talk to the configured server.
Commands == { "read", "query", "album", "write", "sites" }

\* Everything that may travel to the server: the commands, the two handshake
\* commands, the entry sent by a write, and the bare newline that is left of a
\* CDDBP command that does not fit the buffer of sock_vfprintf.
Requests == Commands \cup { "hello", "proto", "data", "newline" }

\* What a handler does when a response code does not end the call.
Proceeds == { "BODY", "MATCH", "NOMATCH", "GO", "DONE" }

\* 401 to "sites" makes cddb_sites return FALSE and leaves the error code OK.
Verdicts == Errors \cup Proceeds \cup { "NO_SITES" }

----------------------------------------------------------------------------
(* The response codes, handler by handler.                                 *)

\* The sign-on banner.  There is no default case: an unlisted code is accepted.
BannerVerdict(code) ==
  IF code \in { 432, 433, 434 } THEN "PERMISSION_DENIED" ELSE "DONE"

\* The answer to "cddb hello"; here too an unlisted code is accepted.
HelloVerdict(code) ==
  IF code = 431 THEN "PERMISSION_DENIED" ELSE "DONE"

\* Mutant: the label of the exact match of a query, 200, in place of 210.
ReadVerdictMatchLabel(code) ==
  CASE code = 200          -> "BODY"
    [] code = 401          -> "DISC_NOT_FOUND"
    [] code \in {402, 403} -> "SERVER_ERROR"
    [] code \in {409, 530} -> "NOT_CONNECTED"
    [] OTHER               -> "UNKNOWN"

\* The answer to "cddb read".
ReadVerdict(code) ==
  CASE code = 210          -> "BODY"
    [] code = 401          -> "DISC_NOT_FOUND"
    [] code \in {402, 403} -> "SERVER_ERROR"
    [] code \in {409, 530} -> "NOT_CONNECTED"
    [] OTHER               -> "UNKNOWN"

\* Mutant: the case label of inexact matches, 211, is lost.
ListVerdictNoInexact(code) ==
  CASE code = 200          -> "MATCH"
    [] code = 210          -> "BODY"
    [] code = 202          -> "NOMATCH"
    [] code = 403          -> "SERVER_ERROR"
    [] code \in {409, 530} -> "NOT_CONNECTED"
    [] OTHER               -> "UNKNOWN"

\* The answer to "cddb query" and "cddb album".
ListVerdict(code) ==
  CASE code = 200          -> "MATCH"
    [] code \in {210, 211} -> "BODY"
    [] code = 202          -> "NOMATCH"
    [] code = 403          -> "SERVER_ERROR"
    [] code \in {409, 530} -> "NOT_CONNECTED"
    [] OTHER               -> "UNKNOWN"

\* Mutant: the break before the labels of a refusal is lost.
GoAheadVerdictNoBreak(code) ==
  CASE code \in {320, 401, 402, 501} -> "GO"
    [] code \in {409, 530}           -> "NOT_CONNECTED"
    [] OTHER                         -> "UNKNOWN"

\* The answer to "cddb write", before the entry is sent (CDDBP only).
GoAheadVerdict(code) ==
  CASE code = 320               -> "GO"
    [] code \in {401, 402, 501} -> "PERMISSION_DENIED"
    [] code \in {409, 530}      -> "NOT_CONNECTED"
    [] OTHER                    -> "UNKNOWN"

\* The answer to the entry itself.  409 is not listed here.
EntryVerdict(code) ==
  CASE code = 200               -> "DONE"
    [] code \in {401, 500, 501} -> "REJECTED"
    [] code = 530               -> "NOT_CONNECTED"
    [] OTHER                    -> "UNKNOWN"

\* The answer to "sites".  409 and 530 are not listed here.
SitesVerdict(code) ==
  CASE code = 210 -> "BODY"
    [] code = 401 -> "NO_SITES"
    [] OTHER      -> "UNKNOWN"

\* The first answer to a command, whichever it is.
AnswerVerdict(cmd, code) ==
  CASE cmd = "read"              -> ReadVerdict(code)
    [] cmd \in {"query","album"} -> ListVerdict(code)
    [] cmd = "write"             -> GoAheadVerdict(code)
    [] cmd = "sites"             -> SitesVerdict(code)

\* The status line of an HTTP answer.
HttpVerdict(code) ==
  CASE code = 200 -> "DONE"
    [] code = 407 -> "PROXY_AUTH"
    [] OTHER      -> "SERVER_ERROR"

----------------------------------------------------------------------------
(* The server, which is not part of the repository: after these answers it *)
(* sends lines of data up to a line that holds a single dot.               *)

HasBody(req, code) ==
  \/ req \in {"read", "sites"} /\ code = 210
  \/ req \in {"query", "album"} /\ code \in {210, 211}

=============================================================================
