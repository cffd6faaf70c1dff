----------------------------- MODULE MCCddbConn -----------------------------
(***************************************************************************)
(* CddbConn on small instances: what the servers may answer.               *)
(***************************************************************************)
EXTENDS CddbConn

\* One code for each way a handler can go, and for each handler one code it
\* does not list (999 stands for those).
MCReplyCodes ==
  [ r \in Requests \cup {"banner", "http"} |->
    CASE r = "banner"             -> {200, 432, 999}
      [] r = "hello"              -> {200, 431, 999}
      [] r = "proto"              -> {201}
      [] r = "read"               -> {210, 401, 530, 999}
      [] r \in {"query", "album"} -> {200, 202, 211, 403, 409}
      [] r = "write"              -> {320, 402, 530}
      [] r = "sites"              -> {210, 401, 530}
      [] r = "data"               -> {200, 401, 530, 999}
      [] r = "newline"            -> {500}
      [] r = "http"               -> {200, 407, 404} ]

=============================================================================
