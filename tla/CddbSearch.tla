----------------------------- MODULE CddbSearch -----------------------------
(***************************************************************************)
(* Text searches (cddb_search).  All connections of a program search over  *)
(* one connection of the library, which takes over the proxy of the one    *)
(* that searches, if that has one.  The answer is an HTML page; a line of  *)
(* it may hold several matches.                                            *)
(***************************************************************************)
EXTENDS CddbSettings, SequencesExt

CONSTANTS
  Matches,      \* what a page may name
  Pages,        \* the pages the server may answer with: for each line its matches
  MaxSearches   \* bound on the number of searches

ASSUME MaxSearchesAssumption == MaxSearches \in Nat
ASSUME MatchesAssumption ==
  Matches \subseteq [ category : STRING, discid : DiscIds, kind : {"both", "one", "again"},
                      artist : Texts, title : Texts ]
ASSUME PagesAssumption == Pages \subseteq Seq(Seq(Matches))

VARIABLES
  query_data,   \* the matches each connection has
  disc,         \* the disc structure of the application
  page, read,   \* the lines of the page, and how many have been read
  stage,        \* "connect", "send" or "page": how far the search is
  searches,     \* counter for the bound
  ret,          \* history: what the last search returned
  was,          \* history: the proxy of the last search that had one, when it began
  late          \* history: a search goes over a socket that an earlier one has left

\* What a search takes over from its connection.
Proxy == [peer : Addresses, auth : Auths]

ASSUME NullIsNoProxy == Null \notin Proxy

search  == <<query_data, disc, page, read, stage, searches, ret, was, late>>
srchVars == <<settings, searching, search>>

\* Where cddb_connect connects to, and what the request names as credentials.
Peer(x) == IF x.proxied THEN <<x.proxy, x.proxy_port>> ELSE <<x.server, x.port>>

SearchInit ==
  /\ SettingsInit
  /\ searching = Null
  /\ query_data = [c \in Conns |-> <<>>] /\ disc = NewDisc
  /\ page = <<>> /\ read = 0 /\ stage = "connect" /\ searches = 0
  /\ ret = "none" /\ was = Null /\ late = FALSE

\* Mutant: the credentials stay those of the search before.
ClonedProxyNoAuth(dst, src) ==
  IF src.proxied
  THEN [dst EXCEPT !.proxy = src.proxy, !.proxy_port = src.proxy_port,
                   !.proxied = TRUE, !.http = TRUE]
  ELSE dst

\* cddb_clone_proxy: a connection without proxy leaves the one there is.
ClonedProxy(dst, src) ==
  IF src.proxied
  THEN [dst EXCEPT !.proxy = src.proxy, !.proxy_port = src.proxy_port, !.auth = src.auth,
                   !.proxied = TRUE, !.http = TRUE]
  ELSE dst

\* The library must be initialized: nothing checks it.
SearchStarts(c) ==
  /\ searching = Null /\ conn[c] # Null /\ initialized /\ searches < MaxSearches
  /\ conn' = [conn EXCEPT ![Srch] = ClonedProxy(@, conn[c])]
  /\ query_data' = [query_data EXCEPT ![c] = <<>>]
  /\ searching' = c /\ stage' = "connect" /\ searches' = searches + 1 /\ ret' = "none"
  /\ was' = IF conn[c].proxied THEN [peer |-> Peer(conn[c]), auth |-> conn[c].auth] ELSE was
  /\ UNCHANGED <<initialized, open, site, sets, dangling, disc, page, read, late>>

At(s) == searching # Null /\ stage = s

Socket(peer) == conn' = [conn EXCEPT ![Srch].socket = peer]

SearchFails == searching' = Null /\ stage' = "connect" /\ ret' = "failed" /\ late' = FALSE

InSearch == UNCHANGED <<initialized, open, site, sets, dangling, searches, was>>

\* cddb_connect with a socket, whomever it is connected to, or with a new one.
SearchConnects ==
  /\ At("connect")
  /\ IF conn[Srch].socket # Null THEN late' = TRUE /\ UNCHANGED conn
                                 ELSE Socket(Peer(conn[Srch])) /\ UNCHANGED late
  /\ stage' = "send"
  /\ InSearch /\ UNCHANGED <<searching, query_data, disc, page, read, ret>>

\* No such host, or no socket; or the server does not answer, which leaves the socket.
SearchConnectFails ==
  /\ At("connect") /\ conn[Srch].socket = Null
  /\ UNCHANGED conn \/ Socket(Peer(conn[Srch]))
  /\ SearchFails
  /\ InSearch /\ UNCHANGED <<query_data, disc, page, read>>

\* cddb_send_cmd with the answer to the request, up to the page.
SearchSends ==
  /\ At("send")
  /\ page' \in Pages /\ read' = 0 /\ stage' = "page"
  /\ InSearch /\ UNCHANGED <<conn, searching, query_data, disc, ret, late>>

\* It disconnects.
SearchSendFails ==
  /\ At("send")
  /\ Socket(Null)
  /\ SearchFails
  /\ InSearch /\ UNCHANGED <<query_data, disc, page, read>>

----------------------------------------------------------------------------
(* Reading the page.                                                       *)

\* A match names artist and title, one name for both, or none: it is the one before
\* again, in another record of the database (cddb_disc_set_category_str,
\* cddb_disc_set_artist and _title).
Filled(d, match) ==
  LET is == [d EXCEPT !.category = CategoryOf(match.category), !.genre = <<match.category>>,
                      !.discid = match.discid]
  IN IF match.kind = "again" THEN is
     ELSE [is EXCEPT !.artist = match.artist,
                     !.title = IF match.kind = "both" THEN match.title ELSE match.artist]

\* Mutant: the last match of a line comes before those in front of it.
ParseSearchDataBackwards(had, line) ==
  LET Parsed[n \in 0..Len(line)] ==
        IF n = 0 THEN had
        ELSE LET before == Parsed[n - 1]
                 base   == IF before = <<>> THEN NewDisc ELSE Last(before)
             IN had \o <<Filled(base, line[n])>> \o SubSeq(before, Len(had) + 1, Len(before))
  IN Parsed[Len(line)]

\* cddb_parse_search_data: first what stands in front of the last match of the line,
\* then this one, in a clone of the match before it.
ParseSearchData(had, line) ==
  LET Parsed[n \in 0..Len(line)] ==
        IF n = 0 THEN had
        ELSE LET before == Parsed[n - 1]
                 base   == IF before = <<>> THEN NewDisc ELSE Last(before)
             IN Append(before, Filled(base, line[n]))
  IN Parsed[Len(line)]

SearchReads ==
  /\ At("page") /\ read < Len(page)
  /\ read' = read + 1
  /\ query_data' = [query_data EXCEPT ![searching] = ParseSearchData(@, page[read'])]
  /\ InSearch /\ UNCHANGED <<conn, searching, stage, disc, page, ret, late>>

\* A page that is cut short ends like any other.  The first match goes into the disc of
\* the application.
SearchEnds ==
  /\ At("page")
  /\ LET found == query_data[searching]
     IN disc' = IF found = <<>> THEN disc ELSE Merged(disc, Head(found), NewDisc)
  /\ Socket(Null)
  /\ searching' = Null /\ stage' = "connect" /\ ret' = "found" /\ late' = FALSE
  /\ InSearch /\ UNCHANGED <<query_data, page, read>>

SearchNext ==
  \/ SettingsNext /\ was' = (IF initialized' THEN was ELSE Null)
     /\ UNCHANGED <<searching, query_data, disc, page, read, stage, searches, ret, late>>
  \/ \E c \in Conns : SearchStarts(c)
  \/ SearchConnects \/ SearchConnectFails
  \/ SearchSends \/ SearchSendFails
  \/ SearchReads \/ SearchEnds

SearchSpec == SearchInit /\ [][SearchNext]_srchVars

----------------------------------------------------------------------------
(* Properties.                                                             *)

SearchTypeOK ==
  /\ SettingsTypeOK
  /\ query_data \in [Conns -> Seq(DiscData)] /\ disc \in DiscData
  /\ searching \in Conns \cup {Null} /\ stage \in {"connect", "send", "page"}
  /\ page \in Pages \cup {<<>>} /\ read \in 0..Len(page)
  /\ searches \in 0..MaxSearches
  /\ ret \in {"none", "found", "failed"}
  /\ was \in Proxy \cup {Null}
  /\ late \in BOOLEAN

\* A search goes through the proxy of its connection, with its credentials; without
\* one it goes through the proxy of the last connection that searched with one, as
\* that was then, and to the search page of freedb only if there was none (the
\* settings of cddb_search_conn, cddb_clone_proxy).  Only a search that finds the
\* socket of one that could not connect goes where that one went.  No other search
\* finds a socket.
SearchVia ==
  LET s == conn[Srch]
  IN /\ searching # Null /\ stage # "connect" =>
          /\ s.http /\ s.path = "search"
          /\ s.auth = IF was = Null THEN Null ELSE was.auth
          /\ late \/ s.socket = IF was = Null THEN <<"freedb", 80>> ELSE was.peer
          /\ conn[searching].proxied => was.peer = Peer(conn[searching])
     /\ searching = Null /\ ret = "found" /\ initialized => s.socket = Null

\* The matches of the page that have been read, one after the other.
MatchesRead == FlattenSeq(SubSeq(page, 1, read))

\* A search gives every match of the lines it has read once, in the order of the
\* page, each with its own category and disc id and with the artist and title of the
\* last match up to it that names them (cddb_parse_search_data).
SearchInOrder ==
  searching # Null /\ stage = "page" =>
    LET found == query_data[searching]
        read_ == MatchesRead
        Names(i, j) == j <= i /\ read_[j].kind # "again" /\ \A k \in (j + 1)..i : read_[k].kind = "again"
    IN /\ Len(found) = Len(read_)
       /\ \A i \in DOMAIN found :
            /\ found[i].category = CategoryOf(read_[i].category)
            /\ found[i].genre = <<read_[i].category>> /\ found[i].discid = read_[i].discid
            /\ \A j \in DOMAIN found : Names(i, j) =>
                 /\ found[i].artist = read_[j].artist
                 /\ found[i].title = IF read_[j].kind = "both" THEN read_[j].title
                                                               ELSE read_[j].artist

=============================================================================
