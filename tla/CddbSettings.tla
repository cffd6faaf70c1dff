---------------------------- MODULE CddbSettings ----------------------------
(***************************************************************************)
(* Connection structures (cddb_conn.c) with what the application sets in   *)
(* them: server, proxy and its credentials, character set, and the mirror  *)
(* site (cddb_site.c) that sets a server in one go.  The library has a     *)
(* connection of its own, Srch (cddb.c).  What a connection does with its  *)
(* server is the subject of CddbConn.                                      *)
(***************************************************************************)
EXTENDS CddbDiscData

CONSTANTS
  Conns,      \* the connection structures of the application
  Srch,       \* cddb_search_conn
  Profiles,   \* how the application has set its connections up to begin with
  Hosts,      \* the servers and proxies it may set
  Paths,      \* the paths it may set
  Users,      \* the user names and passwords it may set
  SiteLines,  \* the lines of an answer to "sites"
  Handles,    \* the conversion descriptors there can be
  MaxSets     \* bound on the number of calls that set something

ASSUME SrchAssumption == Srch \notin Conns /\ Null \notin Conns \cup {Srch} \cup Hosts \cup Users \cup Handles
ASSUME MaxSetsAssumption == MaxSets \in Nat

VARIABLES
  conn,         \* the connection structures, Null for one that does not exist
  initialized,  \* that of cddb.c
  open,         \* the conversion descriptors that are open
  site,         \* the site structure of the application
  searching,    \* the connection a search is on its way for, or Null
  sets,         \* counter for the bound
  dangling      \* history: cddb_set_charset has kept a descriptor that it closed

settings == <<conn, initialized, open, site, sets, dangling>>

\* cddb_new; the address of the socket is in it, too.
NewConn ==
  [ server |-> "freedb", port |-> 888, path |-> "query",
    http |-> FALSE, proxied |-> FALSE, proxy |-> Null, proxy_port |-> 8080,
    username |-> Null, password |-> Null, auth |-> Null,
    to |-> Null, from |-> Null, socket |-> Null ]

Addresses == (Hosts \cup {"freedb", Null}) \X Nat
Auths     == ((Users \cup {Null}) \X (Users \cup {Null})) \cup {Null}

ConnRecord ==
  [ server : Hosts \cup {"freedb"}, port : Nat, path : Paths \cup {"query", "search"},
    http : BOOLEAN, proxied : BOOLEAN, proxy : Hosts \cup {Null}, proxy_port : Nat,
    username : Users \cup {Null}, password : Users \cup {Null}, auth : Auths,
    to : Handles \cup {Null}, from : Handles \cup {Null}, socket : Addresses \cup {Null} ]

\* libcddb_init.
SearchConn == [NewConn EXCEPT !.http = TRUE, !.port = 80, !.path = "search"]

NewSite == [address |-> Null, port |-> 0, protocol |-> "unknown", query_path |-> Null]

SiteRecord ==
  [ address : Hosts \cup {Null}, port : Nat, protocol : {"cddbp", "http", "unknown"},
    query_path : Paths \cup {Null} ]

ASSUME NullIsNoRecord == Null \notin ConnRecord

\* Only cddb_set_charset opens descriptors, and only cddb_connect a socket.
ASSUME ProfilesAssumption ==
  \A p \in Profiles : p \in ConnRecord /\ p.to = Null /\ p.from = Null /\ p.socket = Null

ASSUME SiteLinesAssumption ==
  SiteLines \subseteq [address : Hosts, port : Nat, protocol : STRING, query_path : Paths]

SettingsInit ==
  /\ conn \in {[c \in Conns \cup {Srch} |-> IF c = Srch THEN SearchConn ELSE p[c]] :
                 p \in [Conns -> Profiles]}
  /\ initialized = TRUE
  /\ open = {} /\ site = NewSite /\ sets = 0 /\ dangling = FALSE

\* A thread is in one call at a time.
Counted == searching = Null /\ sets < MaxSets /\ sets' = sets + 1

----------------------------------------------------------------------------
(* Making and unmaking connections.                                        *)

Initialized == [conn EXCEPT ![Srch] = IF initialized THEN @ ELSE SearchConn]

LibcddbInit ==
  /\ Counted
  /\ conn' = Initialized /\ initialized' = TRUE
  /\ UNCHANGED <<open, site, dangling>>

CddbNew(c) ==
  /\ Counted /\ conn[c] = Null
  /\ conn' = [Initialized EXCEPT ![c] = NewConn] /\ initialized' = TRUE
  /\ UNCHANGED <<open, site, dangling>>

Held(x) == {x.to, x.from} \ {Null}

CddbDestroy(c) ==
  /\ Counted /\ conn[c] # Null
  /\ open' = open \ Held(conn[c])
  /\ conn' = [conn EXCEPT ![c] = Null]
  /\ UNCHANGED <<initialized, site, dangling>>

\* Mutant: the library still counts as initialized.
LibcddbShutdownKeeps ==
  /\ Counted /\ initialized
  /\ open' = open \ Held(conn[Srch])
  /\ conn' = [conn EXCEPT ![Srch] = Null] /\ UNCHANGED initialized
  /\ UNCHANGED <<site, dangling>>

\* The connections of the application stay.
LibcddbShutdown ==
  /\ Counted /\ initialized
  /\ open' = open \ Held(conn[Srch])
  /\ conn' = [conn EXCEPT ![Srch] = Null] /\ initialized' = FALSE
  /\ UNCHANGED <<site, dangling>>

----------------------------------------------------------------------------
(* Setting what a connection uses.                                         *)

Puts(c, x) ==
  /\ Counted /\ conn[c] # Null
  /\ conn' = [conn EXCEPT ![c] = x]
  /\ UNCHANGED <<initialized, site>>

Sets(c, x) == Puts(c, x) /\ UNCHANGED <<open, dangling>>

CddbSetServerName(c, host) == Sets(c, [conn[c] EXCEPT !.server = host])
CddbSetServerPort(c, port) == Sets(c, [conn[c] EXCEPT !.port = port])
CddbSetHttpPathQuery(c, path) == Sets(c, [conn[c] EXCEPT !.path = path])

CddbHttpEnable(c)  == Sets(c, [conn[c] EXCEPT !.http = TRUE])
CddbHttpDisable(c) == Sets(c, [conn[c] EXCEPT !.http = FALSE])

\* "enabling HTTP proxy implies HTTP, but not vice versa"
CddbHttpProxyEnable(c)  == Sets(c, [conn[c] EXCEPT !.http = TRUE, !.proxied = TRUE])
CddbHttpProxyDisable(c) == Sets(c, [conn[c] EXCEPT !.proxied = FALSE])

CddbSetHttpProxyServerName(c, host) == Sets(c, [conn[c] EXCEPT !.proxy = host])
CddbSetHttpProxyServerPort(c, port) == Sets(c, [conn[c] EXCEPT !.proxy_port = port])

\* cddb_set_http_proxy_auth.
Auth(username, password) == <<username, password>>

CddbSetHttpProxyUsername(c, u) ==
  Sets(c, [conn[c] EXCEPT !.username = u, !.auth = Auth(u, conn[c].password)])
CddbSetHttpProxyPassword(c, u) ==
  Sets(c, [conn[c] EXCEPT !.password = u, !.auth = Auth(conn[c].username, u)])

\* The name and the password are not kept.
CddbSetHttpProxyCredentials(c, u, p) ==
  Sets(c, [conn[c] EXCEPT !.username = Null, !.password = Null, !.auth = Auth(u, p)])

----------------------------------------------------------------------------
(* Character sets.                                                         *)

\* Mutant: the descriptors of the character set before are not closed.
ClosedNot(c) == open

Closed(c) == open \ Held(conn[c])

\* iconv_open may give out what iconv_close has just taken back.
CddbSetCharset(c) ==
  conn[c] # Null /\ \E to, from \in Handles \ Closed(c) :
    /\ to # from
    /\ Puts(c, [conn[c] EXCEPT !.to = to, !.from = from])
    /\ open' = Closed(c) \cup {to, from}
    /\ UNCHANGED dangling

\* There is no conversion to UTF-8: the other descriptor stays in the structure.
CddbSetCharsetUnknown(c) ==
  /\ Puts(c, [conn[c] EXCEPT !.to = Null])
  /\ open' = Closed(c)
  /\ dangling' = (dangling \/ conn[c].from # Null)

\* There is one to UTF-8, but none back.
CddbSetCharsetOneWay(c) ==
  /\ Puts(c, [conn[c] EXCEPT !.to = Null, !.from = Null])
  /\ open' = Closed(c)
  /\ UNCHANGED dangling

----------------------------------------------------------------------------
(* Sites.                                                                  *)

Site(x) ==
  /\ Counted
  /\ site' = x
  /\ UNCHANGED <<conn, initialized, open, dangling>>

\* cddb_site_parse, for a site of the list the application goes through.
CddbSiteParse(line) ==
  Site([line EXCEPT !.protocol = IF @ \in {"cddbp", "http"} THEN @ ELSE "unknown"])

CddbSiteSetAddress(host, port) == Site([site EXCEPT !.address = host, !.port = port])
CddbSiteSetProtocol(protocol)  == Site([site EXCEPT !.protocol = protocol])
CddbSiteSetQueryPath(path)     == Site([site EXCEPT !.query_path = path])

\* All or nothing.  A site without address, or for HTTP without path, may not be used.
CddbSetSite(c) ==
  /\ site.address # Null /\ (site.protocol = "http" => site.query_path # Null)
  /\ LET at == [conn[c] EXCEPT !.server = site.address, !.port = site.port]
     IN \/ site.protocol = "unknown" /\ Sets(c, conn[c])
        \/ site.protocol = "cddbp" /\ Sets(c, [at EXCEPT !.http = FALSE])
        \/ site.protocol = "http" /\ Sets(c, [at EXCEPT !.http = TRUE, !.path = site.query_path])

----------------------------------------------------------------------------

Setting(c) ==
  \/ \E host \in Hosts : CddbSetServerName(c, host) \/ CddbSetHttpProxyServerName(c, host)
  \/ CddbSetServerPort(c, 8880) \/ CddbSetHttpProxyServerPort(c, 3128)
  \/ \E path \in Paths : CddbSetHttpPathQuery(c, path)
  \/ CddbHttpEnable(c) \/ CddbHttpDisable(c)
  \/ CddbHttpProxyEnable(c) \/ CddbHttpProxyDisable(c)
  \/ \E u \in Users \cup {Null} : CddbSetHttpProxyUsername(c, u) \/ CddbSetHttpProxyPassword(c, u)
  \/ \E u, p \in Users : CddbSetHttpProxyCredentials(c, u, p)
  \/ CddbSetCharset(c) \/ CddbSetCharsetUnknown(c) \/ CddbSetCharsetOneWay(c)
  \/ CddbSetSite(c)

SettingsNext ==
  \/ LibcddbInit \/ LibcddbShutdown
  \/ \E c \in Conns : CddbNew(c) \/ CddbDestroy(c) \/ Setting(c)
  \/ \E line \in SiteLines : CddbSiteParse(line)
  \/ \E host \in Hosts : CddbSiteSetAddress(host, 8880)
  \/ \E protocol \in {"cddbp", "http", "unknown"} : CddbSiteSetProtocol(protocol)
  \/ \E path \in Paths \cup {Null} : CddbSiteSetQueryPath(path)

----------------------------------------------------------------------------
(* Properties of the settings.                                             *)

SettingsTypeOK ==
  /\ conn \in [Conns \cup {Srch} -> ConnRecord \cup {Null}]
  /\ initialized \in BOOLEAN /\ (initialized <=> conn[Srch] # Null)
  /\ open \subseteq Handles
  /\ site \in SiteRecord
  /\ sets \in 0..MaxSets
  /\ dangling \in BOOLEAN

Exists == {c \in DOMAIN conn : conn[c] # Null}

\* Every descriptor that iconv_open gave out belongs to one connection, which has not
\* closed it, and none is lost, whatever character sets are set, one after the other,
\* and whatever connections are destroyed: unless cddb_set_charset failed at its first
\* iconv_open and left the other descriptor dangling.
HandlesLive ==
  ~dangling =>
    /\ open = UNION {Held(conn[c]) : c \in Exists}
    /\ \A c \in Exists : conn[c].to = conn[c].from => conn[c].to = Null
    /\ \A c, d \in Exists : c # d => Held(conn[c]) \cap Held(conn[d]) = {}

=============================================================================
