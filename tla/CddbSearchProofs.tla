-------------------------- MODULE CddbSearchProofs --------------------------
(***************************************************************************)
(* Proofs about connections that are set up, changed and destroyed while   *)
(* they search: their state keeps its types, every conversion descriptor   *)
(* has one owner, and a search goes through the proxy it should.           *)
(***************************************************************************)
EXTENDS CddbSearch, CddbInduction

----------------------------------------------------------------------------
(* Connection records.                                                     *)

LEMMA NewConnTyped ==
  /\ NewConn \in ConnRecord
  /\ NewConn.to = Null /\ NewConn.from = Null /\ NewConn.socket = Null
<1>1. Null \in Auths /\ Null \in Addresses \cup {Null}
  BY DEF Auths
<1>2. 888 \in Nat /\ 8080 \in Nat
  OBVIOUS
<1>3. "freedb" \in Hosts \cup {"freedb"} /\ "query" \in Paths \cup {"query", "search"} /\ FALSE \in BOOLEAN
  OBVIOUS
<1>4. NewConn \in ConnRecord
  BY <1>1, <1>2, <1>3, SMTT(30) DEF NewConn, ConnRecord
<1>5. NewConn.to = Null /\ NewConn.from = Null /\ NewConn.socket = Null
  BY DEF NewConn
<1> QED
  BY <1>4, <1>5

LEMMA SearchConnTyped ==
  /\ SearchConn \in ConnRecord
  /\ SearchConn.to = Null /\ SearchConn.from = Null /\ SearchConn.socket = Null
  /\ SearchConn.http = TRUE /\ SearchConn.proxied = FALSE
  /\ SearchConn.path = "search" /\ SearchConn.auth = Null
  /\ SearchConn.server = "freedb" /\ SearchConn.port = 80
<1>1. SearchConn = [[[NewConn EXCEPT !.http = TRUE] EXCEPT !.port = 80] EXCEPT !.path = "search"]
  BY DEF SearchConn, NewConn
<1>2. SearchConn \in ConnRecord
  BY <1>1, NewConnTyped DEF ConnRecord
<1>3. SearchConn.to = Null /\ SearchConn.from = Null /\ SearchConn.socket = Null
  BY DEF SearchConn, NewConn
<1>4. SearchConn.http = TRUE /\ SearchConn.proxied = FALSE
  BY DEF SearchConn, NewConn
<1>5. /\ SearchConn.path = "search" /\ SearchConn.auth = Null
      /\ SearchConn.server = "freedb" /\ SearchConn.port = 80
  BY DEF SearchConn, NewConn
<1> QED
  BY <1>2, <1>3, <1>4, <1>5

\* The records that are x in what is converted with.
Same(x) == {y \in ConnRecord : y.to = x.to /\ y.from = x.from}

\* Setting one field of a record, or two, leaves the descriptors.
LEMMA SetServer ==
  ASSUME NEW x \in ConnRecord
  PROVE  /\ \A host \in Hosts : [x EXCEPT !.server = host] \in Same(x)
         /\ \A port \in Nat : [x EXCEPT !.port = port] \in Same(x)
         /\ \A path \in Paths : [x EXCEPT !.path = path] \in Same(x)
         /\ \A host \in Hosts : [x EXCEPT !.proxy = host] \in Same(x)
         /\ \A port \in Nat : [x EXCEPT !.proxy_port = port] \in Same(x)
  BY DEF ConnRecord, Same

LEMMA SetHttp ==
  ASSUME NEW x \in ConnRecord
  PROVE  /\ [x EXCEPT !.http = TRUE] \in Same(x)
         /\ [x EXCEPT !.http = FALSE] \in Same(x)
         /\ [x EXCEPT !.proxied = FALSE] \in Same(x)
         /\ [x EXCEPT !.http = TRUE, !.proxied = TRUE] \in Same(x)
<1>1. ASSUME NEW b \in BOOLEAN
      PROVE  [x EXCEPT !.http = b] \in Same(x) /\ [x EXCEPT !.proxied = b] \in Same(x)
  BY <1>1 DEF ConnRecord, Same
<1>2. ASSUME NEW b \in BOOLEAN
      PROVE  [x EXCEPT !.http = b, !.proxied = b] \in Same(x)
  BY <1>2, ZenonT(60) DEF ConnRecord, Same
<1> QED
  BY <1>1, <1>2, Zenon

LEMMA SetSocket ==
  ASSUME NEW x \in ConnRecord, NEW peer \in Addresses \cup {Null}
  PROVE  [x EXCEPT !.socket = peer] \in Same(x)
  BY DEF ConnRecord, Same

LEMMA SetAuth ==
  ASSUME NEW x \in ConnRecord, NEW u \in Users \cup {Null}, NEW p \in Users \cup {Null}
  PROVE  /\ [x EXCEPT !.username = u, !.auth = Auth(u, x.password)] \in Same(x)
         /\ [x EXCEPT !.password = p, !.auth = Auth(x.username, p)] \in Same(x)
         /\ [x EXCEPT !.username = Null, !.password = Null, !.auth = Auth(u, p)] \in Same(x)
<1>1. ASSUME NEW v \in Users \cup {Null}, NEW w \in Users \cup {Null}
      PROVE  Auth(v, w) \in Auths
  BY DEF Auth, Auths
<1>2. x.username \in Users \cup {Null} /\ x.password \in Users \cup {Null}
  BY DEF ConnRecord
<1>3. /\ Auth(u, x.password) \in Auths /\ Auth(x.username, p) \in Auths
      /\ Auth(u, p) \in Auths
  BY <1>1, <1>2
<1>4. ASSUME NEW a \in Auths PROVE [x EXCEPT !.username = u, !.auth = a] \in Same(x)
  BY DEF ConnRecord, Same
<1>5. ASSUME NEW a \in Auths PROVE [x EXCEPT !.password = p, !.auth = a] \in Same(x)
  BY ZenonT(60) DEF ConnRecord, Same
<1>6. ASSUME NEW a \in Auths
      PROVE  [x EXCEPT !.username = Null, !.password = Null, !.auth = a] \in Same(x)
  BY DEF ConnRecord, Same
<1> QED
  BY <1>3, <1>4, <1>5, <1>6

LEMMA SetTo ==
  ASSUME NEW x \in ConnRecord, NEW to \in Handles \cup {Null}, NEW from \in Handles \cup {Null}
  PROVE  /\ [x EXCEPT !.to = to, !.from = from] \in ConnRecord
         /\ [x EXCEPT !.to = to] \in ConnRecord
<1>1. [x EXCEPT !.to = to, !.from = from] \in ConnRecord
  BY DEF ConnRecord
<1>2. [x EXCEPT !.to = to] \in ConnRecord
  BY DEF ConnRecord
<1> QED
  BY <1>1, <1>2

\* cddb_set_site changes the server, and with HTTP the path.
LEMMA SetSite ==
  ASSUME SettingsTypeOK, NEW c \in Conns, conn[c] \in ConnRecord, CddbSetSite(c)
  PROVE  \E x \in Same(conn[c]) : Sets(c, x)
<1> DEFINE y == conn[c]
           at == [y EXCEPT !.server = site.address, !.port = site.port]
<1>1. site.address \in Hosts /\ site.port \in Nat
  BY DEF SettingsTypeOK, SiteRecord, CddbSetSite
<1>2. at \in Same(y) /\ at \in ConnRecord
  BY <1>1, ZenonT(60) DEF ConnRecord, Same
<1>3. CASE site.protocol = "unknown" /\ Sets(c, y)
  BY <1>3 DEF Same
<1>4. CASE site.protocol = "cddbp" /\ Sets(c, [at EXCEPT !.http = FALSE])
  <2>1. [at EXCEPT !.http = FALSE] \in Same(at)
    BY <1>2, SetHttp
  <2> QED
    BY <1>2, <1>4, <2>1 DEF Same
<1>5. CASE site.protocol = "http" /\ Sets(c, [at EXCEPT !.http = TRUE, !.path = site.query_path])
  <2>1. site.query_path \in Paths
    BY <1>5 DEF SettingsTypeOK, SiteRecord, CddbSetSite
  <2>2. [[at EXCEPT !.http = TRUE] EXCEPT !.path = site.query_path] \in Same(at)
    <3>1. [at EXCEPT !.http = TRUE] \in Same(at)
      BY <1>2, SetHttp
    <3>2. ASSUME NEW z \in ConnRecord PROVE [z EXCEPT !.path = site.query_path] \in Same(z)
      BY <2>1 DEF ConnRecord, Same
    <3> QED
      BY <3>1, <3>2 DEF Same
  <2>3. [[at EXCEPT !.http = TRUE] EXCEPT !.path = site.query_path] \in Same(y)
    BY <1>2, <2>2 DEF Same
  <2> QED
    BY <1>5, <2>3
<1> QED
  BY <1>3, <1>4, <1>5 DEF CddbSetSite

\* Of all that can be set, only the character set touches the descriptors.
LEMMA SettingCases ==
  ASSUME SettingsTypeOK, NEW c \in Conns, Setting(c)
  PROVE  /\ conn[c] \in ConnRecord
         /\ \/ \E x \in Same(conn[c]) : Sets(c, x)
            \/ CddbSetCharset(c) \/ CddbSetCharsetUnknown(c) \/ CddbSetCharsetOneWay(c)
<1> DEFINE Plain == \E x \in Same(conn[c]) : Sets(c, x)
           Kept == Plain /\ conn[c] \in ConnRecord
<1>0. ASSUME conn[c] # Null PROVE conn[c] \in ConnRecord
  BY <1>0 DEF SettingsTypeOK
<1>1. ASSUME NEW x, Sets(c, x), conn[c] \in ConnRecord => x \in Same(conn[c])
      PROVE  Kept
  BY <1>0, <1>1 DEF Sets, Puts
<1> HIDE DEF Plain, Kept
<1>2. ASSUME NEW host \in Hosts, CddbSetServerName(c, host) \/ CddbSetHttpProxyServerName(c, host)
      PROVE  Kept
  BY <1>1, <1>2, SetServer DEF CddbSetServerName, CddbSetHttpProxyServerName
<1>3. ASSUME NEW port \in Nat, CddbSetServerPort(c, port) \/ CddbSetHttpProxyServerPort(c, port)
      PROVE  Kept
  BY <1>1, <1>3, SetServer DEF CddbSetServerPort, CddbSetHttpProxyServerPort
<1>4. ASSUME NEW path \in Paths, CddbSetHttpPathQuery(c, path) PROVE Kept
  BY <1>1, <1>4, SetServer DEF CddbSetHttpPathQuery
<1>5. ASSUME \/ CddbHttpEnable(c) \/ CddbHttpDisable(c)
             \/ CddbHttpProxyEnable(c) \/ CddbHttpProxyDisable(c)
      PROVE  Kept
  BY <1>1, <1>5, SetHttp
  DEF CddbHttpEnable, CddbHttpDisable, CddbHttpProxyEnable, CddbHttpProxyDisable
<1>6. ASSUME NEW u \in Users \cup {Null},
             CddbSetHttpProxyUsername(c, u) \/ CddbSetHttpProxyPassword(c, u)
      PROVE  Kept
  BY <1>1, <1>6, SetAuth DEF CddbSetHttpProxyUsername, CddbSetHttpProxyPassword
<1>7. ASSUME NEW u \in Users, NEW p \in Users, CddbSetHttpProxyCredentials(c, u, p)
      PROVE  Kept
  BY <1>1, <1>7, SetAuth DEF CddbSetHttpProxyCredentials
<1>8. ASSUME CddbSetCharset(c) \/ CddbSetCharsetUnknown(c) \/ CddbSetCharsetOneWay(c)
      PROVE  conn[c] \in ConnRecord
  BY <1>0, <1>8 DEF CddbSetCharset, CddbSetCharsetUnknown, CddbSetCharsetOneWay, Puts
<1>9. ASSUME CddbSetSite(c) PROVE Kept
  <2>1. conn[c] \in ConnRecord
    BY <1>0, <1>9 DEF CddbSetSite, Sets, Puts
  <2> QED
    BY <1>9, <2>1, SetSite DEF Kept, Plain
<1>10. ASSUME Kept PROVE Plain /\ conn[c] \in ConnRecord
  BY <1>10 DEF Kept
<1>11. 8880 \in Nat /\ 3128 \in Nat
  OBVIOUS
<1>12. CddbSetServerPort(c, 8880) \/ CddbSetHttpProxyServerPort(c, 3128) => Kept
  BY <1>3, <1>11
<1>13. \/ Kept
       \/ CddbSetCharset(c) \/ CddbSetCharsetUnknown(c) \/ CddbSetCharsetOneWay(c)
  BY <1>2, <1>12, <1>4, <1>5, <1>6, <1>7, <1>9 DEF Setting
<1> QED
  BY <1>8, <1>10, <1>13 DEF Plain

----------------------------------------------------------------------------
(* Type correctness.                                                       *)

ConnTypeOK ==
  /\ conn \in [Conns \cup {Srch} -> ConnRecord \cup {Null}]
  /\ initialized \in BOOLEAN /\ (initialized <=> conn[Srch] # Null)

RestTypeOK ==
  /\ open \subseteq Handles
  /\ site \in SiteRecord
  /\ sets \in 0..MaxSets
  /\ dangling \in BOOLEAN

\* A connection record replaces another.
LEMMA ConnPut ==
  ASSUME ConnTypeOK, NEW c \in Conns \cup {Srch}, NEW x \in ConnRecord,
         conn[c] # Null, conn' = [conn EXCEPT ![c] = x], UNCHANGED initialized
  PROVE  ConnTypeOK'
<1>1. x # Null
  BY NullIsNoRecord
<1>2. conn' \in [Conns \cup {Srch} -> ConnRecord \cup {Null}]
  BY DEF ConnTypeOK
<1>3. conn'[Srch] # Null <=> conn[Srch] # Null
  BY <1>1 DEF ConnTypeOK
<1> QED
  BY <1>2, <1>3 DEF ConnTypeOK

\* libcddb_init makes the connection of the library, if it is not there.
LEMMA InitializedTyped ==
  ASSUME ConnTypeOK
  PROVE  /\ Initialized \in [Conns \cup {Srch} -> ConnRecord \cup {Null}]
         /\ Initialized[Srch] = IF initialized THEN conn[Srch] ELSE SearchConn
         /\ Initialized[Srch] # Null
         /\ \A c \in Conns : Initialized[c] = conn[c]
<1>1. SearchConn \in ConnRecord /\ SearchConn # Null
  BY SearchConnTyped, NullIsNoRecord
<1>2. Srch \notin Conns
  BY SrchAssumption
<1> QED
  BY <1>1, <1>2 DEF Initialized, ConnTypeOK

LEMMA CountedTyped ==
  ASSUME sets \in 0..MaxSets, Counted
  PROVE  sets' \in 0..MaxSets
  BY MaxSetsAssumption DEF Counted

LEMMA SettingTyped ==
  ASSUME SettingsTypeOK, NEW c \in Conns, Setting(c)
  PROVE  SettingsTypeOK'
<1>1. ConnTypeOK /\ RestTypeOK
  BY DEF SettingsTypeOK, ConnTypeOK, RestTypeOK
<1>2. conn[c] \in ConnRecord
  BY SettingCases
<1>3. ASSUME NEW x \in ConnRecord, Puts(c, x)
      PROVE  ConnTypeOK' /\ site' \in SiteRecord /\ sets' \in 0..MaxSets
  <2>1. ConnTypeOK'
    BY <1>1, <1>3, ConnPut DEF Puts
  <2>2. sets' \in 0..MaxSets
    BY <1>1, <1>3, CountedTyped DEF Puts, RestTypeOK
  <2> QED
    BY <1>1, <1>3, <2>1, <2>2 DEF Puts, RestTypeOK
<1>4. Closed(c) \subseteq Handles
  BY <1>1 DEF Closed, RestTypeOK
<1>5. CASE \E x \in Same(conn[c]) : Sets(c, x)
  <2>1. PICK x \in ConnRecord : Sets(c, x)
    BY <1>5 DEF Same
  <2> QED
    BY <1>1, <1>3, <2>1 DEF Sets, SettingsTypeOK, ConnTypeOK, RestTypeOK
<1>6. CASE CddbSetCharset(c)
  <2>1. PICK to \in Handles \ Closed(c), from \in Handles \ Closed(c) :
          /\ Puts(c, [conn[c] EXCEPT !.to = to, !.from = from])
          /\ open' = Closed(c) \cup {to, from}
          /\ UNCHANGED dangling
    BY <1>6 DEF CddbSetCharset
  <2>2. [conn[c] EXCEPT !.to = to, !.from = from] \in ConnRecord
    BY <1>2, SetTo
  <2> QED
    BY <1>1, <1>3, <1>4, <2>1, <2>2 DEF SettingsTypeOK, ConnTypeOK, RestTypeOK
<1>7. CASE CddbSetCharsetUnknown(c)
  <2>1. [conn[c] EXCEPT !.to = Null] \in ConnRecord
    BY <1>2, SetTo
  <2>2. dangling' \in BOOLEAN
    BY <1>1, <1>7 DEF CddbSetCharsetUnknown, RestTypeOK
  <2> QED
    BY <1>1, <1>3, <1>4, <1>7, <2>1, <2>2
    DEF CddbSetCharsetUnknown, SettingsTypeOK, ConnTypeOK, RestTypeOK
<1>8. CASE CddbSetCharsetOneWay(c)
  <2>1. [conn[c] EXCEPT !.to = Null, !.from = Null] \in ConnRecord
    BY <1>2, SetTo
  <2> QED
    BY <1>1, <1>3, <1>4, <1>8, <2>1
    DEF CddbSetCharsetOneWay, SettingsTypeOK, ConnTypeOK, RestTypeOK
<1> QED
  BY <1>5, <1>6, <1>7, <1>8, SettingCases

\* A site structure that is changed or filled from a line keeps its type.
LEMMA SiteTyped ==
  ASSUME SettingsTypeOK, NEW x \in SiteRecord, Site(x)
  PROVE  SettingsTypeOK'
  BY CountedTyped DEF Site, SettingsTypeOK

LEMMA SiteRecords ==
  ASSUME NEW x \in SiteRecord
  PROVE  /\ \A host \in Hosts, port \in Nat : [x EXCEPT !.address = host, !.port = port] \in SiteRecord
         /\ \A protocol \in {"cddbp", "http", "unknown"} : [x EXCEPT !.protocol = protocol] \in SiteRecord
         /\ \A path \in Paths \cup {Null} : [x EXCEPT !.query_path = path] \in SiteRecord
  BY DEF SiteRecord

LEMMA LineIsSite ==
  ASSUME NEW line \in SiteLines, NEW protocol \in {"cddbp", "http", "unknown"}
  PROVE  [line EXCEPT !.protocol = protocol] \in SiteRecord
<1>1. line \in [address : Hosts, port : Nat, protocol : STRING, query_path : Paths]
  BY SiteLinesAssumption
<1> QED
  BY <1>1 DEF SiteRecord

LEMMA SettingsNextTyped ==
  ASSUME SettingsTypeOK, SettingsNext
  PROVE  SettingsTypeOK'
<1>1. ConnTypeOK /\ RestTypeOK
  BY DEF SettingsTypeOK, ConnTypeOK, RestTypeOK
<1>2. ASSUME Counted PROVE sets' \in 0..MaxSets
  BY <1>1, <1>2, CountedTyped DEF RestTypeOK
<1>3. CASE LibcddbInit
  <2>1. ConnTypeOK'
    BY <1>1, <1>3, InitializedTyped DEF LibcddbInit, ConnTypeOK
  <2> QED
    BY <1>1, <1>2, <1>3, <2>1 DEF LibcddbInit, SettingsTypeOK, ConnTypeOK, RestTypeOK
<1>4. CASE LibcddbShutdown
  <2>1. ConnTypeOK'
    BY <1>1, <1>4 DEF LibcddbShutdown, ConnTypeOK
  <2> QED
    BY <1>1, <1>2, <1>4, <2>1 DEF LibcddbShutdown, SettingsTypeOK, ConnTypeOK, RestTypeOK
<1>5. ASSUME NEW c \in Conns, CddbNew(c) PROVE SettingsTypeOK'
  <2>1. NewConn \in ConnRecord /\ c # Srch
    BY NewConnTyped, SrchAssumption
  <2>2. ConnTypeOK'
    BY <1>1, <1>5, <2>1, InitializedTyped DEF CddbNew, ConnTypeOK
  <2> QED
    BY <1>1, <1>2, <1>5, <2>2 DEF CddbNew, SettingsTypeOK, ConnTypeOK, RestTypeOK
<1>6. ASSUME NEW c \in Conns, CddbDestroy(c) PROVE SettingsTypeOK'
  <2>1. c # Srch
    BY SrchAssumption
  <2>2. ConnTypeOK'
    BY <1>1, <1>6, <2>1 DEF CddbDestroy, ConnTypeOK
  <2> QED
    BY <1>1, <1>2, <1>6, <2>2 DEF CddbDestroy, SettingsTypeOK, ConnTypeOK, RestTypeOK
<1>7. site \in SiteRecord
  BY DEF SettingsTypeOK
<1>8. ASSUME NEW line \in SiteLines, CddbSiteParse(line) PROVE SettingsTypeOK'
  <2> DEFINE protocol == IF line.protocol \in {"cddbp", "http"} THEN line.protocol ELSE "unknown"
  <2>1. protocol \in {"cddbp", "http", "unknown"}
    OBVIOUS
  <2>2. [line EXCEPT !.protocol = protocol] \in SiteRecord
    BY <2>1, LineIsSite
  <2>3. Site([line EXCEPT !.protocol = protocol])
    BY <1>8 DEF CddbSiteParse
  <2> QED
    BY <2>2, <2>3, SiteTyped
<1>9. ASSUME NEW host \in Hosts, NEW port \in Nat, CddbSiteSetAddress(host, port)
      PROVE  SettingsTypeOK'
  <2>1. [site EXCEPT !.address = host, !.port = port] \in SiteRecord
    BY <1>7, SiteRecords
  <2> QED
    BY <1>9, <2>1, SiteTyped DEF CddbSiteSetAddress
<1>10. ASSUME NEW protocol \in {"cddbp", "http", "unknown"}, CddbSiteSetProtocol(protocol)
       PROVE  SettingsTypeOK'
  <2>1. [site EXCEPT !.protocol = protocol] \in SiteRecord
    BY <1>7, SiteRecords
  <2> QED
    BY <1>10, <2>1, SiteTyped DEF CddbSiteSetProtocol
<1>11. ASSUME NEW path \in Paths \cup {Null}, CddbSiteSetQueryPath(path) PROVE SettingsTypeOK'
  <2>1. [site EXCEPT !.query_path = path] \in SiteRecord
    BY <1>7, SiteRecords
  <2> QED
    BY <1>11, <2>1, SiteTyped DEF CddbSiteSetQueryPath
<1> QED
  <2>1. \A host \in Hosts : CddbSiteSetAddress(host, 8880) => SettingsTypeOK'
    BY <1>9
  <2> QED
    BY <1>3, <1>4, <1>5, <1>6, <1>8, <2>1, <1>10, <1>11, SettingTyped DEF SettingsNext

\* What a search takes over stays in the types, and leaves the descriptors.
LEMMA ClonedTyped ==
  ASSUME NEW x \in ConnRecord, NEW y \in ConnRecord
  PROVE  /\ ClonedProxy(x, y) \in Same(x)
         /\ Peer(y) \in Addresses
         /\ [peer |-> Peer(y), auth |-> y.auth] \in Proxy
<1>1. y.proxy \in Hosts \cup {Null} /\ y.proxy_port \in Nat /\ y.auth \in Auths
  BY DEF ConnRecord
<1>2. Peer(y) \in Addresses
  BY <1>1 DEF Peer, Addresses, ConnRecord
<1> DEFINE z == [x EXCEPT !.proxy = y.proxy, !.proxy_port = y.proxy_port, !.auth = y.auth]
<1>3. z \in ConnRecord /\ z \in Same(x)
  BY <1>1, ZenonT(60) DEF ConnRecord, Same
<1>4. [x EXCEPT !.proxy = y.proxy, !.proxy_port = y.proxy_port, !.auth = y.auth,
                !.proxied = TRUE, !.http = TRUE] \in Same(x)
  <2>1. [z EXCEPT !.http = TRUE, !.proxied = TRUE] \in Same(x)
    BY <1>3, SetHttp DEF Same
  <2>2. [z EXCEPT !.http = TRUE, !.proxied = TRUE]
          = [x EXCEPT !.proxy = y.proxy, !.proxy_port = y.proxy_port, !.auth = y.auth,
                      !.proxied = TRUE, !.http = TRUE]
    OBVIOUS
  <2> QED
    BY <2>1, <2>2
<1>5. x \in Same(x)
  BY DEF Same
<1>6. ClonedProxy(x, y) \in Same(x)
  BY <1>4, <1>5 DEF ClonedProxy
<1> QED
  BY <1>1, <1>2, <1>6 DEF Proxy

----------------------------------------------------------------------------
(* The matches of a page.                                                  *)

\* A sequence and the elements behind its first k.
LEMMA PrefixGrows ==
  ASSUME NEW S, NEW s \in Seq(S), NEW k \in Nat, k + 1 <= Len(s)
  PROVE  /\ SubSeq(s, 1, k) \in Seq(S) /\ s[k + 1] \in S /\ Len(SubSeq(s, 1, k)) = k
         /\ SubSeq(s, 1, k + 1) = Append(SubSeq(s, 1, k), s[k + 1])
<1> DEFINE p == SubSeq(s, 1, k)
           q == SubSeq(s, 1, k + 1)
<1>1. Len(s) \in Nat /\ \A i \in 1..Len(s) : s[i] \in S
  OBVIOUS
<1>2. p = [i \in 1..k |-> s[i]] /\ q = [i \in 1..(k + 1) |-> s[i]]
  BY <1>1
<1> HIDE DEF p, q
<1>3. p \in Seq(S) /\ Len(p) = k /\ q \in Seq(S) /\ Len(q) = k + 1 /\ k + 1 \in 1..Len(s)
  BY <1>1, <1>2
<1>4. Append(p, s[k + 1]) = q
  <2> DEFINE r == Append(p, s[k + 1])
  <2>1. /\ r \in Seq(S) /\ Len(r) = k + 1 /\ r[k + 1] = s[k + 1]
        /\ \A i \in 1..k : r[i] = p[i]
    BY <1>1, <1>3
  <2>2. r = [i \in 1..(k + 1) |-> r[i]]
    BY <2>1
  <2> HIDE DEF r
  <2>3. \A i \in 1..(k + 1) : r[i] = s[i]
    BY <1>2, <2>1
  <2>. QED
    BY <1>2, <2>2, <2>3 DEF r
<1>. QED
  BY <1>1, <1>3, <1>4 DEF p, q

\* Nothing in front of a sequence.
LEMMA EmptyFront ==
  ASSUME NEW S, NEW s \in Seq(S)
  PROVE  <<>> \o s = s
  OBVIOUS

\* Up to which element sequences have been put together.
JoinsUp(s, f) == f[0] = <<>> /\ \A n \in 1..Len(s) : f[n] = f[n - 1] \o s[n]

\* Putting sequences together one after the other.
LEMMA Joins ==
  ASSUME NEW M, NEW s \in Seq(Seq(M))
  PROVE  \E f \in [0..Len(s) -> Seq(M)] : JoinsUp(s, f)
<1> DEFINE A == Seq(M)
           h == [n \in Nat \ {0} |-> n - 1]
           G == [p \in Nat \X A |-> IF p[1] \in 1..Len(s) THEN p[2] \o s[p[1]] ELSE <<>>]
<1>1. Len(s) \in Nat /\ \A i \in 1..Len(s) : s[i] \in Seq(M)
  OBVIOUS
<1>2. PICK f \in [0..Len(s) -> A] : Recurs(f, Len(s), <<>>, h, G)
  <2>1. Descends(h)
    BY DEF Descends
  <2>2. <<>> \in A /\ G \in [Nat \X A -> A]
    <3>1. \A n \in Nat : \A y \in Seq(M) : (IF n \in 1..Len(s) THEN y \o s[n] ELSE <<>>) \in Seq(M)
      BY <1>1
    <3>. QED
      BY <3>1
  <2> HIDE DEF A, h, G
  <2>. QED
    BY <1>1, <2>1, <2>2, RecursionBounded
<1>3. f[0] = <<>>
  BY <1>2 DEF Recurs
<1>4. ASSUME NEW n \in 1..Len(s) PROVE f[n] = f[n - 1] \o s[n]
  <2>1. n \in Nat \ {0} /\ n \in Nat /\ n - 1 \in 0..Len(s)
    BY <1>1
  <2>2. h[n] = n - 1
    BY <2>1
  <2>3. f[n] = G[<<n, f[h[n]]>>]
    BY <1>2 DEF Recurs
  <2>4. G[<<n, f[n - 1]>>] = f[n - 1] \o s[n]
    BY <1>2, <2>1
  <2>. QED
    BY <2>2, <2>3, <2>4
<1>. QED
  BY <1>2, <1>3, <1>4 DEF JoinsUp

\* The first k of them, flattened, are the k-th sequence that is put together.
LEMMA FlattenIs ==
  ASSUME NEW M, NEW s \in Seq(Seq(M)), NEW f \in [0..Len(s) -> Seq(M)], JoinsUp(s, f),
         NEW k \in 0..Len(s)
  PROVE  FlattenSeq(SubSeq(s, 1, k)) = f[k]
<1> DEFINE p == SubSeq(s, 1, k)
           flatten[i \in 1..Len(p)] == IF i = 1 THEN p[i] ELSE flatten[i-1] \o p[i]
           g == [i \in 1..Len(p) |-> f[i]]
<1>1. Len(s) \in Nat /\ k \in Nat /\ \A i \in 1..Len(s) : s[i] \in Seq(M)
  OBVIOUS
<1>2. p = [i \in 1..k |-> s[i]] /\ Len(p) = k
  BY <1>1
<1>3. CASE k = 0
  <2>1. p = <<>>
    BY <1>2, <1>3
  <2>2. FlattenSeq(p) = p
    BY <1>2, <1>3 DEF FlattenSeq
  <2>. QED
    BY <1>3, <2>1, <2>2 DEF JoinsUp
<1>4. CASE k # 0
  <2>1. FlattenSeq(p) = flatten[Len(p)]
    BY <1>2, <1>4 DEF FlattenSeq
  <2>2. \A i \in 1..k : /\ p[i] = s[i] /\ i \in 1..Len(s) /\ i \in 0..Len(s)
                        /\ i # 1 => i - 1 \in 1..k
    BY <1>1, <1>2
  <2> HIDE DEF p
  <2>3. g = [i \in 1..Len(p) |-> IF i = 1 THEN p[i] ELSE g[i - 1] \o p[i]]
    <3>1. ASSUME NEW i \in 1..k PROVE g[i] = IF i = 1 THEN p[i] ELSE g[i - 1] \o p[i]
      <4>1. g[i] = f[i] /\ f[i] = f[i - 1] \o p[i]
        BY <1>2, <2>2 DEF JoinsUp
      <4>2. CASE i = 1
        <5>1. f[0] = <<>> /\ i - 1 = 0
          BY <4>2 DEF JoinsUp
        <5>2. p[i] \in Seq(M)
          BY <1>1, <2>2
        <5>3. <<>> \o p[i] = p[i]
          BY <5>2, EmptyFront
        <5> HIDE DEF g
        <5>. QED
          BY <4>1, <4>2, <5>1, <5>3
      <4>3. CASE i # 1
        <5>1. g[i - 1] = f[i - 1]
          BY <1>2, <2>2, <4>3
        <5> HIDE DEF g
        <5>. QED
          BY <4>1, <4>3, <5>1
      <4>. QED
        BY <4>2, <4>3
    <3>2. g = [i \in 1..Len(p) |-> g[i]]
      OBVIOUS
    <3> HIDE DEF g
    <3>. QED
      BY <1>2, <3>1, <3>2
  <2>4. flatten = [i \in 1..Len(p) |-> IF i = 1 THEN p[i] ELSE flatten[i - 1] \o p[i]]
    BY <2>3
  <2> HIDE DEF flatten, g
  <2>5. \A i \in Nat : i \in 1..k => flatten[i] = f[i]
    <3> DEFINE S == {i \in Nat : i \in 1..k => flatten[i] = f[i]}
    <3>1. \A i \in 1..k : flatten[i] = IF i = 1 THEN p[i] ELSE flatten[i - 1] \o p[i]
      BY <1>2, <2>4
    <3>2. \A i \in 1..k : f[i] = IF i = 1 THEN p[i] ELSE f[i - 1] \o p[i]
      <4>1. \A i \in 1..k : f[i] = f[i - 1] \o p[i] /\ p[i] \in Seq(M)
        BY <1>1, <2>2 DEF JoinsUp
      <4>2. f[0] = <<>> /\ 1 - 1 = 0
        BY DEF JoinsUp
      <4>3. ASSUME 1 \in 1..k PROVE f[1] = p[1]
        <5>1. f[1] = <<>> \o p[1] /\ p[1] \in Seq(M)
          BY <4>1, <4>2, <4>3
        <5>. QED
          BY <5>1, EmptyFront
      <4>. QED
        BY <4>1, <4>3
    <3>3. 0 \in S
      OBVIOUS
    <3>4. ASSUME NEW i \in Nat, i \in S PROVE i + 1 \in S
      <4>1. SUFFICES ASSUME i + 1 \in 1..k PROVE flatten[i + 1] = f[i + 1]
        OBVIOUS
      <4>2. i + 1 - 1 = i /\ (i + 1 # 1 => i \in 1..k)
        BY <2>2, <4>1
      <4>. QED
        BY <3>1, <3>2, <3>4, <4>1, <4>2
    <3> HIDE DEF S
    <3>5. Nat \subseteq S
      BY <3>3, <3>4, NatSetInduction
    <3>. QED
      BY <3>5 DEF S
  <2>6. k \in 1..k
    BY <1>1, <1>4
  <2>. QED
    BY <1>2, <2>1, <2>5, <2>6 DEF p
<1>. QED
  BY <1>3, <1>4

\* One sequence more.
LEMMA FlattenNext ==
  ASSUME NEW M, NEW s \in Seq(Seq(M)), NEW k \in Nat, k + 1 <= Len(s)
  PROVE  /\ FlattenSeq(SubSeq(s, 1, k)) \in Seq(M) /\ s[k + 1] \in Seq(M)
         /\ FlattenSeq(SubSeq(s, 1, k + 1)) = FlattenSeq(SubSeq(s, 1, k)) \o s[k + 1]
         /\ FlattenSeq(SubSeq(s, 1, 0)) = <<>>
<1>1. PICK f \in [0..Len(s) -> Seq(M)] : JoinsUp(s, f)
  BY Joins
<1>2. k \in 0..Len(s) /\ k + 1 \in 0..Len(s) /\ k + 1 \in 1..Len(s) /\ 0 \in 0..Len(s) /\ k + 1 - 1 = k
  <2>1. Len(s) \in Nat
    OBVIOUS
  <2>. QED
    BY <2>1
<1>3. \A i \in 0..Len(s) : FlattenSeq(SubSeq(s, 1, i)) = f[i]
  BY <1>1, FlattenIs
<1>4. f[k + 1] = f[k] \o s[k + 1] /\ f[0] = <<>>
  <2>1. f[0] = <<>> /\ \A n \in 1..Len(s) : f[n] = f[n - 1] \o s[n]
    BY <1>1 DEF JoinsUp
  <2> DEFINE n == k + 1
  <2>2. n \in 1..Len(s) /\ n - 1 = k
    BY <1>2
  <2> HIDE DEF n
  <2>3. f[n] = f[k] \o s[n]
    BY <2>1, <2>2
  <2>. QED
    BY <2>1, <2>3 DEF n
<1>5. s[k + 1] \in Seq(M)
  BY <1>2
<1>. QED
  BY <1>1, <1>2, <1>3, <1>4, <1>5

\* The data a new disc has.
LEMMA NewDiscType == NewDisc \in DiscData
<1>1. {} \in DiscIds /\ "invalid" \in Categories /\ Null \in Texts
  BY DEF DiscIds, Categories, Texts
<1>. QED
  BY <1>1 DEF NewDisc, DiscData

\* The data a match fills in.
LEMMA FilledType ==
  ASSUME NEW d \in DiscData, NEW m \in Matches
  PROVE  /\ Filled(d, m) \in DiscData
         /\ Filled(d, m).category = CategoryOf(m.category) /\ Filled(d, m).genre = <<m.category>>
         /\ Filled(d, m).discid = m.discid
         /\ m.kind = "again" => /\ Filled(d, m).artist = d.artist
                                /\ Filled(d, m).title = d.title
         /\ m.kind # "again" => /\ Filled(d, m).artist = m.artist
                                /\ Filled(d, m).title =
                                     IF m.kind = "both" THEN m.title ELSE m.artist
<1>1. /\ m.category \in STRING /\ m.discid \in DiscIds
      /\ m.artist \in Texts /\ m.title \in Texts
  BY MatchesAssumption
<1>2. <<m.category>> \in Texts /\ CategoryOf(m.category) \in Categories
  <2>1. <<m.category>> \in Seq(STRING)
    BY <1>1
  <2>2. "misc" \in Categories
    BY DEF Categories
  <2>. QED
    BY <2>1, <2>2 DEF Texts, CategoryOf
<1> DEFINE c == CategoryOf(m.category)
           g == <<m.category>>
           is == [d EXCEPT !.category = c, !.genre = g, !.discid = m.discid]
           t == IF m.kind = "both" THEN m.title ELSE m.artist
<1>3. Filled(d, m) = IF m.kind = "again" THEN is
                     ELSE [is EXCEPT !.artist = m.artist, !.title = t]
  BY DEF Filled
<1>4. c \in Categories /\ g \in Texts /\ t \in Texts
  BY <1>1, <1>2
<1> HIDE DEF c, g, t
<1>5. /\ is \in DiscData /\ is.category = c /\ is.genre = g /\ is.discid = m.discid
      /\ is.artist = d.artist /\ is.title = d.title
  BY <1>1, <1>4 DEF DiscData
<1> HIDE DEF is
<1> DEFINE named == [is EXCEPT !.artist = m.artist, !.title = t]
<1>6. /\ named \in DiscData /\ named.category = c /\ named.genre = g /\ named.discid = m.discid
      /\ named.artist = m.artist /\ named.title = t
  BY <1>1, <1>4, <1>5 DEF DiscData
<1> HIDE DEF named
<1>7. CASE m.kind = "again"
  <2>1. Filled(d, m) = is
    BY <1>3, <1>7
  <2>. QED
    BY <1>5, <1>7, <2>1 DEF c, g
<1>8. CASE m.kind # "again"
  <2>1. Filled(d, m) = named
    BY <1>3, <1>8 DEF named
  <2>. QED
    BY <1>6, <1>8, <2>1 DEF c, g, t
<1>. QED
  BY <1>7, <1>8

\* The disc a match is filled into.
BaseOf(before) == IF before = <<>> THEN NewDisc ELSE Last(before)

LEMMA BaseType ==
  ASSUME NEW before \in Seq(DiscData)
  PROVE  /\ BaseOf(before) \in DiscData
         /\ Len(before) # 0 => BaseOf(before) = before[Len(before)]
<1>1. CASE Len(before) = 0
  <2>1. before = <<>>
    BY <1>1
  <2>. QED
    BY <1>1, <2>1, NewDiscType DEF BaseOf
<1>2. CASE Len(before) # 0
  <2>1. before # <<>> /\ Len(before) \in 1..Len(before)
    BY <1>2
  <2>2. before[Len(before)] \in DiscData
    BY <2>1
  <2>. QED
    BY <2>1, <2>2 DEF BaseOf, Last
<1>. QED
  BY <1>1, <1>2

\* What the matches of a line make of the list, one after the other.
Fills(f, had, line) ==
  f[0] = had /\ \A n \in 1..Len(line) : f[n] = Append(f[n - 1], Filled(BaseOf(f[n - 1]), line[n]))

LEMMA ParsedShape ==
  ASSUME NEW had \in Seq(DiscData), NEW line \in Seq(Matches)
  PROVE  \E f \in [0..Len(line) -> Seq(DiscData)] :
           Fills(f, had, line) /\ ParseSearchData(had, line) = f[Len(line)]
<1> DEFINE A == Seq(DiscData)
           k == Len(line)
           More(n, y) == Append(y, Filled(BaseOf(y), line[n]))
           h == [n \in Nat \ {0} |-> n - 1]
           G == [p \in Nat \X A |-> IF p[1] \in 1..k THEN More(p[1], p[2]) ELSE <<>>]
           Parsed[n \in 0..Len(line)] ==
             IF n = 0 THEN had
             ELSE LET before == Parsed[n - 1]
                      base   == IF before = <<>> THEN NewDisc ELSE Last(before)
                  IN Append(before, Filled(base, line[n]))
<1>1. k \in Nat /\ \A i \in 1..k : line[i] \in Matches
  OBVIOUS
<1>2. PICK f \in [0..k -> A] : Recurs(f, k, had, h, G)
  <2>1. Descends(h)
    BY DEF Descends
  <2>2. had \in A /\ G \in [Nat \X A -> A]
    <3>1. \A n \in 1..k : \A y \in Seq(DiscData) : More(n, y) \in Seq(DiscData)
      <4>1. ASSUME NEW n \in 1..k, NEW y \in Seq(DiscData)
            PROVE  Filled(BaseOf(y), line[n]) \in DiscData
        BY <1>1, BaseType, FilledType
      <4>. QED
        BY <4>1
    <3> HIDE DEF More
    <3>2. \A n \in Nat : \A y \in Seq(DiscData) :
            (IF n \in 1..k THEN More(n, y) ELSE <<>>) \in Seq(DiscData)
      BY <3>1
    <3>. QED
      BY <3>2
  <2> HIDE DEF A, h, G
  <2>. QED
    BY <1>1, <2>1, <2>2, RecursionBounded
<1>3. f[0] = had
  BY <1>2 DEF Recurs
<1>4. ASSUME NEW n \in 1..k PROVE f[n] = More(n, f[n - 1])
  <2>1. n \in Nat \ {0} /\ n \in Nat /\ n - 1 \in 0..k
    BY <1>1
  <2>2. h[n] = n - 1
    BY <2>1
  <2>3. f[n] = G[<<n, f[h[n]]>>]
    BY <1>2 DEF Recurs
  <2>4. G[<<n, f[n - 1]>>] = More(n, f[n - 1])
    <3> HIDE DEF More
    <3>. QED
      BY <1>2, <2>1
  <2>. QED
    BY <2>2, <2>3, <2>4
<1>5. Fills(f, had, line)
  BY <1>3, <1>4 DEF Fills
<1>6. f = [n \in 0..Len(line) |->
             IF n = 0 THEN had
             ELSE LET before == f[n - 1]
                      base   == IF before = <<>> THEN NewDisc ELSE Last(before)
                  IN Append(before, Filled(base, line[n]))]
  <2>1. \A n \in 0..k : f[n] = IF n = 0 THEN had ELSE More(n, f[n - 1])
    <3> HIDE DEF More
    <3>. QED
      BY <1>1, <1>3, <1>4
  <2>2. f = [n \in 0..k |-> f[n]]
    BY <1>2
  <2>3. f = [n \in 0..k |-> IF n = 0 THEN had ELSE More(n, f[n - 1])]
    <3> HIDE DEF More
    <3>. QED
      BY <2>1, <2>2
  <2>. QED
    BY <2>3 DEF BaseOf
<1>7. Parsed = [n \in 0..Len(line) |->
             IF n = 0 THEN had
             ELSE LET before == Parsed[n - 1]
                      base   == IF before = <<>> THEN NewDisc ELSE Last(before)
                  IN Append(before, Filled(base, line[n]))]
  BY <1>6
<1>8. ParseSearchData(had, line) = Parsed[Len(line)]
  BY DEF ParseSearchData
<1>9. \A n \in 0..k : Parsed[n] = IF n = 0 THEN had ELSE More(n, Parsed[n - 1])
  <2> HIDE DEF Parsed
  <2>. QED
    BY <1>7 DEF BaseOf
<1> HIDE DEF Parsed, More
<1>10. \A n \in Nat : n \in 0..k => Parsed[n] = f[n]
  <2> DEFINE S == {n \in Nat : n \in 0..k => Parsed[n] = f[n]}
  <2>1. 0 \in S
    BY <1>1, <1>3, <1>9
  <2>2. ASSUME NEW n \in Nat, n \in S PROVE n + 1 \in S
    <3>1. SUFFICES ASSUME n + 1 \in 0..k PROVE Parsed[n + 1] = f[n + 1]
      OBVIOUS
    <3>2. n + 1 - 1 = n /\ n \in 0..k /\ n + 1 \in 1..k /\ n + 1 # 0
      BY <1>1, <3>1
    <3>3. f[n + 1] = More(n + 1, f[n])
      BY <1>4, <3>2
    <3>4. Parsed[n + 1] = More(n + 1, Parsed[n])
      BY <1>9, <3>2
    <3>. QED
      BY <2>2, <3>2, <3>3, <3>4
  <2> HIDE DEF S
  <2>3. Nat \subseteq S
    BY <2>1, <2>2, NatSetInduction
  <2>. QED
    BY <2>3 DEF S
<1>11. ParseSearchData(had, line) = f[k]
  BY <1>1, <1>8, <1>10
<1>. QED
  BY <1>2, <1>5, <1>11

\* The matches found are those of the page, in its order, each with the names of the last
\* match up to it that has some.
Names(ms, i, j) ==
  j <= i /\ ms[j].kind # "again" /\ \A k \in (j + 1)..i : ms[k].kind = "again"

Answers(found, ms, i) ==
  /\ found[i].category = CategoryOf(ms[i].category)
  /\ found[i].genre = <<ms[i].category>> /\ found[i].discid = ms[i].discid
  /\ \A j \in 1..Len(ms) : Names(ms, i, j) =>
       /\ found[i].artist = ms[j].artist
       /\ found[i].title = IF ms[j].kind = "both" THEN ms[j].title ELSE ms[j].artist

InOrder(found, ms) == Len(found) = Len(ms) /\ \A i \in 1..Len(ms) : Answers(found, ms, i)

\* One more match.
LEMMA OneMore ==
  ASSUME NEW found \in Seq(DiscData), NEW ms \in Seq(Matches), NEW m \in Matches,
         InOrder(found, ms)
  PROVE  InOrder(Append(found, Filled(BaseOf(found), m)), Append(ms, m))
<1> DEFINE n == Len(ms)
           x == Filled(BaseOf(found), m)
           f == Append(found, x)
           s == Append(ms, m)
<1>1. n \in Nat /\ Len(found) = n
  BY DEF InOrder
<1>2. x \in DiscData
  BY BaseType, FilledType
<1>3. /\ Len(s) = n + 1 /\ s[n + 1] = m /\ \A i \in 1..n : s[i] = ms[i]
      /\ Len(f) = n + 1 /\ f[n + 1] = x /\ \A i \in 1..n : f[i] = found[i]
  <2> HIDE DEF x
  <2>. QED
    BY <1>1, <1>2
<1>4. /\ x.category = CategoryOf(m.category) /\ x.genre = <<m.category>> /\ x.discid = m.discid
      /\ m.kind = "again" => x.artist = BaseOf(found).artist /\ x.title = BaseOf(found).title
      /\ m.kind # "again" => /\ x.artist = m.artist
                             /\ x.title = IF m.kind = "both" THEN m.title ELSE m.artist
  BY BaseType, FilledType
<1>5. n # 0 => BaseOf(found) = found[n]
  BY <1>1, BaseType
<1> HIDE DEF n, x, f, s
<1>6. ASSUME NEW i \in 1..n PROVE Answers(f, s, i)
  <2>1. ASSUME NEW j \in 1..(n + 1), Names(s, i, j)
        PROVE  j \in 1..n /\ Names(ms, i, j)
    <3>1. j \in 1..n /\ \A k \in (j + 1)..i : k \in 1..n
      BY <1>1, <2>1 DEF Names
    <3>. QED
      BY <1>3, <2>1, <3>1 DEF Names
  <2>2. Answers(found, ms, i)
    BY DEF InOrder, n
  <2>3. \A j \in 1..(n + 1) : Names(s, i, j) => s[j] = ms[j]
    BY <1>3, <2>1
  <2>. QED
    BY <1>3, <2>1, <2>2, <2>3 DEF Answers, n
<1>7. Answers(f, s, n + 1)
  <2>1. ASSUME NEW j \in 1..(n + 1), Names(s, n + 1, j)
        PROVE  /\ x.artist = s[j].artist
               /\ x.title = IF s[j].kind = "both" THEN s[j].title ELSE s[j].artist
    <3>1. CASE j = n + 1
      BY <1>3, <1>4, <2>1, <3>1 DEF Names
    <3>2. CASE j # n + 1
      <4>1. j \in 1..n /\ n \in 1..n /\ n # 0 /\ n + 1 \in (j + 1)..(n + 1)
            /\ \A k \in (j + 1)..n : k \in (j + 1)..(n + 1) /\ k \in 1..n
        BY <1>1, <3>2
      <4>2. m.kind = "again"
        BY <1>3, <2>1, <4>1 DEF Names
      <4>3. Names(ms, n, j)
        BY <1>3, <2>1, <4>1 DEF Names
      <4>4. Answers(found, ms, n)
        BY <4>1 DEF InOrder, n
      <4>5. /\ found[n].artist = ms[j].artist
            /\ found[n].title = IF ms[j].kind = "both" THEN ms[j].title ELSE ms[j].artist
        BY <4>1, <4>3, <4>4 DEF Answers, n
      <4>. QED
        BY <1>3, <1>4, <1>5, <4>1, <4>2, <4>5
    <3>. QED
      BY <3>1, <3>2
  <2>. QED
    BY <1>3, <1>4, <2>1 DEF Answers
<1>8. \A i \in 1..(n + 1) : i \in 1..n \/ i = n + 1
  BY <1>1
<1>. QED
  BY <1>3, <1>6, <1>7, <1>8 DEF InOrder, f, s, x

\* The matches of one more line.
LEMMA LineInOrder ==
  ASSUME NEW had \in Seq(DiscData), NEW ms \in Seq(Matches), NEW line \in Seq(Matches),
         InOrder(had, ms)
  PROVE  /\ ParseSearchData(had, line) \in Seq(DiscData)
         /\ InOrder(ParseSearchData(had, line), ms \o line)
<1> DEFINE k == Len(line)
<1>1. k \in Nat /\ k \in 0..k
  OBVIOUS
<1>2. PICK f \in [0..k -> Seq(DiscData)] :
        Fills(f, had, line) /\ ParseSearchData(had, line) = f[k]
  BY ParsedShape
<1>3. /\ f[0] = had
      /\ \A n \in 1..k : f[n] = Append(f[n - 1], Filled(BaseOf(f[n - 1]), line[n]))
  BY <1>2 DEF Fills
<1> DEFINE S == {n \in Nat : n \in 0..k => InOrder(f[n], ms \o SubSeq(line, 1, n))}
<1>4. 0 \in S
  <2>1. ms \o SubSeq(line, 1, 0) = ms
    <3>1. SubSeq(line, 1, 0) = <<>>
      OBVIOUS
    <3>. QED
      BY <3>1
  <2>. QED
    BY <1>3, <2>1
<1>5. ASSUME NEW n \in Nat, n \in S PROVE n + 1 \in S
  <2>1. SUFFICES ASSUME n + 1 \in 0..k PROVE InOrder(f[n + 1], ms \o SubSeq(line, 1, n + 1))
    OBVIOUS
  <2>2. n + 1 <= Len(line) /\ n \in 0..k
    BY <1>1, <2>1
  <2> DEFINE p == SubSeq(line, 1, n)
             x == line[n + 1]
             before == f[n]
             c == n + 1
  <2>3. p \in Seq(Matches) /\ x \in Matches /\ SubSeq(line, 1, n + 1) = Append(p, x)
    BY <2>2, PrefixGrows
  <2>4. before \in Seq(DiscData)
    BY <1>2, <2>2
  <2>5. f[n + 1] = Append(before, Filled(BaseOf(before), x))
    <3>1. c \in 1..k /\ c - 1 = n
      BY <1>1, <2>1
    <3> HIDE DEF c
    <3>2. f[c] = Append(f[n], Filled(BaseOf(f[n]), line[c]))
      BY <1>3, <3>1
    <3>. QED
      BY <3>2 DEF c
  <2>6. InOrder(before, ms \o p)
    BY <1>5, <2>2
  <2> HIDE DEF p, x, before
  <2>7. ms \o p \in Seq(Matches) /\ ms \o Append(p, x) = Append(ms \o p, x)
    <3>1. ms \o p \in Seq(Matches)
      BY <2>3
    <3>2. ms \o Append(p, x) = Append(ms \o p, x)
      BY <2>3
    <3>. QED
      BY <3>1, <3>2
  <2>8. InOrder(Append(before, Filled(BaseOf(before), x)), Append(ms \o p, x))
    BY <2>3, <2>4, <2>6, <2>7, OneMore
  <2>. QED
    BY <2>3, <2>5, <2>7, <2>8
<1> HIDE DEF S
<1>6. Nat \subseteq S
  BY <1>4, <1>5, NatSetInduction
<1>7. InOrder(f[k], ms \o SubSeq(line, 1, k))
  BY <1>1, <1>6 DEF S
<1>8. SubSeq(line, 1, k) = line
  OBVIOUS
<1>. QED
  BY <1>1, <1>2, <1>7, <1>8

SearchStep ==
  \/ \E c \in Conns : SearchStarts(c)
  \/ SearchConnects \/ SearchConnectFails
  \/ SearchSends \/ SearchSendFails
  \/ SearchReads \/ SearchEnds

\* The library is not shut down under a search.
SearchInv == SearchTypeOK /\ (searching # Null => initialized)

\* A search changes no structure but cddb_search_conn, and of that no descriptor.
LEMMA SearchTouches ==
  ASSUME SearchInv, SearchStep
  PROVE  /\ conn[Srch] \in ConnRecord
         /\ \E x \in Same(conn[Srch]) : conn' = [conn EXCEPT ![Srch] = x]
         /\ UNCHANGED <<initialized, open, site, sets, dangling>>
<1>1. conn \in [Conns \cup {Srch} -> ConnRecord \cup {Null}] /\ (initialized <=> conn[Srch] # Null)
  BY DEF SearchInv, SearchTypeOK, SettingsTypeOK
<1>2. initialized
  BY DEF SearchInv, SearchStep, SearchStarts, SearchConnects, SearchConnectFails, SearchSends,
         SearchSendFails, SearchReads, SearchEnds, At
<1>3. conn[Srch] \in ConnRecord
  BY <1>1, <1>2
<1>4. UNCHANGED <<initialized, open, site, sets, dangling>>
  BY DEF SearchStep, SearchStarts, SearchConnects, SearchConnectFails, SearchSends,
         SearchSendFails, SearchReads, SearchEnds, InSearch
<1>5. ASSUME UNCHANGED conn
      PROVE  \E x \in Same(conn[Srch]) : conn' = [conn EXCEPT ![Srch] = x]
  <2>1. conn[Srch] \in Same(conn[Srch]) /\ conn' = [conn EXCEPT ![Srch] = conn[Srch]]
    BY <1>1, <1>3, <1>5 DEF Same
  <2> QED
    BY <2>1
<1>6. ASSUME NEW peer \in Addresses \cup {Null}, Socket(peer)
      PROVE  \E x \in Same(conn[Srch]) : conn' = [conn EXCEPT ![Srch] = x]
  <2>1. [conn[Srch] EXCEPT !.socket = peer] \in Same(conn[Srch])
    BY <1>3, SetSocket
  <2>2. conn' = [conn EXCEPT ![Srch] = [conn[Srch] EXCEPT !.socket = peer]]
    BY <1>6 DEF Socket
  <2> QED
    BY <2>1, <2>2
<1>7. ASSUME NEW c \in Conns, SearchStarts(c)
      PROVE  \E x \in Same(conn[Srch]) : conn' = [conn EXCEPT ![Srch] = x]
  <2>1. conn[c] \in ConnRecord
    BY <1>1, <1>7 DEF SearchStarts
  <2>2. ClonedProxy(conn[Srch], conn[c]) \in Same(conn[Srch])
    BY <1>3, <2>1, ClonedTyped
  <2>3. conn' = [conn EXCEPT ![Srch] = ClonedProxy(conn[Srch], conn[c])]
    BY <1>7 DEF SearchStarts
  <2> QED
    BY <2>2, <2>3
<1>8. Peer(conn[Srch]) \in Addresses
  BY <1>3, ClonedTyped
<1>9. \/ UNCHANGED conn
      \/ Socket(Null) \/ Socket(Peer(conn[Srch]))
      \/ \E c \in Conns : SearchStarts(c)
  BY DEF SearchStep, SearchConnects, SearchConnectFails, SearchSends,
         SearchSendFails, SearchReads, SearchEnds
<1>10. \E x \in Same(conn[Srch]) : conn' = [conn EXCEPT ![Srch] = x]
  BY <1>5, <1>6, <1>7, <1>8, <1>9
<1> QED
  BY <1>3, <1>4, <1>10

\* A page is a sequence of lines.
LEMMA PageType ==
  ASSUME SearchInv
  PROVE  page \in Seq(Seq(Matches))
<1>1. \A S : <<>> \in Seq(S)
  OBVIOUS
<1>2. <<>> \in Seq(Seq(Matches))
  BY <1>1, Zenon
<1>3. page \in Pages \cup {<<>>}
  BY DEF SearchInv, SearchTypeOK
<1> QED
  BY <1>2, <1>3, PagesAssumption, Zenon

\* A line of the page.
LEMMA ReadsLine ==
  ASSUME SearchInv, SearchReads
  PROVE  /\ read \in Nat /\ read' = read + 1 /\ read + 1 <= Len(page)
         /\ page \in Seq(Seq(Matches)) /\ page' = page
         /\ page[read + 1] \in Seq(Matches)
         /\ query_data' = [query_data EXCEPT ![searching] =
                             ParseSearchData(query_data[searching], page[read + 1])]
<1>1. page \in Pages \cup {<<>>} /\ read \in 0..Len(page)
  BY DEF SearchInv, SearchTypeOK
<1>2. /\ read < Len(page) /\ read' = read + 1 /\ page' = page
      /\ query_data' = [query_data EXCEPT ![searching] =
                          ParseSearchData(query_data[searching], page[read'])]
  BY DEF SearchReads
<1>3. page \in Seq(Seq(Matches))
  BY PageType
<1>4. Len(page) \in Nat /\ read + 1 \in 1..Len(page)
  BY <1>1, <1>2, <1>3
<1>5. page[read + 1] \in Seq(Matches)
  BY <1>3, <1>4
<1> QED
  BY <1>1, <1>2, <1>3, <1>4, <1>5

\* The matches of a line are discs.
LEMMA ParsedType ==
  ASSUME NEW had \in Seq(DiscData), NEW line \in Seq(Matches)
  PROVE  ParseSearchData(had, line) \in Seq(DiscData)
<1>1. PICK f \in [0..Len(line) -> Seq(DiscData)] :
        Fills(f, had, line) /\ ParseSearchData(had, line) = f[Len(line)]
  BY ParsedShape
<1>2. Len(line) \in 0..Len(line)
  <2>1. Len(line) \in Nat
    OBVIOUS
  <2> QED
    BY <2>1
<1> QED
  BY <1>1, <1>2

\* Copying a disc gives a disc.
LEMMA MergedType ==
  ASSUME NEW x \in DiscData, NEW y \in DiscData
  PROVE  Merged(x, y, NewDisc) \in DiscData
<1> DEFINE m == Merged(x, y, NewDisc)
<1>1. DOMAIN x = DOMAIN NewDisc /\ m = [f \in DOMAIN x |-> IF y[f] = NewDisc[f] THEN x[f] ELSE y[f]]
  BY DEF Merged, DiscData, NewDisc
<1>2. DOMAIN x = {"discid", "category", "year", "length", "revision", "genre", "title", "artist",
                  "ext_data"}
  BY DEF DiscData
<1>3. m = [ discid |-> m.discid, category |-> m.category, year |-> m.year, length |-> m.length,
            revision |-> m.revision, genre |-> m.genre, title |-> m.title, artist |-> m.artist,
            ext_data |-> m.ext_data ]
  BY <1>1, <1>2
<1>4. /\ m.discid \in DiscIds /\ m.category \in Categories /\ m.year \in Nat /\ m.length \in Nat
      /\ m.revision \in Nat /\ m.genre \in Texts /\ m.title \in Texts /\ m.artist \in Texts
      /\ m.ext_data \in Texts
  BY <1>1, <1>2 DEF DiscData
<1> HIDE DEF m
<1>5. m \in DiscData
  BY <1>3, <1>4 DEF DiscData
<1> QED
  BY <1>5 DEF m

LEMMA SearchStepTyped ==
  ASSUME SearchInv, SearchStep
  PROVE  SearchInv'
<1>1. SettingsTypeOK'
  <2>1. PICK x \in Same(conn[Srch]) : conn' = [conn EXCEPT ![Srch] = x]
    BY SearchTouches
  <2>2. conn[Srch] # Null /\ x \in ConnRecord
    BY SearchTouches, NullIsNoRecord DEF Same
  <2>3. ConnTypeOK /\ RestTypeOK
    BY DEF SearchInv, SearchTypeOK, SettingsTypeOK, ConnTypeOK, RestTypeOK
  <2>4. ConnTypeOK'
    BY <2>1, <2>2, <2>3, SearchTouches, ConnPut
  <2>5. RestTypeOK'
    BY <2>3, SearchTouches DEF RestTypeOK
  <2> QED
    BY <2>4, <2>5 DEF SettingsTypeOK, ConnTypeOK, RestTypeOK
<1>2. searching' \in Conns \cup {Null} /\ stage' \in {"connect", "send", "page"}
  BY DEF SearchInv, SearchTypeOK, SearchStep, SearchStarts, SearchConnects, SearchConnectFails,
         SearchSends, SearchSendFails, SearchReads, SearchEnds, SearchFails
<1>3. searching' # Null => initialized'
  BY DEF SearchInv, SearchStep, SearchStarts, SearchConnects, SearchConnectFails, SearchSends,
         SearchSendFails, SearchReads, SearchEnds, InSearch, SearchFails, At
<1>4. ret' \in {"none", "found", "failed"}
  BY DEF SearchInv, SearchTypeOK, SearchStep, SearchStarts, SearchConnects, SearchConnectFails,
         SearchSends, SearchSendFails, SearchReads, SearchEnds, SearchFails
<1>5. late' \in BOOLEAN
  BY DEF SearchInv, SearchTypeOK, SearchStep, SearchStarts, SearchConnects, SearchConnectFails,
         SearchSends, SearchSendFails, SearchReads, SearchEnds, SearchFails
<1>6. searches' \in 0..MaxSearches
  BY MaxSearchesAssumption
  DEF SearchInv, SearchTypeOK, SearchStep, SearchStarts, SearchConnects, SearchConnectFails,
      SearchSends, SearchSendFails, SearchReads, SearchEnds, InSearch
<1>7. page' \in Pages \cup {<<>>} /\ read' \in 0..Len(page')
  <2>1. page \in Pages \cup {<<>>} /\ read \in 0..Len(page)
    BY DEF SearchInv, SearchTypeOK
  <2>2. ASSUME NEW p \in Pages \cup {<<>>} PROVE Len(p) \in Nat
    BY PagesAssumption
  <2>3. \/ UNCHANGED <<page, read>>
        \/ page' \in Pages /\ read' = 0
        \/ page' = page /\ read < Len(page) /\ read' = read + 1
    BY DEF SearchStep, SearchStarts, SearchConnects, SearchConnectFails, SearchSends,
           SearchSendFails, SearchReads, SearchEnds
  <2>4. Len(page') \in Nat /\ Len(page) \in Nat
    BY <2>1, <2>2, <2>3
  <2> QED
    BY <2>1, <2>3, <2>4
<1>8. was' \in Proxy \cup {Null}
  <2>1. ASSUME NEW c \in Conns, SearchStarts(c) PROVE was' \in Proxy \cup {Null}
    <3>1. conn[c] \in ConnRecord
      BY <2>1 DEF SearchStarts, SearchInv, SearchTypeOK, SettingsTypeOK
    <3>2. [peer |-> Peer(conn[c]), auth |-> conn[c].auth] \in Proxy
      BY <3>1, ClonedTyped
    <3>3. was \in Proxy \cup {Null}
      BY DEF SearchInv, SearchTypeOK
    <3> QED
      BY <2>1, <3>2, <3>3 DEF SearchStarts
  <2> QED
    BY <2>1 DEF SearchInv, SearchTypeOK, SearchStep, SearchConnects, SearchConnectFails,
                SearchSends, SearchSendFails, SearchReads, SearchEnds, InSearch
<1>9. query_data' \in [Conns -> Seq(DiscData)] /\ disc' \in DiscData
  <2>1. query_data \in [Conns -> Seq(DiscData)] /\ disc \in DiscData
    BY DEF SearchInv, SearchTypeOK
  <2>2. ASSUME NEW c \in Conns, SearchStarts(c) PROVE query_data' \in [Conns -> Seq(DiscData)]
    <3>1. query_data' = [query_data EXCEPT ![c] = <<>>] /\ <<>> \in Seq(DiscData)
      BY <2>2 DEF SearchStarts
    <3> QED
      BY <2>1, <3>1
  <2>3. CASE SearchReads
    <3>1. PICK line \in Seq(Matches) :
            query_data' = [query_data EXCEPT ![searching] =
                             ParseSearchData(query_data[searching], line)]
      BY <2>3, ReadsLine
    <3>2. searching \in Conns
      BY <2>3 DEF SearchReads, At, SearchInv, SearchTypeOK
    <3>3. ParseSearchData(query_data[searching], line) \in Seq(DiscData)
      BY <2>1, <3>2, ParsedType
    <3>4. disc' = disc
      BY <2>3 DEF SearchReads
    <3> QED
      BY <2>1, <3>1, <3>2, <3>3, <3>4
  <2>4. CASE SearchEnds
    <3>1. searching \in Conns
      BY <2>4 DEF SearchEnds, At, SearchInv, SearchTypeOK
    <3> DEFINE found == query_data[searching]
    <3>2. found \in Seq(DiscData)
      BY <2>1, <3>1
    <3>3. disc' = IF found = <<>> THEN disc ELSE Merged(disc, Head(found), NewDisc)
      BY <2>4 DEF SearchEnds
    <3> HIDE DEF found
    <3>4. found # <<>> => Head(found) \in DiscData
      BY <3>2
    <3>5. disc' \in DiscData
      BY <2>1, <3>3, <3>4, MergedType
    <3>6. query_data' = query_data
      BY <2>4 DEF SearchEnds
    <3> QED
      BY <2>1, <3>5, <3>6
  <2>5. CASE SearchConnects \/ SearchConnectFails \/ SearchSends \/ SearchSendFails
    BY <2>1, <2>5 DEF SearchConnects, SearchConnectFails, SearchSends, SearchSendFails
  <2>6. \A c \in Conns : SearchStarts(c) => disc' = disc
    BY DEF SearchStarts
  <2> QED
    BY <2>1, <2>2, <2>3, <2>4, <2>5, <2>6 DEF SearchStep
<1> QED
  BY <1>1, <1>2, <1>3, <1>4, <1>5, <1>6, <1>7, <1>8, <1>9 DEF SearchInv, SearchTypeOK

\* While something is set, no search is on its way.
LEMMA SettingsCounted ==
  ASSUME SettingsNext
  PROVE  Counted
<1>1. ASSUME NEW c \in Conns, Setting(c) PROVE Counted
  <2>1. ASSUME NEW x, Sets(c, x) \/ Puts(c, x) PROVE Counted
    BY <2>1 DEF Sets, Puts
  <2>2. CASE CddbSetCharset(c) \/ CddbSetCharsetUnknown(c) \/ CddbSetCharsetOneWay(c)
    BY <2>1, <2>2 DEF CddbSetCharset, CddbSetCharsetUnknown, CddbSetCharsetOneWay
  <2>3. CASE CddbSetSite(c)
    BY <2>1, <2>3 DEF CddbSetSite
  <2>4. CASE \/ CddbHttpEnable(c) \/ CddbHttpDisable(c)
             \/ CddbHttpProxyEnable(c) \/ CddbHttpProxyDisable(c)
    BY <2>1, <2>4 DEF CddbHttpEnable, CddbHttpDisable, CddbHttpProxyEnable, CddbHttpProxyDisable
  <2>5. ASSUME NEW y, \/ CddbSetServerName(c, y) \/ CddbSetHttpProxyServerName(c, y)
                      \/ CddbSetServerPort(c, y) \/ CddbSetHttpProxyServerPort(c, y)
                      \/ CddbSetHttpPathQuery(c, y)
                      \/ CddbSetHttpProxyUsername(c, y) \/ CddbSetHttpProxyPassword(c, y)
                      \/ \E z : CddbSetHttpProxyCredentials(c, y, z)
        PROVE  Counted
    BY <2>1, <2>5
    DEF CddbSetServerName, CddbSetHttpProxyServerName, CddbSetServerPort,
        CddbSetHttpProxyServerPort, CddbSetHttpPathQuery, CddbSetHttpProxyUsername,
        CddbSetHttpProxyPassword, CddbSetHttpProxyCredentials
  <2> QED
    BY <1>1, <2>2, <2>3, <2>4, <2>5 DEF Setting
<1>2. ASSUME NEW y, \/ CddbSiteParse(y) \/ CddbSiteSetAddress(y, 8880)
                    \/ CddbSiteSetProtocol(y) \/ CddbSiteSetQueryPath(y)
      PROVE  Counted
  BY <1>2 DEF CddbSiteParse, CddbSiteSetAddress, CddbSiteSetProtocol, CddbSiteSetQueryPath, Site
<1>3. ASSUME NEW c, CddbNew(c) \/ CddbDestroy(c) \/ LibcddbInit \/ LibcddbShutdown
      PROVE  Counted
  BY <1>3 DEF LibcddbInit, LibcddbShutdown, CddbNew, CddbDestroy
<1> QED
  BY <1>1, <1>2, <1>3 DEF SettingsNext

\* Nothing but its profile tells a connection from any other to begin with.
LEMMA SettingsInitTyped ==
  ASSUME SettingsInit
  PROVE  SettingsTypeOK
<1>1. PICK p \in [Conns -> Profiles] :
        conn = [c \in Conns \cup {Srch} |-> IF c = Srch THEN SearchConn ELSE p[c]]
  BY DEF SettingsInit
<1>2. \A c \in Conns : p[c] \in ConnRecord
  BY ProfilesAssumption
<1>3. SearchConn \in ConnRecord /\ SearchConn # Null
  BY SearchConnTyped, NullIsNoRecord
<1>4. conn \in [Conns \cup {Srch} -> ConnRecord \cup {Null}] /\ conn[Srch] = SearchConn
  BY <1>1, <1>2, <1>3
<1>5. Null \in Hosts \cup {Null} /\ Null \in Paths \cup {Null} /\ 0 \in Nat
  OBVIOUS
<1>6. NewSite \in SiteRecord
  BY <1>5 DEF NewSite, SiteRecord
<1>7. sets \in 0..MaxSets
  BY MaxSetsAssumption DEF SettingsInit
<1>8. open \subseteq Handles /\ dangling \in BOOLEAN /\ initialized = TRUE /\ site = NewSite
  BY DEF SettingsInit
<1>9. initialized \in BOOLEAN /\ (initialized <=> conn[Srch] # Null)
  BY <1>3, <1>4, <1>8
<1> QED
  BY <1>4, <1>6, <1>7, <1>8, <1>9 DEF SettingsTypeOK

\* The types and the search that needs the library: what every step keeps.
LEMMA SearchNextTyped ==
  ASSUME SearchInv, [SearchNext]_srchVars
  PROVE  SearchInv'
<1>1. CASE SearchStep
  BY <1>1, SearchStepTyped
<1>2. CASE /\ SettingsNext /\ was' = (IF initialized' THEN was ELSE Null)
           /\ UNCHANGED <<searching, query_data, disc, page, read, stage, searches, ret, late>>
  <2>1. SettingsTypeOK'
    BY <1>2, SettingsNextTyped DEF SearchInv, SearchTypeOK
  <2>2. searching' = Null
    BY <1>2, SettingsCounted DEF Counted
  <2> QED
    BY <1>2, <2>1, <2>2 DEF SearchInv, SearchTypeOK
<1>3. CASE UNCHANGED srchVars
  BY <1>3 DEF srchVars, settings, search, SearchInv, SearchTypeOK, SettingsTypeOK
<1> QED
  BY <1>1, <1>2, <1>3 DEF SearchNext, SearchStep

LEMMA SearchInitInv ==
  ASSUME SearchInit
  PROVE  SearchInv
<1>1. SettingsTypeOK
  BY SettingsInitTyped DEF SearchInit
<1>2. page = <<>> /\ read = 0 /\ Len(<<>>) = 0
  BY DEF SearchInit
<1>3. page \in Pages \cup {<<>>} /\ read \in 0..Len(page)
  BY <1>2
<1>4. searches \in 0..MaxSearches
  BY MaxSearchesAssumption DEF SearchInit
<1>5. /\ searching = Null /\ stage = "connect" /\ ret = "none" /\ was = Null
      /\ late = FALSE
  BY DEF SearchInit
<1>6. query_data \in [Conns -> Seq(DiscData)] /\ disc \in DiscData
  <2>1. <<>> \in Seq(DiscData)
    OBVIOUS
  <2> QED
    BY <2>1, NewDiscType DEF SearchInit
<1> QED
  BY <1>1, <1>3, <1>4, <1>5, <1>6 DEF SearchInv, SearchTypeOK

\* The connections, the library's and the application's, what is set in them, the
\* open descriptors and the search keep to their types, whatever is called in which
\* order, for any hosts, paths, users and pages (cddb_conn.c, cddb_site.c, cddb_search).
THEOREM SearchTypes == SearchSpec => []SearchTypeOK
<1>1. SearchInit => SearchInv
  BY SearchInitInv
<1>2. SearchInv /\ [SearchNext]_srchVars => SearchInv'
  BY SearchNextTyped
<1>3. SearchInv => SearchTypeOK
  BY DEF SearchInv
<1> QED
  BY <1>1, <1>2, <1>3, PTL DEF SearchSpec

----------------------------------------------------------------------------
(* Conversion descriptors.                                                 *)

HeldBy(x) == IF x = Null THEN {} ELSE Held(x)

\* HandlesLive, for connections f and open descriptors o.
OwnedBy(f, o) ==
  /\ \A h : h \in o <=> \E c \in DOMAIN f : h \in HeldBy(f[c])
  /\ \A c \in DOMAIN f : f[c] # Null /\ f[c].to = f[c].from => f[c].to = Null
  /\ \A c, d \in DOMAIN f : c # d => HeldBy(f[c]) \cap HeldBy(f[d]) = {}

LEMMA HandlesOwned ==
  /\ HandlesLive <=> (~dangling => OwnedBy(conn, open))
  /\ HandlesLive' <=> (~dangling' => OwnedBy(conn', open'))
<1> DEFINE E(f) == {c \in DOMAIN f : f[c] # Null}
           Live(f, o) == /\ o = UNION {Held(f[c]) : c \in E(f)}
                         /\ \A c \in E(f) : f[c].to = f[c].from => f[c].to = Null
                         /\ \A c, d \in E(f) : c # d => Held(f[c]) \cap Held(f[d]) = {}
<1>1. ASSUME NEW f, NEW o PROVE Live(f, o) <=> OwnedBy(f, o)
  <2>1. \A c \in DOMAIN f : HeldBy(f[c]) = IF c \in E(f) THEN Held(f[c]) ELSE {}
    BY DEF HeldBy
  <2>2. E(f) \subseteq DOMAIN f
    OBVIOUS
  <2>3. o = UNION {Held(f[c]) : c \in E(f)} <=>
          \A h : h \in o <=> \E c \in E(f) : h \in Held(f[c])
    OBVIOUS
  <2>4. \A h : (\E c \in E(f) : h \in Held(f[c])) <=> \E c \in DOMAIN f : h \in HeldBy(f[c])
    BY <2>1, <2>2
  <2>5. (\A c, d \in E(f) : c # d => Held(f[c]) \cap Held(f[d]) = {}) <=>
          \A c, d \in DOMAIN f : c # d => HeldBy(f[c]) \cap HeldBy(f[d]) = {}
    BY <2>1, <2>2
  <2> QED
    BY <2>3, <2>4, <2>5 DEF OwnedBy
<1>2. HandlesLive <=> (~dangling => Live(conn, open))
  BY DEF HandlesLive, Exists
<1>3. HandlesLive' <=> (~dangling' => Live(conn', open'))
  BY DEF HandlesLive, Exists
<1> HIDE DEF Live
<1> QED
  BY <1>1, <1>2, <1>3

\* A connection closes its descriptors and takes others, which no other one has.
LEMMA OwnedReplace ==
  ASSUME NEW f, NEW o, NEW p, NEW c \in DOMAIN f, NEW x,
         OwnedBy(f, o),
         x # Null /\ x.to = x.from => x.to = Null,
         HeldBy(x) \cap (o \ HeldBy(f[c])) = {},
         p = (o \ HeldBy(f[c])) \cup HeldBy(x)
  PROVE  OwnedBy([f EXCEPT ![c] = x], p)
<1> DEFINE g == [f EXCEPT ![c] = x]
<1>1. DOMAIN g = DOMAIN f /\ g[c] = x /\ \A d \in DOMAIN f : d # c => g[d] = f[d]
  OBVIOUS
<1> HIDE DEF g
<1>2. ASSUME NEW d \in DOMAIN f, d # c
      PROVE  HeldBy(f[d]) \subseteq o \ HeldBy(f[c])
  BY <1>2 DEF OwnedBy
<1>3. ASSUME NEW h PROVE h \in p <=> \E d \in DOMAIN g : h \in HeldBy(g[d])
  <2>1. h \in o <=> \E d \in DOMAIN f : h \in HeldBy(f[d])
    BY DEF OwnedBy
  <2> QED
    BY <1>1, <1>2, <2>1
<1>4. \A d \in DOMAIN g : g[d] # Null /\ g[d].to = g[d].from => g[d].to = Null
  BY <1>1 DEF OwnedBy
<1>5. ASSUME NEW d \in DOMAIN g, NEW e \in DOMAIN g, d # e
      PROVE  HeldBy(g[d]) \cap HeldBy(g[e]) = {}
  <2>1. CASE d = c
    BY <1>1, <1>2, <1>5, <2>1
  <2>2. CASE e = c
    BY <1>1, <1>2, <1>5, <2>2
  <2>3. CASE d # c /\ e # c
    BY <1>1, <1>5, <2>3 DEF OwnedBy
  <2> QED
    BY <2>1, <2>2, <2>3
<1> QED
  BY <1>3, <1>4, <1>5 DEF OwnedBy, g

\* A connection that keeps its descriptors.
LEMMA OwnedSame ==
  ASSUME NEW f, NEW o, NEW c \in DOMAIN f, NEW x,
         OwnedBy(f, o), f[c] # Null, x # Null, x.to = f[c].to, x.from = f[c].from
  PROVE  OwnedBy([f EXCEPT ![c] = x], o)
<1>1. HeldBy(x) = HeldBy(f[c])
  BY DEF HeldBy, Held
<1>2. HeldBy(f[c]) \subseteq o
  BY DEF OwnedBy
<1>3. HeldBy(x) \cap (o \ HeldBy(f[c])) = {} /\ o = (o \ HeldBy(f[c])) \cup HeldBy(x)
  BY <1>1, <1>2
<1>4. x.to = x.from => x.to = Null
  BY DEF OwnedBy
<1> QED
  BY <1>3, <1>4, OwnedReplace

\* A connection that has none, or none any more, or is gone.
LEMMA OwnedNone ==
  ASSUME NEW f, NEW o, NEW c \in DOMAIN f, NEW x,
         OwnedBy(f, o), x # Null => x.to = Null /\ x.from = Null
  PROVE  OwnedBy([f EXCEPT ![c] = x], o \ HeldBy(f[c]))
<1>1. HeldBy(x) = {}
  BY DEF HeldBy, Held
<1>2. /\ HeldBy(x) \cap (o \ HeldBy(f[c])) = {}
      /\ o \ HeldBy(f[c]) = (o \ HeldBy(f[c])) \cup HeldBy(x)
  BY <1>1
<1> QED
  BY <1>2, OwnedReplace

LEMMA OwnedInitialized ==
  ASSUME ConnTypeOK, OwnedBy(conn, open)
  PROVE  OwnedBy(Initialized, open)
<1>1. CASE initialized
  <2>1. Initialized = conn
    BY <1>1 DEF Initialized, ConnTypeOK
  <2> QED
    BY <2>1
<1>2. CASE ~initialized
  <2>1. conn[Srch] = Null /\ Srch \in DOMAIN conn
    BY <1>2 DEF ConnTypeOK
  <2>2. open = open \ HeldBy(conn[Srch])
    BY <2>1 DEF HeldBy
  <2>3. Initialized = [conn EXCEPT ![Srch] = SearchConn]
    BY <1>2 DEF Initialized
  <2>4. OwnedBy([conn EXCEPT ![Srch] = SearchConn], open \ HeldBy(conn[Srch]))
    BY <2>1, SearchConnTyped, OwnedNone
  <2> QED
    BY <2>2, <2>3, <2>4
<1> QED
  BY <1>1, <1>2

LEMMA SettingOwned ==
  ASSUME SettingsTypeOK, NEW c \in Conns, Setting(c), ~dangling', ~dangling => OwnedBy(conn, open)
  PROVE  OwnedBy(conn', open')
<1>1. conn[c] \in ConnRecord /\ c \in DOMAIN conn /\ conn[c] # Null
  BY SettingCases, NullIsNoRecord DEF SettingsTypeOK
<1>2. HeldBy(conn[c]) = Held(conn[c])
  BY <1>1 DEF HeldBy
<1>3. CASE \E x \in Same(conn[c]) : Sets(c, x)
  <2>1. PICK x \in Same(conn[c]) : Sets(c, x)
    BY <1>3
  <2>2. x # Null /\ x.to = conn[c].to /\ x.from = conn[c].from
    BY NullIsNoRecord DEF Same
  <2>3. OwnedBy(conn, open) /\ open' = open /\ conn' = [conn EXCEPT ![c] = x]
    BY <2>1 DEF Sets, Puts
  <2> QED
    BY <1>1, <2>2, <2>3, OwnedSame
<1>4. CASE CddbSetCharset(c)
  <2>1. PICK to \in Handles \ Closed(c), from \in Handles \ Closed(c) :
          /\ to # from
          /\ Puts(c, [conn[c] EXCEPT !.to = to, !.from = from])
          /\ open' = Closed(c) \cup {to, from}
          /\ UNCHANGED dangling
    BY <1>4 DEF CddbSetCharset
  <2> DEFINE x == [conn[c] EXCEPT !.to = to, !.from = from]
  <2>2. x \in ConnRecord /\ x.to = to /\ x.from = from
    BY <1>1 DEF ConnRecord
  <2>3. conn' = [conn EXCEPT ![c] = x] /\ OwnedBy(conn, open)
    BY <2>1 DEF Puts
  <2>4. x # Null
    BY <2>2, NullIsNoRecord
  <2> HIDE DEF x
  <2>5. HeldBy(x) = {to, from}
    BY <2>2, <2>4, SrchAssumption DEF HeldBy, Held
  <2>6. HeldBy(x) \cap (open \ HeldBy(conn[c])) = {}
    BY <1>2, <2>5 DEF Closed
  <2>7. open' = (open \ HeldBy(conn[c])) \cup HeldBy(x)
    BY <1>2, <2>1, <2>5 DEF Closed
  <2> QED
    BY <1>1, <2>1, <2>2, <2>3, <2>6, <2>7, OwnedReplace
<1>5. CASE CddbSetCharsetUnknown(c)
  <2> DEFINE x == [conn[c] EXCEPT !.to = Null]
  <2>1. conn[c].from = Null /\ OwnedBy(conn, open)
    BY <1>5 DEF CddbSetCharsetUnknown
  <2>2. x.to = Null /\ x.from = Null
    BY <1>1, <2>1 DEF ConnRecord
  <2>3. conn' = [conn EXCEPT ![c] = x] /\ open' = open \ HeldBy(conn[c])
    BY <1>2, <1>5 DEF CddbSetCharsetUnknown, Puts, Closed
  <2> HIDE DEF x
  <2> QED
    BY <1>1, <2>1, <2>2, <2>3, OwnedNone
<1>6. CASE CddbSetCharsetOneWay(c)
  <2> DEFINE x == [conn[c] EXCEPT !.to = Null, !.from = Null]
  <2>1. x.to = Null /\ x.from = Null
    BY <1>1 DEF ConnRecord
  <2>2. conn' = [conn EXCEPT ![c] = x] /\ open' = open \ HeldBy(conn[c]) /\ OwnedBy(conn, open)
    BY <1>2, <1>6 DEF CddbSetCharsetOneWay, Puts, Closed
  <2> HIDE DEF x
  <2> QED
    BY <1>1, <2>1, <2>2, OwnedNone
<1> QED
  BY <1>3, <1>4, <1>5, <1>6, SettingCases

LEMMA SettingsOwned ==
  ASSUME SettingsTypeOK, SettingsNext, ~dangling', ~dangling => OwnedBy(conn, open)
  PROVE  OwnedBy(conn', open')
<1>1. ConnTypeOK
  BY DEF SettingsTypeOK, ConnTypeOK
<1>2. DOMAIN conn = Conns \cup {Srch}
  BY <1>1 DEF ConnTypeOK
<1>3. CASE LibcddbInit
  <2>1. OwnedBy(conn, open) /\ conn' = Initialized /\ open' = open
    BY <1>3 DEF LibcddbInit
  <2> QED
    BY <1>1, <2>1, OwnedInitialized
<1>4. CASE LibcddbShutdown
  <2>1. /\ OwnedBy(conn, open) /\ conn[Srch] # Null
        /\ open' = open \ Held(conn[Srch]) /\ conn' = [conn EXCEPT ![Srch] = Null]
    BY <1>1, <1>4 DEF LibcddbShutdown, ConnTypeOK
  <2>2. HeldBy(conn[Srch]) = Held(conn[Srch])
    BY <2>1 DEF HeldBy
  <2>3. OwnedBy([conn EXCEPT ![Srch] = Null], open \ HeldBy(conn[Srch]))
    BY <1>2, <2>1, OwnedNone
  <2> QED
    BY <2>1, <2>2, <2>3
<1>5. ASSUME NEW c \in Conns, CddbNew(c) PROVE OwnedBy(conn', open')
  <2>1. /\ OwnedBy(conn, open) /\ conn[c] = Null /\ open' = open
        /\ conn' = [Initialized EXCEPT ![c] = NewConn]
    BY <1>5 DEF CddbNew
  <2>2. OwnedBy(Initialized, open)
    BY <1>1, <2>1, OwnedInitialized
  <2>3. Initialized[c] = Null /\ c \in DOMAIN Initialized
    BY <1>1, <2>1, InitializedTyped
  <2>4. open \ HeldBy(Initialized[c]) = open
    BY <2>3 DEF HeldBy
  <2>5. OwnedBy([Initialized EXCEPT ![c] = NewConn], open \ HeldBy(Initialized[c]))
    BY <2>2, <2>3, NewConnTyped, OwnedNone
  <2> QED
    BY <2>1, <2>4, <2>5
<1>6. ASSUME NEW c \in Conns, CddbDestroy(c) PROVE OwnedBy(conn', open')
  <2>1. /\ OwnedBy(conn, open) /\ conn[c] # Null
        /\ open' = open \ Held(conn[c]) /\ conn' = [conn EXCEPT ![c] = Null]
    BY <1>6 DEF CddbDestroy
  <2>2. HeldBy(conn[c]) = Held(conn[c])
    BY <2>1 DEF HeldBy
  <2>3. OwnedBy([conn EXCEPT ![c] = Null], open \ HeldBy(conn[c]))
    BY <1>2, <2>1, OwnedNone
  <2> QED
    BY <2>1, <2>2, <2>3
<1>7. ASSUME NEW x, Site(x) PROVE OwnedBy(conn', open')
  BY <1>7 DEF Site
<1>8. ASSUME NEW y, \/ CddbSiteParse(y) \/ CddbSiteSetAddress(y, 8880)
                    \/ CddbSiteSetProtocol(y) \/ CddbSiteSetQueryPath(y)
      PROVE  OwnedBy(conn', open')
  BY <1>7, <1>8 DEF CddbSiteParse, CddbSiteSetAddress, CddbSiteSetProtocol, CddbSiteSetQueryPath
<1> QED
  BY <1>3, <1>4, <1>5, <1>6, <1>8, SettingOwned DEF SettingsNext

\* Every conversion descriptor that is open belongs to one connection, and none that a
\* connection has is closed, whatever is set, searched and destroyed in which order, as
\* long as cddb_set_charset has not failed at its first iconv_open (cddb_conn.c).
THEOREM DescriptorsOwned == SearchSpec => []HandlesLive
<1> DEFINE Inv == SearchInv /\ HandlesLive
<1>1. SearchInit => Inv
  <2> SUFFICES ASSUME SearchInit PROVE Inv
    OBVIOUS
  <2>1. PICK p \in [Conns -> Profiles] :
          conn = [c \in Conns \cup {Srch} |-> IF c = Srch THEN SearchConn ELSE p[c]]
    BY DEF SearchInit, SettingsInit
  <2>2. \A c \in DOMAIN conn : conn[c].to = Null /\ conn[c].from = Null
    BY <2>1, ProfilesAssumption, SearchConnTyped
  <2>3. \A c \in DOMAIN conn : HeldBy(conn[c]) = {}
    BY <2>2 DEF HeldBy, Held
  <2>4. open = {}
    BY DEF SearchInit, SettingsInit
  <2>5. OwnedBy(conn, open)
    BY <2>2, <2>3, <2>4 DEF OwnedBy
  <2> QED
    BY <2>5, HandlesOwned, SearchInitInv
<1>2. Inv /\ [SearchNext]_srchVars => Inv'
  <2> SUFFICES ASSUME Inv, [SearchNext]_srchVars PROVE Inv'
    OBVIOUS
  <2>1. SearchInv' /\ SettingsTypeOK
    BY SearchNextTyped DEF SearchInv, SearchTypeOK
  <2>2. ~dangling => OwnedBy(conn, open)
    BY HandlesOwned
  <2>3. CASE SearchStep
    <3>1. PICK x \in Same(conn[Srch]) : conn' = [conn EXCEPT ![Srch] = x]
      BY <2>3, SearchTouches
    <3>2. x # Null /\ x.to = conn[Srch].to /\ x.from = conn[Srch].from
      BY NullIsNoRecord DEF Same
    <3>3. conn[Srch] # Null /\ Srch \in DOMAIN conn
      BY <2>1, <2>3, SearchTouches, NullIsNoRecord DEF SettingsTypeOK
    <3>4. OwnedBy(conn, open) => OwnedBy([conn EXCEPT ![Srch] = x], open)
      BY <3>2, <3>3, OwnedSame
    <3>5. open' = open /\ dangling' = dangling
      BY <2>3, SearchTouches
    <3> QED
      BY <2>1, <2>2, <3>1, <3>4, <3>5, HandlesOwned
  <2>4. CASE SettingsNext
    BY <2>1, <2>2, <2>4, SettingsOwned, HandlesOwned
  <2>5. CASE UNCHANGED srchVars
    BY <2>1, <2>2, <2>5, HandlesOwned DEF srchVars, settings
  <2> QED
    BY <2>3, <2>4, <2>5 DEF SearchNext, SearchStep
<1>3. Inv => HandlesLive
  OBVIOUS
<1> HIDE DEF Inv
<1> QED
  BY <1>1, <1>2, <1>3, PTL DEF SearchSpec

----------------------------------------------------------------------------
(* Where a search goes.                                                    *)

WasPeer == IF was = Null THEN <<"freedb", 80>> ELSE was.peer
WasAuth == IF was = Null THEN Null ELSE was.auth

\* cddb_search_conn is set up for the page of freedb, or for the proxy that was last
\* taken over.
SetUp(s) == s.http /\ s.path = "search" /\ s.auth = WasAuth /\ Peer(s) = WasPeer

ViaInv ==
  /\ ~initialized => was = Null
  /\ conn[Srch] # Null => SetUp(conn[Srch])
  /\ searching # Null /\ stage # "connect" => late \/ conn[Srch].socket = Peer(conn[Srch])
  /\ searching # Null /\ conn[searching].proxied => was.peer = Peer(conn[searching])
  /\ searching = Null /\ ret = "found" /\ initialized => conn[Srch].socket = Null

LEMMA ClonedFields ==
  ASSUME NEW x \in ConnRecord, NEW y \in ConnRecord
  PROVE  /\ ~y.proxied => ClonedProxy(x, y) = x
         /\ y.proxied => /\ ClonedProxy(x, y).http
                         /\ ClonedProxy(x, y).path = x.path
                         /\ ClonedProxy(x, y).auth = y.auth
                         /\ Peer(ClonedProxy(x, y)) = Peer(y)
<1>1. CASE ~y.proxied
  BY <1>1 DEF ClonedProxy
<1>2. CASE y.proxied
  <2> DEFINE z == [x EXCEPT !.proxy = y.proxy, !.proxy_port = y.proxy_port, !.auth = y.auth,
                            !.proxied = TRUE, !.http = TRUE]
  <2>1. ClonedProxy(x, y) = z
    BY <1>2 DEF ClonedProxy
  <2>2. z.http /\ z.proxied
    BY DEF ConnRecord
  <2>3. z.path = x.path /\ z.auth = y.auth /\ z.proxy = y.proxy /\ z.proxy_port = y.proxy_port
    BY DEF ConnRecord
  <2> HIDE DEF z
  <2> QED
    BY <1>2, <2>1, <2>2, <2>3 DEF Peer
<1> QED
  BY <1>1, <1>2

LEMMA SocketFields ==
  ASSUME NEW x \in ConnRecord, NEW p \in Addresses \cup {Null}
  PROVE  /\ SetUp(x) => SetUp([x EXCEPT !.socket = p])
         /\ Peer([x EXCEPT !.socket = p]) = Peer(x)
         /\ [x EXCEPT !.socket = p].socket = p
<1> DEFINE z == [x EXCEPT !.socket = p]
<1>1. /\ z.path = x.path /\ z.auth = x.auth /\ z.server = x.server /\ z.port = x.port
      /\ z.proxy = x.proxy /\ z.proxy_port = x.proxy_port /\ z.socket = p
  BY DEF ConnRecord
<1>2. z.http = x.http /\ z.proxied = x.proxied
  BY DEF ConnRecord
<1> HIDE DEF z
<1>3. Peer(z) = Peer(x)
  BY <1>1, <1>2 DEF Peer
<1>4. SetUp(x) => SetUp(z)
  BY <1>1, <1>2, <1>3 DEF SetUp
<1>5. z.socket = p
  BY <1>1
<1> QED
  BY <1>3, <1>4, <1>5 DEF z

\* Nothing the application sets is in cddb_search_conn: it is made and unmade with the
\* library.
LEMMA SettingsLeaveSearch ==
  ASSUME SettingsTypeOK, SettingsNext
  PROVE  \/ conn'[Srch] = conn[Srch] /\ initialized' = initialized
         \/ conn'[Srch] = Null /\ ~initialized'
         \/ ~initialized /\ conn'[Srch] = SearchConn /\ initialized'
<1>1. ConnTypeOK /\ Srch \notin Conns
  BY SrchAssumption DEF SettingsTypeOK, ConnTypeOK
<1> DEFINE Goal == \/ conn'[Srch] = conn[Srch] /\ initialized' = initialized
                   \/ conn'[Srch] = Null /\ ~initialized'
                   \/ ~initialized /\ conn'[Srch] = SearchConn /\ initialized'
<1>2. CASE LibcddbInit
  <2>1. conn'[Srch] = Initialized[Srch] /\ initialized'
    BY <1>2 DEF LibcddbInit
  <2> QED
    BY <1>1, <2>1, InitializedTyped DEF ConnTypeOK
<1>3. CASE LibcddbShutdown
  BY <1>1, <1>3 DEF LibcddbShutdown, ConnTypeOK
<1>4. ASSUME NEW c \in Conns, CddbNew(c) PROVE Goal
  <2>1. conn'[Srch] = Initialized[Srch] /\ initialized'
    BY <1>1, <1>4 DEF CddbNew
  <2> QED
    BY <1>1, <2>1, InitializedTyped DEF ConnTypeOK
<1>5. ASSUME NEW c \in Conns, CddbDestroy(c) PROVE Goal
  BY <1>1, <1>5 DEF CddbDestroy, ConnTypeOK
<1>6. ASSUME NEW c \in Conns, NEW x, Puts(c, x) PROVE Goal
  BY <1>1, <1>6 DEF Puts, ConnTypeOK
<1>7. ASSUME NEW c \in Conns, Setting(c) PROVE Goal
  <2>1. \E x : Puts(c, x)
    BY <1>7, SettingCases
    DEF Sets, CddbSetCharset, CddbSetCharsetUnknown, CddbSetCharsetOneWay
  <2> QED
    BY <1>6, <2>1
<1>8. ASSUME NEW y, \/ CddbSiteParse(y) \/ CddbSiteSetAddress(y, 8880)
                    \/ CddbSiteSetProtocol(y) \/ CddbSiteSetQueryPath(y)
      PROVE  Goal
  BY <1>8 DEF CddbSiteParse, CddbSiteSetAddress, CddbSiteSetProtocol, CddbSiteSetQueryPath, Site
<1> QED
  BY <1>2, <1>3, <1>4, <1>5, <1>7, <1>8 DEF SettingsNext

LEMMA SearchConnSetUp ==
  ASSUME was = Null
  PROVE  SetUp(SearchConn) /\ SearchConn.socket = Null
<1>1. Peer(SearchConn) = <<"freedb", 80>>
  BY SearchConnTyped DEF Peer
<1> QED
  BY <1>1, SearchConnTyped DEF SetUp, WasPeer, WasAuth

LEMMA SettingsNextVia ==
  ASSUME SearchInv, ViaInv, SettingsNext, was' = (IF initialized' THEN was ELSE Null),
         UNCHANGED <<searching, query_data, disc, page, read, stage, searches, ret, late>>
  PROVE  ViaInv'
<1>1. searching = Null /\ searching' = Null
  BY SettingsCounted DEF Counted
<1>2. SettingsTypeOK
  BY DEF SearchInv, SearchTypeOK
<1>3. initialized <=> conn[Srch] # Null
  BY <1>2 DEF SettingsTypeOK
<1>4. CASE conn'[Srch] = conn[Srch] /\ initialized' = initialized
  <2>1. was' = was
    BY <1>4 DEF ViaInv
  <2>2. conn[Srch] # Null => SetUp(conn[Srch])'
    BY <1>4, <2>1 DEF ViaInv, SetUp, WasPeer, WasAuth, Peer
  <2> QED
    BY <1>1, <1>4, <2>1, <2>2 DEF ViaInv
<1>5. CASE conn'[Srch] = Null /\ ~initialized'
  BY <1>1, <1>5 DEF ViaInv
<1>6. CASE ~initialized /\ conn'[Srch] = SearchConn /\ initialized'
  <2>1. was = Null /\ was' = Null
    BY <1>6 DEF ViaInv
  <2>2. SetUp(SearchConn)' /\ SearchConn.socket = Null
    BY <2>1, SearchConnSetUp DEF SetUp, WasPeer, WasAuth, SearchConn, NewConn, Peer
  <2>3. SetUp(conn[Srch])'
    BY <1>6, <2>2 DEF SetUp, WasPeer, WasAuth, Peer
  <2> QED
    BY <1>1, <1>6, <2>1, <2>2, <2>3 DEF ViaInv
<1> QED
  BY <1>2, <1>4, <1>5, <1>6, SettingsLeaveSearch

LEMMA SearchStepVia ==
  ASSUME SearchInv, ViaInv, SearchStep
  PROVE  ViaInv'
<1> DEFINE s == conn[Srch]
<1>1. s \in ConnRecord /\ s # Null /\ SetUp(s) /\ initialized /\ initialized'
  <2>1. initialized <=> conn[Srch] # Null
    BY DEF SearchInv, SearchTypeOK, SettingsTypeOK
  <2>2. s \in ConnRecord /\ s # Null /\ initialized' = initialized
    BY SearchTouches, NullIsNoRecord
  <2> QED
    BY <2>1, <2>2 DEF ViaInv
<1>2. conn \in [Conns \cup {Srch} -> ConnRecord \cup {Null}] /\ Srch \notin Conns /\ Null \notin Conns
  BY SrchAssumption DEF SearchInv, SearchTypeOK, SettingsTypeOK
<1>3. searching \in Conns \cup {Null}
  BY DEF SearchInv, SearchTypeOK
<1>4. Peer(s) \in Addresses
  BY <1>1, ClonedTyped
<1>5. ASSUME UNCHANGED was, UNCHANGED conn
      PROVE  conn'[Srch] # Null /\ SetUp(conn[Srch])'
  BY <1>1, <1>5 DEF SetUp, WasPeer, WasAuth, Peer
<1>6. ASSUME UNCHANGED was, NEW p \in Addresses \cup {Null}, Socket(p)
      PROVE  /\ conn'[Srch] # Null /\ SetUp(conn[Srch])'
             /\ conn'[Srch].socket = p /\ Peer(conn'[Srch]) = Peer(s)
             /\ \A c \in Conns : conn'[c] = conn[c]
  <2>1. conn'[Srch] = [s EXCEPT !.socket = p] /\ \A c \in Conns : conn'[c] = conn[c]
    BY <1>2, <1>6 DEF Socket
  <2>2. /\ SetUp([s EXCEPT !.socket = p])
        /\ Peer([s EXCEPT !.socket = p]) = Peer(s)
        /\ [s EXCEPT !.socket = p].socket = p
    BY <1>1, SocketFields
  <2>3. [s EXCEPT !.socket = p] \in ConnRecord
    BY <1>1, SetSocket DEF Same
  <2>4. SetUp(conn'[Srch])
    BY <2>1, <2>2
  <2>5. SetUp(conn[Srch])'
    BY <1>6, <2>4 DEF SetUp, WasPeer, WasAuth, Peer
  <2> QED
    BY <2>1, <2>2, <2>3, <2>5, NullIsNoRecord
<1>7. ASSUME NEW c \in Conns, SearchStarts(c) PROVE ViaInv'
  <2>1. conn[c] \in ConnRecord /\ c # Null
    BY <1>2, <1>7 DEF SearchStarts
  <2>2. conn'[Srch] = ClonedProxy(s, conn[c]) /\ conn'[c] = conn[c]
    BY <1>2, <1>7 DEF SearchStarts
  <2>3. searching' = c /\ stage' = "connect" /\ ret' = "none"
    BY <1>7 DEF SearchStarts
  <2>4. CASE ~conn[c].proxied
    <3>1. was' = was /\ conn'[Srch] = s
      BY <1>1, <1>7, <2>1, <2>2, <2>4, ClonedFields DEF SearchStarts
    <3>2. SetUp(conn[Srch])'
      BY <1>1, <3>1 DEF SetUp, WasPeer, WasAuth, Peer
    <3> QED
      BY <1>1, <2>1, <2>2, <2>3, <2>4, <3>2 DEF ViaInv
  <2>5. CASE conn[c].proxied
    <3>1. was' = [peer |-> Peer(conn[c]), auth |-> conn[c].auth]
      BY <1>7, <2>5 DEF SearchStarts
    <3>2. was' # Null
      BY <2>1, <3>1, ClonedTyped, NullIsNoProxy
    <3>3. was'.peer = Peer(conn[c]) /\ was'.auth = conn[c].auth
      BY <3>1
    <3>4. /\ conn'[Srch].http /\ conn'[Srch].path = "search"
          /\ conn'[Srch].auth = conn[c].auth /\ Peer(conn'[Srch]) = Peer(conn[c])
      BY <1>1, <2>1, <2>2, <2>5, ClonedFields DEF SetUp
    <3>5. SetUp(conn[Srch])'
      BY <3>2, <3>3, <3>4 DEF SetUp, WasPeer, WasAuth, Peer
    <3>6. was'.peer = Peer(conn'[c])
      BY <2>2, <3>3
    <3> QED
      BY <1>1, <2>1, <2>2, <2>3, <3>5, <3>6 DEF ViaInv, Peer
  <2> QED
    BY <2>4, <2>5
<1>8. CASE SearchConnects
  <2>1. UNCHANGED <<searching, was, ret>> /\ searching # Null
    BY <1>8 DEF SearchConnects, InSearch, At
  <2>2. CASE s.socket # Null
    <3>1. late' = TRUE /\ UNCHANGED conn
      BY <1>8, <2>2 DEF SearchConnects
    <3> QED
      BY <1>1, <1>5, <2>1, <3>1 DEF ViaInv, Peer
  <2>3. CASE s.socket = Null
    <3>1. Socket(Peer(s))
      BY <1>8, <2>3 DEF SearchConnects
    <3>2. /\ conn'[Srch] # Null /\ SetUp(conn[Srch])'
          /\ conn'[Srch].socket = Peer(conn'[Srch])
          /\ conn'[searching] = conn[searching]
      BY <1>3, <1>4, <1>6, <2>1, <3>1
    <3> QED
      BY <1>1, <2>1, <3>2 DEF ViaInv, Peer
  <2> QED
    BY <2>2, <2>3
<1>9. CASE SearchConnectFails
  <2>1. searching' = Null /\ ret' = "failed" /\ UNCHANGED was
    BY <1>9 DEF SearchConnectFails, SearchFails, InSearch
  <2>2. conn'[Srch] # Null /\ SetUp(conn[Srch])'
    BY <1>4, <1>5, <1>6, <1>9, <2>1 DEF SearchConnectFails
  <2> QED
    BY <1>1, <2>1, <2>2 DEF ViaInv
<1>10. CASE SearchSends
  <2>1. UNCHANGED <<conn, searching, was, ret, late>> /\ searching # Null /\ stage # "connect"
    BY <1>10 DEF SearchSends, InSearch, At
  <2> QED
    BY <1>1, <1>5, <2>1 DEF ViaInv, Peer
<1>11. CASE SearchSendFails
  <2>1. searching' = Null /\ ret' = "failed" /\ UNCHANGED was /\ Socket(Null)
    BY <1>11 DEF SearchSendFails, SearchFails, InSearch
  <2>2. conn'[Srch] # Null /\ SetUp(conn[Srch])'
    BY <1>6, <2>1
  <2> QED
    BY <1>1, <2>1, <2>2 DEF ViaInv
<1>12. CASE SearchReads
  <2>1. UNCHANGED <<conn, searching, was, ret, late, stage>> /\ searching # Null
    BY <1>12 DEF SearchReads, InSearch, At
  <2> QED
    BY <1>1, <1>5, <2>1 DEF ViaInv, Peer
<1>13. CASE SearchEnds
  <2>1. searching' = Null /\ UNCHANGED was /\ Socket(Null)
    BY <1>13 DEF SearchEnds, InSearch
  <2>2. conn'[Srch] # Null /\ SetUp(conn[Srch])' /\ conn'[Srch].socket = Null
    BY <1>6, <2>1
  <2> QED
    BY <1>1, <2>1, <2>2 DEF ViaInv
<1> QED
  BY <1>7, <1>8, <1>9, <1>10, <1>11, <1>12, <1>13 DEF SearchStep

LEMMA SearchInitVia ==
  ASSUME SearchInit
  PROVE  ViaInv
<1>1. was = Null /\ searching = Null /\ ret = "none"
  BY DEF SearchInit
<1>2. PICK p \in [Conns -> Profiles] :
        conn = [c \in Conns \cup {Srch} |-> IF c = Srch THEN SearchConn ELSE p[c]]
  BY DEF SearchInit, SettingsInit
<1>3. conn[Srch] = SearchConn
  BY <1>2
<1> QED
  BY <1>1, <1>3, SearchConnSetUp DEF ViaInv

\* A search goes through the proxy of its connection, or of the last one that searched
\* with a proxy since the library was initialized, and only a search that finds a socket
\* left by one that failed goes elsewhere (cddb_search, cddb_clone_proxy, cddb_connect).
THEOREM SearchGoesVia == SearchSpec => []SearchVia
<1> DEFINE Inv == SearchInv /\ ViaInv
<1>1. SearchInit => Inv
  BY SearchInitInv, SearchInitVia
<1>2. Inv /\ [SearchNext]_srchVars => Inv'
  <2> SUFFICES ASSUME Inv, [SearchNext]_srchVars PROVE Inv'
    OBVIOUS
  <2>1. SearchInv'
    BY SearchNextTyped
  <2>2. CASE SearchStep
    BY <2>1, <2>2, SearchStepVia
  <2>3. CASE /\ SettingsNext /\ was' = (IF initialized' THEN was ELSE Null)
             /\ UNCHANGED <<searching, query_data, disc, page, read, stage, searches, ret, late>>
    BY <2>1, <2>3, SettingsNextVia
  <2>4. CASE UNCHANGED srchVars
    BY <2>1, <2>4 DEF srchVars, settings, search, ViaInv, SetUp, WasPeer, WasAuth, Peer
  <2> QED
    BY <2>2, <2>3, <2>4 DEF SearchNext, SearchStep
<1>3. Inv => SearchVia
  <2> SUFFICES ASSUME Inv PROVE SearchVia
    OBVIOUS
  <2>1. searching # Null => conn[Srch] # Null
    BY DEF SearchInv, SearchTypeOK, SettingsTypeOK
  <2>2. searching # Null => SetUp(conn[Srch])
    BY <2>1 DEF ViaInv
  <2> QED
    BY <2>2 DEF ViaInv, SearchVia, SetUp, WasPeer, WasAuth
<1> HIDE DEF Inv
<1> QED
  BY <1>1, <1>2, <1>3, PTL DEF SearchSpec

----------------------------------------------------------------------------
(* What a search finds.                                                    *)

\* The list is empty until the page comes; then it holds the matches that have been read.
FoundInv ==
  /\ searching # Null /\ stage # "page" => query_data[searching] = <<>>
  /\ searching # Null /\ stage = "page" => InOrder(query_data[searching], MatchesRead)

\* The matches of the lines that have been read, and of one more.
LEMMA ReadMatches ==
  ASSUME SearchInv
  PROVE  /\ MatchesRead \in Seq(Matches)
         /\ read = 0 => MatchesRead = <<>>
<1>1. page \in Pages \cup {<<>>} /\ read \in 0..Len(page)
  BY DEF SearchInv, SearchTypeOK
<1>2. page \in Seq(Seq(Matches))
  BY PageType
<1>3. Len(page) \in Nat /\ 0 \in 0..Len(page)
  BY <1>2
<1>4. PICK f \in [0..Len(page) -> Seq(Matches)] : JoinsUp(page, f)
  BY <1>2, Joins
<1>5. \A i \in 0..Len(page) : FlattenSeq(SubSeq(page, 1, i)) = f[i]
  BY <1>2, <1>4, FlattenIs
<1>6. MatchesRead = f[read] /\ f[read] \in Seq(Matches)
  BY <1>1, <1>4, <1>5 DEF MatchesRead
<1>7. f[0] = <<>>
  BY <1>4 DEF JoinsUp
<1> QED
  BY <1>6, <1>7

\* The same in the next state.
MatchesTyped == MatchesRead \in Seq(Matches) /\ (read = 0 => MatchesRead = <<>>)

LEMMA ReadTyped == SearchInv => MatchesTyped
  BY ReadMatches DEF MatchesTyped

\* Every step of a search keeps the order.
LEMMA SearchStepFinds ==
  ASSUME SearchInv, SearchInv', FoundInv, SearchStep
  PROVE  FoundInv'
<1>1. /\ query_data \in [Conns -> Seq(DiscData)] /\ searching \in Conns \cup {Null}
      /\ Null \notin Conns
  BY SrchAssumption DEF SearchInv, SearchTypeOK
<1>2. ASSUME NEW c \in Conns, SearchStarts(c) PROVE FoundInv'
  <2>1. searching' = c /\ stage' = "connect" /\ query_data' = [query_data EXCEPT ![c] = <<>>]
    BY <1>2 DEF SearchStarts
  <2> QED
    BY <1>1, <2>1 DEF FoundInv
<1>3. CASE SearchConnects
  BY <1>3 DEF SearchConnects, At, FoundInv
<1>4. CASE SearchConnectFails \/ SearchSendFails \/ SearchEnds
  <2>1. searching' = Null
    BY <1>4 DEF SearchConnectFails, SearchSendFails, SearchFails, SearchEnds
  <2> QED
    BY <2>1 DEF FoundInv
<1>5. CASE SearchSends
  <2>1. /\ searching # Null /\ stage = "send" /\ stage' = "page" /\ read' = 0
        /\ UNCHANGED <<searching, query_data>>
    BY <1>5 DEF SearchSends, At
  <2>2. MatchesTyped'
    BY ReadTyped, PTL
  <2>3. MatchesRead' = <<>>
    BY <2>1, <2>2 DEF MatchesTyped
  <2>4. query_data'[searching'] = <<>>
    BY <2>1 DEF FoundInv
  <2>5. InOrder(<<>>, <<>>)
    <3>1. Len(<<>>) = 0 /\ 1..0 = {}
      OBVIOUS
    <3> QED
      BY <3>1 DEF InOrder
  <2> QED
    BY <2>1, <2>3, <2>4, <2>5 DEF FoundInv
<1>6. CASE SearchReads
  <2> DEFINE had == query_data[searching]
             line == page[read + 1]
  <2>1. searching \in Conns /\ stage = "page" /\ searching' = searching /\ stage' = stage
    BY <1>1, <1>6 DEF SearchReads, At
  <2>2. had \in Seq(DiscData) /\ line \in Seq(Matches)
    BY <1>1, <1>6, <2>1, ReadsLine
  <2>3. InOrder(had, MatchesRead) /\ MatchesRead \in Seq(Matches)
    BY <1>1, <2>1, ReadMatches DEF FoundInv
  <2>4. query_data'[searching'] = ParseSearchData(had, line)
    BY <1>1, <1>6, <2>1, ReadsLine
  <2>5. MatchesRead' = MatchesRead \o line
    <3>1. /\ read \in Nat /\ read' = read + 1 /\ read + 1 <= Len(page) /\ page' = page
          /\ page \in Seq(Seq(Matches))
      BY <1>6, ReadsLine
    <3>2. FlattenSeq(SubSeq(page, 1, read + 1)) = FlattenSeq(SubSeq(page, 1, read)) \o line
      BY <3>1, FlattenNext
    <3> QED
      BY <3>1, <3>2 DEF MatchesRead
  <2> HIDE DEF had, line
  <2>6. InOrder(ParseSearchData(had, line), MatchesRead \o line)
    BY <2>2, <2>3, LineInOrder
  <2> QED
    BY <2>1, <2>4, <2>5, <2>6 DEF FoundInv
<1> QED
  BY <1>2, <1>3, <1>4, <1>5, <1>6 DEF SearchStep

\* A search gives every match of the lines it has read once, in the order of the page, with
\* the names of the last match up to it that has some, however many stand in a line, for
\* any pages (cddb_parse_search_data).
THEOREM SearchFindsInOrder == SearchSpec => []SearchInOrder
<1>1. SearchInit => SearchInv /\ FoundInv
  <2>1. SearchInit => FoundInv
    BY DEF SearchInit, FoundInv
  <2> QED
    BY <2>1, SearchInitInv
<1>2. SearchInv /\ FoundInv /\ [SearchNext]_srchVars => SearchInv' /\ FoundInv'
  <2> SUFFICES ASSUME SearchInv, FoundInv, [SearchNext]_srchVars PROVE SearchInv' /\ FoundInv'
    OBVIOUS
  <2>1. SearchInv'
    BY SearchNextTyped
  <2>2. CASE SearchStep
    BY <2>1, <2>2, SearchStepFinds
  <2>3. CASE /\ SettingsNext /\ was' = (IF initialized' THEN was ELSE Null)
             /\ UNCHANGED <<searching, query_data, disc, page, read, stage, searches, ret, late>>
    BY <2>1, <2>3 DEF FoundInv, MatchesRead
  <2>4. CASE UNCHANGED srchVars
    BY <2>1, <2>4 DEF srchVars, search, FoundInv, MatchesRead
  <2> QED
    BY <2>2, <2>1, <2>3, <2>4 DEF SearchNext, SearchStep
<1>3. SearchInv /\ FoundInv => SearchInOrder
  <2> SUFFICES ASSUME SearchInv, FoundInv, searching # Null, stage = "page"
               PROVE  SearchInOrder
    BY DEF SearchInOrder
  <2> DEFINE found == query_data[searching]
             ms == MatchesRead
  <2>1. found \in Seq(DiscData)
    BY DEF SearchInv, SearchTypeOK
  <2>2. InOrder(found, ms)
    BY DEF FoundInv
  <2>3. DOMAIN found = 1..Len(ms) /\ Len(found) = Len(ms)
    BY <2>1, <2>2 DEF InOrder
  <2>4. \A i \in DOMAIN found : Answers(found, ms, i)
    BY <2>2, <2>3 DEF InOrder
  <2> HIDE DEF found, ms
  <2>5. \A i \in DOMAIN found :
          /\ found[i].category = CategoryOf(ms[i].category)
          /\ found[i].genre = <<ms[i].category>> /\ found[i].discid = ms[i].discid
          /\ \A j \in DOMAIN found :
               (j <= i /\ ms[j].kind # "again" /\ \A k \in (j + 1)..i : ms[k].kind = "again") =>
                 /\ found[i].artist = ms[j].artist
                 /\ found[i].title = IF ms[j].kind = "both" THEN ms[j].title ELSE ms[j].artist
    BY <2>3, <2>4 DEF Answers, Names
  <2> QED
    BY <2>3, <2>5 DEF SearchInOrder, found, ms
<1> QED
  BY <1>1, <1>2, <1>3, PTL DEF SearchSpec

=============================================================================
