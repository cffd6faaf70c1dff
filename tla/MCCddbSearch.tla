---------------------------- MODULE MCCddbSearch ----------------------------
(***************************************************************************)
(* CddbSearch with two connections, one of which may have a proxy.         *)
(***************************************************************************)
EXTENDS CddbSearch

CONSTANTS c1, c2, x1, x2, x3, x4

MCSymmetry == Permutations(Conns) \cup Permutations(Handles)

Proxied(host, u) ==
  [NewConn EXCEPT !.http = TRUE, !.proxied = TRUE, !.proxy = host, !.auth = Auth(u, u)]

MCHosts    == {"h1", "h2"}
MCPaths    == {"other"}
MCUsers    == {"u"}
MCProfiles == {NewConn, Proxied("h1", "u")}

MCSiteLines ==
  { [address |-> "h1", port |-> 888, protocol |-> "cddbp", query_path |-> "other"],
    [address |-> "h2", port |-> 80, protocol |-> "http", query_path |-> "other"],
    [address |-> "h2", port |-> 25, protocol |-> "smtp", query_path |-> "other"] }

Match(category, discid, kind, artist, title) ==
  [category |-> category, discid |-> discid, kind |-> kind, artist |-> artist, title |-> title]

Both  == Match("rock", {0}, "both", <<"a">>, <<"t">>)
One   == Match("jazz", {1}, "one", <<"s">>, Null)
Again == Match("polka", {2}, "again", Null, Null)

MCMatches == {Both, One, Again}

MCPages ==
  { <<>>, <<<<One>>>>, <<<<Both, Again>>, <<Again, One, Again>>>>,
    <<<<One, Both>>, <<>>, <<Again>>>> }

=============================================================================
