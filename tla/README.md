# libcddb in TLA+

libcddb is a C library for a freedb (CDDB) server: an application identifies
an audio CD, reads its entry, submits one, or lists mirror servers. The library
speaks the line-based CDDBP protocol on a TCP connection it keeps open, or the
same commands wrapped in HTTP requests, one connection each. Entries are cached
in a directory. There are no threads in the library: what makes it hard is
what is *on its way* between two calls, what a call that failed leaves behind
in the connection structure, and the cache directory, which processes share.

This directory holds a model of that program. Modules are checked with TLC on
small instances; theorems hold for every value of the constants and are checked
with TLAPS.

## The system

| component | state | operations | hard because | correct means |
|---|---|---|---|---|
| connection and commands (`lib/cddb_cmd.c`, `lib/cddb_conn.c`) | `cddb_conn_t`: socket, configured server, proxy, cache mode, error code | `cddb_connect`, `cddb_handshake`, `cddb_disconnect`, `cddb_send_cmd`, `cddb_get_response_code`; `cddb_read`, `cddb_query`, `cddb_album`, `cddb_write`, `cddb_sites`; the setters | time-outs, answers that come late, ways out of a function that leave a socket open, an error code every step resets | a call reads its own answer; a socket in use has shaken hands; an entry is sent only when asked for; a failure says so |
| network primitives (`lib/cddb_net.c`) | none beyond the socket, and a `jmp_buf` | `sock_fgets`, `sock_fwrite`, `sock_vfprintf`, `timeout_connect`, `timeout_gethostbyname` | partial reads and writes, a deadline over several system calls, `SIGALRM` | a line is whole or lost; what was sent is accounted for; every call returns |
| server and network | the server's session, lines in flight | greeting, answers, hanging up | not part of the repository | what the code relies on |
| linked list (`lib/ll.c`) | elements, first, last, count, iterator | `list_append`, `list_flush`, `list_get`, `list_first`, `list_next` | pointers to freed elements, counters | it behaves as a sequence with a cursor |
| result set (`query_data`) | a list of discs and its iterator | queries fill it, `cddb_query_next` walks it | the iterator outlives the list it belongs to | matches come once, in order, from the last query |
| local cache (`lib/cddb_cmd.c`) | files, the open `FILE`, `query_cache` | `cddb_cache_*`, the cached halves of read, write and query | several connections and processes, `stdio` buffers, crashes | an entry is one version; a hit can be read |
| record parser (`cddb_parse_record`, `cddb_write_data`) | parser state, disc, tracks | one line at a time | lines split anywhere, a disc that is used again, records cut short, conversions in place | what was written is read, and nothing else |
| discs and tracks (`lib/cddb_disc.c`, `lib/cddb_track.c`) | structures, the list of tracks, counter, iterator | add, get, set, append, copy, clone, lengths, disc id | pointers and counters, values computed from each other, three numbers in 32 bits | sequences of tracks with a cursor; a disc id has its parts |
| text search (`cddb_search`) | the shared `cddb_search_conn` | taking over the proxy, reading the page | one connection structure for all others | a search goes where its connection would; matches in order |
| settings, sites, library (`lib/cddb_conn.c`, `lib/cddb_site.c`, `lib/cddb.c`) | what the application sets; `libcddb_init` | setters, `cddb_set_site`, `cddb_set_charset`, `libcddb_shutdown` | descriptors that are replaced, functions that fail half-way | every descriptor has one owner |
| regular expressions, logging, error strings | patterns, messages | | | |
| example program and test scripts | | `cddb_query` and so on from the command line | | |

The application calls the commands; they call the network primitives, which
block on the socket; the parser reads lines from the socket or from the cached
file through the same function (`cddb_read_line`), and writes to the cached
file. `query_data` and `sites_data` are lists of `ll.c`.

## Modules

    CddbProtocol   error codes, commands, what each handler makes of each code
    CddbServer     the TCP connection and the servers (external)
    CddbConn       the connection structure and the commands  (extends both)
      MCCddbConn   answers the servers give in the runs
      CddbConnProofs   types, SyncInv and InSync, what a call leaves behind
    CddbStreamSpec what sock_fgets makes of a stream of bytes
    CddbNet        cddb_net.c, system call by system call; implements CddbStreamSpec
      CddbNetProofs
    CddbListSpec   a sequence with a cursor: what ll.c promises
    CddbList       ll.c, pointer by pointer; implements CddbListSpec
      MCCddbList
      CddbListProofs
    CddbMatches    query_data: the list as queries and cddb_query_next use it
                     (its theorems are in CddbListProofs)
      MCCddbMatches
    CddbCache      cached entries, the open FILE, query_cache
      CddbCacheProofs
      MCCddbCache
    CddbDiscData   the data of discs and tracks, disc ids
    CddbDiscSpec   discs as sequences of tracks with a cursor
    CddbDisc       structures and pointers of discs; implements CddbDiscSpec
      MCCddbDisc
      CddbDiscProofs
    CddbRecord     a record as it is written and read
      MCCddbRecord
      CddbRecordProofs
    CddbSettings   connection structures, what is set in them, sites
    CddbSearch     text searches over the shared connection  (extends CddbSettings)
      MCCddbSearch
      CddbSearchProofs
    CddbInduction  induction and recursion over Nat, for the proofs of CddbDisc and CddbSearch

**CddbConn.** `pc` is the place where the current call blocks: `"connect"`, the
three answers of the handshake, `"send"`, HTTP status and headers, the answer
to the command, the go-ahead and the verdict of a submission, the lines of a
record or list. An action is what the C function does between two such places,
with every assignment to the error code in its order. `CddbCall` covers what a
command checks and answers locally before it connects; `Starts` lists those
outcomes for each command. A line in flight is a record with the call it answers
in the field `for`; the code never sees that field. A time-out is a choice at
each read: `Unread` says what remains on the socket, which is everything, or
everything but the first part of a line that was being read. `clean` records
that no answer was abandoned on the current socket, and is a history variable,
as are `used`, `shook` and `sent`, the number of commands written to the socket. A
submission over HTTP is two messages, the headers and the entry behind them
(`TransmitPost`), of which a CDDBP server that gets them makes what it can.

**CddbServer.** What is outside `src/` is written from what the client does with
it: a CDDBP server greets, answers each request with a status line and perhaps
lines up to a dot, takes lines for an entry after 320, hangs up after some codes
and on idle clients; an HTTP server answers one request, with whatever is behind
its headers, and closes the connection. Lines may be lost
with the connection, never reordered (TCP). `Transmit` and `Close` are the
client's side of it.

**CddbNet** takes a step for each system call or turn of a loop. The clock counts
fractions of a second, because `time()` drops the fraction and `select()` does
not; it moves only while the process waits. A position in a message stands for
the byte at it, so that a byte sent twice is seen on the wire. A look-up goes
through `alarm(0)`, the handler, `setjmp`, `alarm`, `gethostbyname` and back,
and the signal, the library's or one of the application's, may come between any
two. The library's handler leaves by `longjmp`; `setjmp` saves no signal mask (glibc), so
`SIGALRM`, which is blocked while its handler runs, stays blocked in the process
from then on (`blocked`). `CddbStreamSpec` is the assumption `CddbConn` makes: whole lines, in order,
each once, and a failed read loses at most the beginning of one line.

**CddbList** has a cell for each element `calloc` may return; a freed cell may be
returned again. `list_flush` and the loop of `list_get` take a step for each
element. Reading through a pointer to a freed cell yields any pointer. The *rule
of use* is that the application calls `list_next` only after a `list_first`
that saw the current list; `RuledSpec` is the list under that rule.

**CddbMatches** shows who keeps that rule. It extends `CddbList` with the queries,
and with `Careful = TRUE` the application counts its matches as
`examples/do_query.c` does. A disc has a title and an artist, either of which may not
be set; `cddb_disc_copy` (`Merged`) copies what is set, into a new disc or into
the one that holds the match before.

**CddbCache** takes a step for each system call that others can see: the `stat`,
the `fopen`, each line that `stdio` may or may not have written yet, the
`fclose`. An entry is a sequence of lines and a line is the version it belongs
to. `Process` says which connections share a `query_cache`; the calls of one
process do not overlap. `marred` records the entries whose last writer was
stopped half-way.

**CddbDisc** has the pointers `tracks`, `next`, `prev`, `disc` (here `owner`), the
counter and the iterator as the C structures do, and one action per function,
with everything it sets: computing a disc id moves the iterator, setting an
offset may compute a length, copying adds tracks. A string is a sequence of
words, a disc id the set of its bits, so that the shifts and the `|` of
`cddb_disc_calc_discid` are sets. `origin` remembers where a length came from.
The refinement maps the pointers to a sequence and the iterator to a position;
`order` holds the sequence and `Chained` ties it to the pointers.

**CddbRecord.** `WriteData` is the record `cddb_write` makes; the other actions are
the states of `cddb_parse_record`, which hand a line they do not know on to the
next one: `Known` is the state that takes it, `Passes` the ones it goes through
and whose locals it resets. A word knows how often it was converted to the
server's character set more often than back. `Wrap` splits a line in two,
as servers do with long ones; `Spoil` puts a line where none is expected. `meant` is
the disc that was written and `before` the structure when the read began.

**CddbSettings** and **CddbSearch.** The structure of each connection, with what
`cddb_set_*`, `cddb_http_*`, `cddb_set_charset` and `cddb_set_site` change; `Srch` is
`cddb_search_conn`, made by `libcddb_init` (which `cddb_new` calls) and unmade by
`libcddb_shutdown`. A search takes over the proxy (`ClonedProxy`), connects unless
there is a socket, and reads the page line by line. `was` remembers the proxy
that was taken over last, `late` that a socket was found. A search belongs to one
thread: nothing is set while one is on its way.

Type invariants of `CddbList`, `CddbMatches` and `CddbCache` are not properties of
runs: `ListTypeOK` is a lemma of the proofs, `CacheTypeOK` the theorem `CacheTypes`.

## Runs

| run | question | bounds |
|---|---|---|
| safety | do requests and answers stay paired, over both protocols? do entries go where they are wanted? does an HTTP connection serve one command? does every error code tell what became of the socket? does every call return? | 2 servers, 3 calls of any command, lists of at most 1 line |
| net | are lines whole, messages accounted for, time-outs kept? does an alarm find a live frame? | 1 s of time-out in 2 ticks, 3 bytes from the server, a buffer of 3, messages of up to 3, one refusal |
| list | does `ll.c` implement a sequence with a cursor? do its loops end? | 3 cells, 2 values, indices -1 to 3 |
| counted | are the matches of a query given in order, whole, whatever is in the disc they go to? | 3 cells, 2 titles, 1 artist, either of them missing, 5 calls |
| faults | one connection, records cut short, rejected or lost; two directories | 2 lines, 2 versions, 1 crash |
| query | `query_cache` against a directory that two processes fill | 2 discs in one slot, 1 line |
| disc | do the pointers implement sequences of tracks? are computed values right? | 2 discs, 4 tracks with numbers from 0, bytes of 2 bits, 3 calls besides those that build a disc |
| record | is what a record says of a disc read as it was written? does the dot end it? | 2 contents, 2 faults or splits, 2 calls |
| search | where does a search go, what does it return, who owns the descriptors? | 2 connections, 4 descriptors, 2 settings, 2 searches, 4 pages |

Three calls are enough for a late answer to be met by the call after the one
that gave up and by the one after that; two lines are enough for an entry to be
cut in the middle, and two versions to be mixed; one crash, because nothing but
the directory survives it. The codes a server may answer in the runs
(`MCReplyCodes`) have one for each branch of each handler and one that no
handler lists. With a buffer of three a line can fit, fill the buffer and not
fit; two ticks are the least in which `time()` and `select()` differ. Bytes of
two bits let checksum, playing time and number of tracks overflow into each
other with four tracks. Two settings and two searches let what one connection
has set meet the search of the other.
Symmetry is used for discs and tracks, for connections and descriptors, and for
cells and titles, which the modules only compare, and only in runs without
liveness.

Three runs end in a counterexample: a place where the code does not do what a
document, a comment or an example says of it.

| run | what happens |
|---|---|
| handshake | after a connection attempt that failed, the socket counts as a connection and the next command goes out with no handshake |
| nomore | `cddb_query_next` walks freed elements when a query that did not set the iterator came last |
| invalid | an entry cut short is read as if it were whole; the branch that removes it is never taken |

There are more such places. Each of these configurations checks one sentence of the
repository, quoted at the property, and ends in a counterexample too; they are not
part of the regular runs.

| configuration | property | what happens |
|---|---|---|
| `MCCddbConn_entry.cfg` | `EntryAsked` | a submission over HTTP goes out on the socket to the CDDBP server that was configured before, the lines of the entry unasked |
| `MCCddbConn_everytime.cfg` | `HttpClosedEveryTime` | after 401, 402 or 403 an HTTP connection is used for the next command, which gets no answer |
| `MCCddbConn_offline.cfg` | `NeverContacts` | `cddb_sites` contacts the server while only cached data is wanted |
| `MCCddbNet_lookups.cfg` (of `CddbNet`) | `LookupsInTime` | once a look-up has timed out, the next one takes as long as the resolver does |
| `MCCddbMatches_overwrites.cfg` | `NextOverwrites` | a match without an artist leaves that of the match before in the disc it is copied to |
| `MCCddbCache_race.cfg` | `ReadKeepsEntries` | an entry that another process has cached after the `stat` is emptied by the `fopen` |
| `MCCddbDisc_numbers.cfg` | `TrackOfNumber` | track -1 is the first track |
| `MCCddbRecord_genre.cfg` | `GenreReadBack` | of a genre on two lines only the first is read |
| `MCCddbRecord_keywords.cfg` | `KeywordsPresent` | a record with a year of three digits has no genre |

The passing properties are stated so that they exclude just those cases and a
few more that the models show: `clean` in `InSync`, `OwnAnswer` and their like, a site
that speaks HTTP in `EntryWanted`, a connection that has been used in
`OneHttpCommand`, `cddb_sites` in `CacheOnlyStaysLocal`, the rule of use in `CddbList`,
fields the server did not send in `MatchesInOrder`, `SIGALRM` blocked in `InTime` and
`IoReturns`, one connection in `faults`, `marred` in `WholeEntries`, one directory in
`query`, numbers from 0 in `ImplementsDiscs`, a genre that is split and what the record
does not have in `ReadTells`, `plain` in `EndsWithDot`, `dangling` in `HandlesLive`,
`late` in `SearchVia`.

### What else the models show

- A read whose answer does not come fails with `CDDB_ERR_OK`, and the late answer
  to a call that timed out is taken for that to the next call (`ErrorsTell` and
  `InSync` leave this out).
- Commands go to the old server after `cddb_set_site` while its socket is open, and
  get their answers from it (`InSync` holds of them all the same).
- With two directories `QueryHitIsCached` fails after `cddb_cache_set_dir`, because
  `query_cache` knows nothing of directories. Give `MCCddbCache` two to see it.
- A `send()` that returns `EAGAIN` makes `sock_fwrite` go back one byte
  (`WireAccounts` counts those); a `connect()` that succeeds at once is taken for
  one that failed, and the other way round (`FailedAtOnce` in `ConnectTells`).
- `cddb_track_get_length` computes with an offset that
  was never set, which is -1, and a length once computed is kept when the
  offsets change (`LengthFresh` says until when it is right).
- A comment behind the title lines of a record, or any other line that the next
  state does not know, leaves the parser in its state and the lines behind it
  may be skipped; a record that is cut short is returned as success. A disc that is
  read into again keeps the tracks, the year and the genre that the new record does
  not have, and they are converted again.
- `cddb_write` converts the disc of the application in place and does not convert
  it back; a conversion that fails leaves the texts before it converted.
- A text search uses neither the time-out nor the character set of its connection,
  and a search after one that could not connect goes over the socket that one has
  left. The proxy of an earlier search stays for connections without one.
- `cddb_http_disable` leaves the proxy enabled, and CDDBP then goes to it.
- `cddb_set_charset` that fails at its first `iconv_open` leaves a closed descriptor
  in the structure, which is closed again later.

**Fairness.** `FairSpec` of `CddbConn` assumes weak fairness of the call in
progress: every read, write and connect of `cddb_net.c` has a deadline
(`time(NULL)` against `end`), so a call that is under way takes its next step.
Nothing is assumed of server, network or application. That assumption is what
`IoReturns` shows of `CddbNet`, whose own `FairSpec` asks only that the process
runs when it can, that time passes while it waits, and that an alarm which is
due and not blocked rings. A look-up that finds `SIGALRM` blocked has no deadline: it
returns when the resolver does, so `IoReturns` leaves it out, and for it alone
`CallReturns` rests on the resolver. `FairRuledSpec` of `CddbList` assumes that a loop that has begun goes on.
Runs that switch off the deadlock check have a bound on calls, after which
nothing is left to do; `list` and `net` have none and keep the check.

## Proofs

`CddbConnProofs!TypeCorrect`: `Spec => []TypeOK`, for every set of sites, every
table of answers and any bound. `TypeOK` is not inductive alone, because a
request carries the name of the function called last: `TypeInv` adds `InCall` (a
call in progress is one of the commands). One step per action, one lemma for each
operator that builds lines.

`SyncInvariant` (`Spec => []SyncInv`) and `StaysInSync`
(`Spec => []InSync`). `InSync` speaks of the calls that lines belong to; the
client never sees those numbers, so the invariant that implies it has to say why
reading up to a certain line is enough. With `TypeInv`, `SyncInv` is inductive:
a closed socket has nothing in flight (*NothingOnClosed*), and on an open socket
on which nothing was abandoned there is at most one request, never together with
an answer (*OneRequest*), what is in flight to the client is the rest of one
answer, of which exactly the last line is the one the parser stops at
(*OneAnswer*: the dot, or a status line whose code announces no data), and no
greeting is still to come (*Greeted*, without which a late banner would be taken
for the answer to the first command). The proof turns on two facts: the code
tables of the handlers go on to a body for exactly the codes that have one
(`BodyVerdict`), and the codes a server answers a truncated command with have
none (`BodyAsAsked`). `EndsInStep`, `ReadOnInStep`, `NextRequestInStep` and
`RequestInStep` are the four ways a step of the client can go.

The other promises of `CddbConn`, also in `CddbConnProofs`, are `AnswersAreOwn`,
`EntriesAreWanted`, `ErrorsReported`, `HandshakeComesFirst`, `CacheOnlyIsLocal` and
`OneCommandEach`, none of them inductive. `OwnInv` adds that nothing was used
before the answer and that the server's 530 is the last line of a socket: by
`SyncInv` the next line is the call's own or that one (`NextLineOwn`), and no code
table takes a 530 for success. `EntryInv` adds that a server waits for an entry
from the moment its 320 is in flight to `cddb_write`, which needs that at most one
request is (`OneInFlight`), and leaves out the entry of a POST, whose headers only a
connection that speaks HTTP waits for (`PostInv`). `ErrInv` adds that the error code is reset where a
status line is read, so that `FailNoCode` finds an older error only in the
handshake, which only a connection without HTTP makes; `ShookInv` says where an
open socket is in the handshake, `LocalInv` that a call that goes on with cached
data only is `cddb_sites`, `HttpInv` that success closed the socket. `SpentInv` says that
an HTTP server has closed its side of a socket as soon as its one request is no longer
in flight, so a second command finds nothing: its answer went to the first.

`CddbListProofs`: `ListCorrect` (`RuledSpec => []ListInv`), `ListReadsLive`
(`RuledSpec => []NoFreedRead`) and `ListImplementsSpec` (`RuledSpec` implements
`CddbListSpec`). `ListInv` is inductive together with `ListTypeOK`. Its parts:
*Linked* (the chain of elements, the pointers of each to its neighbours, first,
last and count agree), *Owned* (outside a flush what is allocated is the chain),
*Flushing* and *Getting* (where a loop stands) and *Iterator* (under the rule of
use it points into the chain). The refinement maps the chain to the items, the
iterator to a position and the argument of a `list_get` that is under way to
the index that is wanted; flushing an element is a stutter until the last one.

The same module proves of `CddbMatches`, for `Careful` applications, that matches
come in order and leave in the application's disc what the server sent for them
(`MatchesComeInOrder`), and that `cddb_query_next` never stands on a
freed element (`NextStandsOnLive`). Each step of a query or a walk is a step of
the list under its rule (`MatchRuled`), so `ListIInv` carries over. `MatchInv` adds
what counting buys: as long as the count says that matches are left, the list is
that of the last query, what was given is its beginning, and the iterator stands
on the last match given. An element of the list is not the match but a clone of the
caller's disc with the match in it; `Listing` says that it shows the match.

`CddbInduction`: `LeastNatural`, `NatSetInduction` and `RecursionExists` say with
sets and functions what the library's theorems say with predicates and operators,
which the provers cannot instantiate. They make it possible to prove what the
recursive functions of the models (`Chain`, `PowerOf2`, `DigitSum`, `Bytes`,
`ParseSearchData`) compute for data of any length.

`CddbDiscProofs`: `DiscTypes` (`[]DiscTypeOK`), `ListsStayChained` (`[]Chained`),
`LengthsStayFresh` (`[]LengthFresh`) and `DiscsImplementSpec` (`CddbDisc` implements
`CddbDiscSpec`), for any number of discs and tracks. *DiscIInv* is `DiscTypeOK`,
`Chained` and `Unlinked`: a track on no disc is linked to none, without which
`cddb_disc_add_track` would pull a second track onto the disc. `ChainIsOrder` says
that the loops over `t->next` visit what `order` holds; with it every getter and
copy becomes a statement about a sequence. `FreshAt` says of one place what
`LengthFresh` says of a disc; a track that is added or an offset that is set
disturbs at most the place before it. For the disc id, `NextBit` and `BytesHold` show that the
bits written hold the numbers they were computed from, without loss where they
fit, and `DiscidHolds` that the three numbers are the
ones `CddbDiscSpec` asks for. The refinement has one lemma for each function.

`CddbSearchProofs`: `SearchTypes` (`SearchSpec => []SearchTypeOK`),
`DescriptorsOwned` (`[]HandlesLive`), `SearchGoesVia` (`[]SearchVia`) and
`SearchFindsInOrder` (`[]SearchInOrder`), for any
number of connections, hosts, descriptors and pages. The first needs that a
search under way has a library (`SearchInv`), which holds because nothing is set
meanwhile (`SettingsCounted`). For the second, `OwnedBy` says the same as
`HandlesLive` of any function and set, and one lemma, `OwnedReplace`, covers
every way a connection is replaced: by one with the same descriptors, with none,
or with two that are not among those left open. `SettingCases` is the fact it
rests on: of all that can be set, only the character set touches the
descriptors. `SearchVia` speaks of the socket of a search on its way; the
invariant behind it, `ViaInv`, says of `cddb_search_conn` at any time that it is
set up for the proxy taken over last or, if there was none since the library was
initialized, for freedb. `SearchInOrder` speaks of the page when it has been read;
`FoundInv` says the same of the lines read so far. One match more keeps it
(`OneMore`), so does a line of any number of matches (`LineInOrder`, by induction
along the line), and `FlattenNext` puts the lines together.

`CddbNetProofs`: `NetTypes`, `CallsInTime`, `AlarmsFindFrame`, `ConnectSaysSo`,
`WireAccounted` and `ReadsImplementStream` (`CddbNet` implements
`CddbStreamSpec`), for any time-out, clock, buffer, alphabet and message. The
steps are grouped by function (`NextSteps`), and each invariant looks at its own
group only. *ReadRoom* (a byte is read only where the buffer has room) makes the
types inductive. *AlarmInv* says of each line of `timeout_gethostbyname` whose
handler and alarm are set. *TimeInv* adds to the clock what `select` may still
wait, or when the alarm is due if it is not blocked; `RemainingBound` is the arithmetic behind it: what
`time()` leaves of the time-out, waited for to the end, ends within the fraction
of a second in which the call began. *WireInv* places `p` behind what counts as
sent. *BufInv* says that the buffer holds the bytes taken last, no newline among
them, so that `taken - Len(buf)` is what the stream of lines has given out:
keeping a byte is a stutter, and a failed read throws away a whole buffer.

`CddbCacheProofs`: `CacheTypes` says that no call works on a `FILE` it does not
have open (*Opened*). For any number of connections and directories `OffIsOff`
proves `OffTouchesNothing`, of every step the connection takes; `QueriesFindEntries` (`QueryHitIsCached`) is for one
directory, because with several it fails (see "What else the models show"). The
other three, `EntriesUnmixed` (`OneVersion`), `EntriesWhole` (`WholeEntries`) and
`RecordsCached` (`CachedWhatWasRead`), are for a process with one connection (*OneConnection*):
with two, `stat` and `fopen` are two steps between which the other may open the
same entry (`MCCddbCache_race.cfg`). *EntryInv* ties the call, its `FILE` and the
entry together. *HandleInv*: a `FILE` open for writing stands at the end of what
is written and holds back bytes of the same version only, and one left open by a
failed call belongs to an entry known to be marred. *ProgressInv*: what a call has
read of a version is what its entry holds together with what the `FILE` holds
back. `FlushedText` and `ClosedText` are what `fclose` makes of an entry,
`EntryOpened` what `fopen` does, `EntryFinished` how a record that was read to the
end leaves it.

`CddbRecordProofs`: `RecordTypesHold` (`[]RecordTypeOK`), for any vocabulary and
any discs, calls and faults. It needs that nothing ever puts a " / " into an
artist or a title of the structure (`TypeInv`), which in turn needs that every
line of the record has at most one: then each part of a text that is read is
itself such a text. `RecordShape` says where each line of a record stands, `CodedBack`
that a text converted there and back is the text it was.
`ReadsEndWithDot` (`[]EndsWithDot`) and `RecordsReadBack` (`[]ReadTells`) follow a read
through the record. What is to be compared is not in the state: the database may hold
each line in any number of parts, and while a read is on nothing says which part of
which line came last. *RInv* therefore asks for it: there are the lines `w` of the disc
that was written (`Shape`), and for each line of the database the part of a line of `w`
that it is, the parts of a line following each other without a gap (`Cut`); and a read
that stands behind the first `k` words of line `j` of `w` has the parser in the state
that `j` demands (`Parser`) and in the structure what those lines tell, the texts of line
`j` up to word `k` (`Told`). A text that has come in part is the first `k` words of the
text; an artist and a title in one line are told apart at the only Slash, and until it
comes the artist of a track stands in its title (`TrackNameRead`), which is why `Told` is
about words and not about lines. One lemma for each kind of line (`StartStep`,
`OffsetStep`, `NumberStep`, `TitleStep`, `YearStep`, `GenreStep`, `TrackTitleStep`,
`ExtStep`, `TrackExtStep`, `OrderStep`) shows that the next part keeps it, `WrapHolds`
that a line may be split once more, `ToldWhole` and `WholeSays` that behind the last line
nothing is left out, converted back. What is told of a genre is its first line; where
the database holds it in one (`Once`), that is the whole (`OnceWhole`), and it comes
back converted or, being the name of a category, as it was (`GenreBack`). `FreshHolds` starts it, with the record that is there
in the beginning and with each one `cddb_write` writes.

The assumptions are those the modules name: HTTP sites are sites, the codes a
server may answer are numbers, bounds are numbers, the application calls
functions of `cddb_cmd.h`; for the list, the null pointer is no element, the
absence of data is no data and indices are integers; for searches, `NULL` is no
structure, connection, host, user or descriptor, profiles are connection
structures without descriptor or socket, and pages are sequences of lines; for the
network, the time-out is not zero (`alarm(0)` sets none), the buffer has room for a
byte, and the newline is no other byte; for the cache, there is a version of an
entry, every connection belongs to a process, and the absence of an entry is none
of the keys, texts and `FILE`s; for discs, the tracks are finitely many (they are
what `calloc` may return), values are data and `NULL` is none, and for
`DiscsImplementSpec` the application asks for numbers from 0; for records, the names of
categories are ASCII, the
discs written are complete, no artist or title has a " / " of its own and no
year five digits (such a record is read as another disc), and `NULL` is no text;
for the result set, what is not set is no title or artist, the data of the list
are discs, and `Careful`, which is how the example program uses it.

Only model-checked: liveness, which TLAPS cannot prove under fairness. Every invariant and
every action property of a passing run is a theorem as well.

## Not modelled

- Parsing inside a line, string building and conversion tables: their failure is a
  choice, and regular expressions appear as what they match in the modules that
  use them. The buffer of `cddb_write_data` is taken as large enough and a line as
  short enough, except in `CddbNet`, whose buffer fills up.
- Memory running out, signals other than `SIGALRM` (sending to a server that hung
  up raises `SIGPIPE`, which is the application's to handle).
- The proxy in `CddbConn`: a proxy is another HTTP server to it; which one is
  `CddbSettings`. Settings that are only stored and read (time-out, client name,
  e-mail address, submit path, search fields) are not state of the models.
- Locations, descriptions, cloning and printing of sites; logging and error
  strings; the example program and the scripts, whose use of the library is the
  application's in `CddbConn` and `CddbMatches`.

## What could follow

A composition of `CddbConn` with `CddbSettings` in which the proxy decides which
server a request reaches.
