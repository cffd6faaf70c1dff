------------------------------ MODULE CddbCache ------------------------------
(***************************************************************************)
(* The local cache: the entries in the cache directory, the FILE a         *)
(* connection has open on one of them, and the table that remembers in     *)
(* which category a disc was found (query_cache, one for each process).    *)
(*                                                                         *)
(* Several connections, in one process or in several, use one directory.   *)
(* A process makes one call at a time; between two system calls of one     *)
(* process the others take steps.  What passes on the wire is the subject  *)
(* of CddbConn; here a command succeeds or fails.                          *)
(*                                                                         *)
(* An entry is a sequence of lines, and a line the number of the version   *)
(* of the entry it belongs to; 0 is a hole in a file.                      *)
(***************************************************************************)
EXTENDS Integers, Sequences, SequencesExt

CONSTANTS
  Conns,        \* the connections
  Process,      \* the process each of them is in
  Dirs,         \* the cache directories
  Cats,         \* the categories, in the order of cddb_cat_t
  Discs,        \* the disc ids
  Hash,         \* the slot of query_cache each disc id falls into
  Lines,        \* the number of lines of an entry
  MaxVersion,   \* bound on the number of versions that are written
  MaxCrashes,   \* bound on the number of crashes
  Faults,       \* of "cut", "track" and "charset"
  Absent        \* no such file, no such FILE

ASSUME CatsAssumption == Cats # <<>>
ASSUME LinesAssumption == Lines \in Nat \ {0}
ASSUME BoundsAssumption == MaxVersion \in Nat \ {0} /\ MaxCrashes \in Nat
ASSUME ProcessAssumption == DOMAIN Process = Conns
ASSUME FaultsAssumption == Faults \subseteq {"cut", "track", "charset"}

VARIABLES
  files,     \* the cache directories: the lines of each entry
  db,        \* the servers: the version of each entry, 0 for none
  versions,  \* the number of versions written so far
  crashes,   \* the number of crashes so far
  memory,    \* query_cache of each process
  pc,        \* where the call of each connection is
  op,        \* the function each connection called last
  mode,      \* c->use_cache
  dir,       \* c->cache_dir
  fp,        \* c->cache_fp
  key,       \* the entry the call is about
  ver,       \* the version the call reads from or submits to the server
  tee,       \* cache_content in cddb_parse_record
  got,       \* the lines read
  ret,       \* what the last call returned
  marred     \* history: the entries whose last writer was stopped half-way

shared == <<files, db, versions, crashes, memory>>
locals == <<pc, op, mode, dir, fp, key, ver, tee, got, ret>>
vars   == <<shared, locals, marred>>

Keys     == Range(Cats) \X Discs
Versions == 1..MaxVersion
Slots    == {Hash[d] : d \in Discs}
Texts    == Seq(Nat)

\* A FILE that is open: what it is open on and how, where it stands, and what
\* stdio holds back.
Handles == [dir : Dirs, key : Keys, way : {"r", "w"}, at : Nat, buf : Texts]

ASSUME AbsentAssumption == Absent \notin Keys /\ Absent \notin Texts /\ Absent \notin Handles

CacheTypeOK ==
  /\ files \in [Dirs -> [Keys -> Texts \cup {Absent}]]
  /\ db \in [Keys -> 0..MaxVersion] /\ versions \in Versions /\ crashes \in Nat
  /\ memory \in [Range(Process) -> [Slots -> Keys \cup {Absent}]]
  /\ pc \in [Conns -> {"idle", "openRead", "parse", "net", "record", "openWrite", "receive",
                       "openEntry", "fill", "submit"}]
  /\ op \in [Conns -> {"none", "read", "write", "query", "set_dir"}]
  /\ mode \in [Conns -> {"off", "on", "only"}] /\ dir \in [Conns -> Dirs]
  /\ fp \in [Conns -> Handles \cup {Absent}] /\ key \in [Conns -> Keys \cup {Absent}]
  /\ ver \in [Conns -> 0..MaxVersion] /\ tee \in [Conns -> BOOLEAN]
  /\ got \in [Conns -> Texts] /\ ret \in [Conns -> {"ok", "fail", "notfound"}]
  /\ marred \subseteq Dirs \X Keys

Init ==
  /\ files = [d \in Dirs |-> [k \in Keys |-> Absent]]
  /\ db \in [Keys -> {0, 1}] /\ versions = 1 /\ crashes = 0
  /\ memory = [p \in Range(Process) |-> [s \in Slots |-> Absent]]
  /\ pc = [c \in Conns |-> "idle"] /\ op = [c \in Conns |-> "none"]
  /\ mode = [c \in Conns |-> "on"] /\ dir \in [Conns -> Dirs]
  /\ fp = [c \in Conns |-> Absent] /\ key = [c \in Conns |-> Absent]
  /\ ver = [c \in Conns |-> 0] /\ tee = [c \in Conns |-> FALSE]
  /\ got = [c \in Conns |-> <<>>] /\ ret = [c \in Conns |-> "ok"]
  /\ marred = {}

----------------------------------------------------------------------------
(* Files.                                                                  *)

\* cddb_cache_exists.
Exists(c, k) == files[dir[c]][k] # Absent

\* Lines written at an offset, over what is there and beyond its end.
Over(old, at, new) ==
  [i \in 1..(IF at + Len(new) > Len(old) THEN at + Len(new) ELSE Len(old)) |->
     IF i > at /\ i <= at + Len(new) THEN new[i - at]
     ELSE IF i <= Len(old) THEN old[i] ELSE 0]

\* The files once handle h has written what it holds back.
Flushed(h) == [files EXCEPT ![h.dir][h.key] = Over(@, h.at, h.buf)]

\* cddb_cache_close: fclose writes what stdio has held back.
Closed(h) == IF h # Absent /\ h.way = "w" THEN Flushed(h) ELSE files

\* Mutant: the entry is opened for appending.
OpenAppends(c, k, way) ==
  LET before == Closed(fp[c])
      old    == before[dir[c]][k]
      text   == IF old = Absent THEN <<>> ELSE old
  IN /\ files' = [before EXCEPT ![dir[c]][k] = text]
     /\ fp' = [fp EXCEPT ![c] = [dir |-> dir[c], key |-> k, way |-> way,
                                 at |-> IF way = "w" THEN Len(text) ELSE 0,
                                 buf |-> <<>>]]

\* cddb_cache_open: a FILE that is open is closed first.  Opening for writing
\* makes the file an empty one.
Open(c, k, way) ==
  LET before == Closed(fp[c])
      empty  == IF way = "w" THEN [before EXCEPT ![dir[c]][k] = <<>>] ELSE before
  IN /\ files' = empty
     /\ fp' = [fp EXCEPT ![c] = [dir |-> dir[c], key |-> k, way |-> way, at |-> 0,
                                 buf |-> <<>>]]

Shut(c) == files' = Closed(fp[c]) /\ fp' = [fp EXCEPT ![c] = Absent]

Put(c, line) ==
  LET h == fp[c]
      held == [h EXCEPT !.buf = Append(@, line)]
  IN \/ files' = files /\ fp' = [fp EXCEPT ![c] = held]
     \/ /\ files' = Flushed(held)
        /\ fp' = [fp EXCEPT ![c] = [held EXCEPT !.at = @ + Len(held.buf), !.buf = <<>>]]

Return(c, r) ==
  /\ pc' = [pc EXCEPT ![c] = "idle"]
  /\ ret' = [ret EXCEPT ![c] = r]

GoTo(c, place) == pc' = [pc EXCEPT ![c] = place] /\ UNCHANGED ret

\* Without an entry that can be used: the server, unless only the cache is allowed.
NoEntry(c) == IF mode[c] = "only" THEN Return(c, "notfound") ELSE GoTo(c, "net")

MayCall(c) == \A x \in Conns : Process[x] = Process[c] => pc[x] = "idle"

\* The entry a call writes is not whole when the call stops here.
Mar(c) == marred' = marred \cup {<<dir[c], key[c]>>}

\* From here on the entry is as good as its new writer makes it.
Mend(c) == marred' = marred \ {<<dir[c], key[c]>>}

----------------------------------------------------------------------------
(* cddb_read.                                                              *)

\* cddb_cache_read, up to the stat in cddb_cache_exists.
CddbRead(c, k) ==
  /\ MayCall(c)
  /\ op' = [op EXCEPT ![c] = "read"]
  /\ key' = [key EXCEPT ![c] = k]
  /\ got' = [got EXCEPT ![c] = <<>>]
  /\ tee' = [tee EXCEPT ![c] = FALSE]
  /\ IF mode[c] # "off" /\ Exists(c, k) THEN GoTo(c, "openRead") ELSE NoEntry(c)
  /\ UNCHANGED <<shared, mode, dir, fp, ver, marred>>

\* The entry is opened, or turns out to be unreadable.
CacheOpenRead(c) ==
  /\ pc[c] = "openRead"
  /\ \/ Open(c, key[c], "r") /\ GoTo(c, "parse")
     \/ Shut(c) /\ NoEntry(c)
  /\ UNCHANGED <<db, versions, crashes, memory, op, mode, dir, key, ver, tee, got, marred>>

\* cddb_parse_record on the entry: a line, or its end, or an entry the parser
\* does not accept.  The entry stays where it is in any case.
CacheParse(c) ==
  /\ pc[c] = "parse"
  /\ LET h    == fp[c]
         text == files[h.dir][h.key]
     IN \/ /\ h.at < Len(text)
           /\ got' = [got EXCEPT ![c] = Append(@, text[h.at + 1])]
           /\ fp' = [fp EXCEPT ![c].at = @ + 1]
           /\ UNCHANGED <<files, pc, ret>>
        \/ /\ h.at >= Len(text)
           /\ Shut(c)
           /\ Return(c, "ok")
           /\ UNCHANGED got
        \/ /\ \/ "track" \in Faults /\ got[c] # <<>>
              \/ "charset" \in Faults /\ h.at >= Len(text)
           /\ Shut(c)
           /\ got' = [got EXCEPT ![c] = <<>>]
           /\ NoEntry(c)
  /\ UNCHANGED <<db, versions, crashes, memory, op, mode, dir, key, ver, tee, marred>>

\* The command fails, the server does not know the disc, or it sends the entry.
ReadCommand(c) ==
  /\ pc[c] = "net"
  /\ \/ Return(c, "fail") /\ UNCHANGED ver
     \/ /\ db[key[c]] = 0
        /\ Return(c, "notfound") /\ UNCHANGED ver
     \/ /\ db[key[c]] # 0
        /\ ver' = [ver EXCEPT ![c] = db[key[c]]]
        /\ GoTo(c, "record")
  /\ UNCHANGED <<shared, op, mode, dir, fp, key, tee, got, marred>>

\* Mutant: the existing entry is not taken into account.
CacheContentAlways(c) == mode[c] # "off"

\* Mutant: the mode is not taken into account.
CacheContentAnyMode(c) == ~Exists(c, key[c])

\* "a cached version does not yet exist" (cddb_parse_record).
CacheContent(c) == mode[c] # "off" /\ ~Exists(c, key[c])

\* cddb_parse_record, up to the directories being made, which may fail.
RecordStart(c) ==
  /\ pc[c] = "record"
  /\ \/ CacheContent(c) /\ GoTo(c, "openWrite")
     \/ GoTo(c, "receive")
  /\ UNCHANGED <<shared, op, mode, dir, fp, key, ver, tee, got, marred>>

CacheOpenWrite(c) ==
  /\ pc[c] = "openWrite"
  /\ \/ Open(c, key[c], "w") /\ Mend(c) /\ tee' = [tee EXCEPT ![c] = TRUE]
     \/ Shut(c) /\ UNCHANGED <<tee, marred>>
  /\ GoTo(c, "receive")
  /\ UNCHANGED <<db, versions, crashes, memory, op, mode, dir, key, ver, got>>

ReceiveLine(c) ==
  /\ pc[c] = "receive" /\ Len(got[c]) < Lines
  /\ got' = [got EXCEPT ![c] = Append(@, ver[c])]
  /\ IF tee[c] THEN Put(c, ver[c]) ELSE UNCHANGED <<files, fp>>
  /\ UNCHANGED <<db, versions, crashes, memory, pc, op, mode, dir, key, ver, tee, ret, marred>>

\* Mutant: the FILE is not closed at the end of the record.
ReceiveEndKeepsOpen(c) ==
  /\ pc[c] = "receive"
  /\ Len(got[c]) = Lines \/ "cut" \in Faults
  /\ UNCHANGED <<files, fp>>
  /\ IF tee[c] /\ Len(got[c]) < Lines THEN Mar(c) ELSE UNCHANGED marred
  /\ Return(c, "ok")
  /\ UNCHANGED <<db, versions, crashes, memory, op, mode, dir, key, ver, tee, got>>

\* The dot, or no line in time: both end the record, and both are success, if
\* the strings of the record can be converted.
ReceiveEnd(c) ==
  /\ pc[c] = "receive"
  /\ Len(got[c]) = Lines \/ "cut" \in Faults
  /\ IF tee[c] THEN Shut(c) ELSE UNCHANGED <<files, fp>>
  /\ IF tee[c] /\ Len(got[c]) < Lines THEN Mar(c) ELSE UNCHANGED marred
  /\ Return(c, "ok") \/ ("charset" \in Faults /\ Return(c, "fail"))
  /\ UNCHANGED <<db, versions, crashes, memory, op, mode, dir, key, ver, tee, got>>

\* A title for a track that does not exist: the FILE is left open.
ReceiveTrackNotFound(c) ==
  /\ "track" \in Faults
  /\ pc[c] = "receive" /\ got[c] # <<>>
  /\ IF tee[c] THEN Mar(c) ELSE UNCHANGED marred
  /\ Return(c, "fail")
  /\ UNCHANGED <<shared, op, mode, dir, fp, key, ver, tee, got>>

----------------------------------------------------------------------------
(* cddb_write.                                                             *)

\* The entry gets its version; it is cached before it is submitted, unless the
\* directories cannot be made.
CddbWrite(c, k) ==
  /\ MayCall(c) /\ versions < MaxVersion
  /\ op' = [op EXCEPT ![c] = "write"]
  /\ key' = [key EXCEPT ![c] = k]
  /\ versions' = versions + 1
  /\ ver' = [ver EXCEPT ![c] = versions']
  /\ got' = [got EXCEPT ![c] = <<>>]
  /\ \/ mode[c] # "off" /\ GoTo(c, "openEntry")
     \/ IF mode[c] = "only" THEN Return(c, "ok") ELSE GoTo(c, "submit")
  /\ UNCHANGED <<files, db, crashes, memory, mode, dir, fp, tee, marred>>

CacheOpenEntry(c) ==
  /\ pc[c] = "openEntry"
  /\ Open(c, key[c], "w") /\ Mend(c)
  /\ GoTo(c, "fill")
  /\ UNCHANGED <<db, versions, crashes, memory, op, mode, dir, key, ver, tee, got>>

\* fwrite of the whole entry and cddb_cache_close.
CacheFill(c) ==
  /\ pc[c] = "fill"
  /\ files' = Flushed([fp[c] EXCEPT !.buf = [i \in 1..Lines |-> ver[c]]])
  /\ fp' = [fp EXCEPT ![c] = Absent]
  /\ IF mode[c] = "only" THEN Return(c, "ok") ELSE GoTo(c, "submit")
  /\ UNCHANGED <<db, versions, crashes, memory, op, mode, dir, key, ver, tee, got, marred>>

Submit(c) ==
  /\ pc[c] = "submit"
  /\ \/ db' = [db EXCEPT ![key[c]] = ver[c]] /\ Return(c, "ok")
     \/ UNCHANGED db /\ Return(c, "fail")
  /\ UNCHANGED <<files, versions, crashes, memory, op, mode, dir, fp, key, ver, tee, got, marred>>

----------------------------------------------------------------------------
(* cddb_query, as far as the cache answers it.                             *)

\* The categories an entry of disc d is found in by cddb_cache_query_disc.
Found(c, d) == {i \in DOMAIN Cats : Exists(c, <<Cats[i], d>>)}

\* Mutant: a slot that is taken answers for every disc that falls into it.
RemembersSlot(c, d) == memory[Process[c]][Hash[d]] # Absent

\* The slot of the disc holds the disc.
Remembers(c, d) ==
  LET e == memory[Process[c]][Hash[d]] IN e # Absent /\ e[2] = d

CddbQueryCached(c, d) ==
  /\ MayCall(c) /\ mode[c] # "off"
  /\ op' = [op EXCEPT ![c] = "query"]
  /\ \/ /\ Remembers(c, d)
        /\ key' = [key EXCEPT ![c] = <<memory[Process[c]][Hash[d]][1], d>>]
        /\ UNCHANGED memory
     \/ /\ ~Remembers(c, d)
        /\ \E i \in Found(c, d) :
             /\ \A j \in Found(c, d) : i <= j
             /\ key' = [key EXCEPT ![c] = <<Cats[i], d>>]
             /\ memory' = [memory EXCEPT ![Process[c]][Hash[d]] = <<Cats[i], d>>]
  /\ Return(c, "ok")
  /\ UNCHANGED <<files, db, versions, crashes, mode, dir, fp, ver, tee, got, marred>>

\* A disc the cache does not know; the server is not asked here.
CddbQueryMisses(c, d) ==
  /\ MayCall(c)
  /\ mode[c] = "off" \/ (~Remembers(c, d) /\ Found(c, d) = {})
  /\ op' = [op EXCEPT ![c] = "query"]
  /\ key' = [key EXCEPT ![c] = Absent]
  /\ Return(c, "notfound")
  /\ UNCHANGED <<shared, mode, dir, fp, ver, tee, got, marred>>

----------------------------------------------------------------------------
(* Settings, crashes, and the specification.                               *)

SetCacheMode(c) ==
  /\ MayCall(c)
  /\ \E m \in {"off", "on", "only"} \ {mode[c]} : mode' = [mode EXCEPT ![c] = m]
  /\ UNCHANGED <<shared, pc, op, dir, fp, key, ver, tee, got, ret, marred>>

\* A FILE that is open stays open in the old directory.
CddbCacheSetDir(c) ==
  /\ MayCall(c)
  /\ \E d \in Dirs \ {dir[c]} : dir' = [dir EXCEPT ![c] = d]
  /\ op' = [op EXCEPT ![c] = "set_dir"]
  /\ UNCHANGED <<shared, pc, mode, fp, key, ver, tee, got, ret, marred>>

\* A process dies and is started again: what stdio has held back is lost.
Crash(p) ==
  /\ crashes < MaxCrashes
  /\ crashes' = crashes + 1
  /\ LET Of(f, x) == [c \in Conns |-> IF Process[c] = p THEN x ELSE f[c]]
     IN /\ memory' = [memory EXCEPT ![p] = [s \in Slots |-> Absent]]
        /\ pc' = Of(pc, "idle") /\ op' = Of(op, "none")
        /\ mode' = Of(mode, "on")
        /\ fp' = Of(fp, Absent) /\ key' = Of(key, Absent)
        /\ ver' = Of(ver, 0) /\ tee' = Of(tee, FALSE)
        /\ got' = Of(got, <<>>) /\ ret' = Of(ret, "ok")
  /\ marred' = marred \cup {<<dir[c], key[c]>> : c \in
                   {x \in Conns : Process[x] = p /\ (pc[x] = "fill" \/ (pc[x] = "receive" /\ tee[x]))}}
  /\ UNCHANGED <<files, db, versions, dir>>

Step(c) ==
  \/ \E k \in Keys : CddbRead(c, k) \/ CddbWrite(c, k)
  \/ CacheOpenRead(c) \/ CacheParse(c) \/ ReadCommand(c)
  \/ RecordStart(c) \/ CacheOpenWrite(c)
  \/ ReceiveLine(c) \/ ReceiveEnd(c) \/ ReceiveTrackNotFound(c)
  \/ CacheOpenEntry(c) \/ CacheFill(c) \/ Submit(c)
  \/ \E d \in Discs : CddbQueryCached(c, d) \/ CddbQueryMisses(c, d)
  \/ SetCacheMode(c) \/ CddbCacheSetDir(c)

Next ==
  \/ \E c \in Conns : Step(c)
  \/ \E p \in Range(Process) : Crash(p)

Spec == Init /\ [][Next]_vars

----------------------------------------------------------------------------
(* What the cache promises.                                                *)

Written(d, k) ==
  \E c \in Conns : fp[c] # Absent /\ fp[c].way = "w" /\ fp[c].dir = d /\ fp[c].key = k

IsWhole(text) == \E v \in Versions : text = [i \in 1..Lines |-> v]

\* An entry that nobody has open for writing is the whole of one version, unless
\* its last writer was stopped half-way by the network, by a track that does
\* not exist, or by the end of its process; and the next writer makes it whole
\* again, whatever FILE was left open (cddb_parse_record, cddb_write).
WholeEntries ==
  \A d \in Dirs, k \in Keys :
    files[d][k] # Absent /\ ~Written(d, k) /\ <<d, k>> \notin marred
      => IsWhole(files[d][k])

\* Whatever happens to a process with one connection, an entry is the beginning
\* of one version and never a mixture of two, whoever has it open.
OneVersion ==
  \A d \in Dirs, k \in Keys :
    files[d][k] # Absent =>
      \E v \in Versions : \A i \in DOMAIN files[d][k] : files[d][k][i] = v

\* A disc that cddb_query has found in the cache can be read from the directory
\* in use: query_cache never remembers what is not there.
QueryHitIsCached ==
  \A c \in Conns :
    pc[c] = "idle" /\ op[c] = "query" /\ ret[c] = "ok" => Exists(c, key[c])

\* A record that is cached while it is read is, line for line, what the caller is
\* given, and it is in the file when the call returns (cddb_parse_record).
CachedWhatWasRead ==
  [][ \A c \in Conns :
        crashes' = crashes /\ tee[c]
          /\ pc[c] = "receive" /\ pc'[c] = "idle" /\ ret'[c] = "ok"
          => files'[dir[c]][key[c]] = got[c] ]_vars

\* "the retrieved data will not be cached locally" (cddb_cache_disable): no step of
\* a connection whose cache is off, be it in a read, a write, a query or between
\* calls, touches the files, not even through a FILE it has left open, or query_cache.
OffTouchesNothing ==
  [][ \A c \in Conns :
        mode[c] = "off" /\ Step(c) => files' = files /\ memory' = memory ]_vars

\* "a cached version does not yet exist" (cddb_parse_record): a record is not cached
\* over an entry that is whole and that nobody is writing.
ReadKeepsEntries ==
  [][ \A c \in Conns :
        pc[c] = "openWrite" /\ pc'[c] = "receive" =>
          \A d \in Dirs, k \in Keys :
            files[d][k] # Absent /\ IsWhole(files[d][k]) /\ ~Written(d, k)
              => files'[d][k] = files[d][k] ]_vars

\* "remove the invalid entry" (cddb_parse_record): an entry that ends before the
\* record does is not left for the next read.
InvalidEntryRemoved ==
  [][ \A c \in Conns :
        pc[c] = "parse" /\ pc'[c] = "idle" /\ Len(got[c]) < Lines
          => files'[dir[c]][key[c]] = Absent ]_vars

=============================================================================
