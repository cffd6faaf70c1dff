--------------------------- MODULE CddbCacheProofs ----------------------------
(***************************************************************************)
(* Proofs about the local cache: types and files that stay for any number  *)
(* of connections, processes and directories; what is in the entries for a *)
(* process with one connection, as CddbCache states it.                    *)
(***************************************************************************)
EXTENDS CddbCache, SequenceTheorems, TLAPS

\* The connection is writing its entry, through the FILE it has open.
Writing(c) == pc[c] = "fill" \/ (pc[c] = "receive" /\ tee[c])

\* What is open, and on what, at each place of a call.
Opened(c) ==
  /\ pc[c] # "idle" => key[c] \in Keys
  /\ pc[c] = "openRead" => Exists(c, key[c])
  /\ pc[c] = "parse" => fp[c] # Absent /\ fp[c].way = "r"
  /\ Writing(c) => /\ fp[c] # Absent /\ fp[c].way = "w"
                   /\ fp[c].dir = dir[c] /\ fp[c].key = key[c]
  /\ fp[c] # Absent => files[fp[c].dir][fp[c].key] # Absent
  /\ pc[c] \in {"openRead", "parse", "net", "record", "openWrite"} => ~tee[c]
  /\ pc[c] \in {"record", "openWrite", "receive", "openEntry", "fill", "submit"}
       => ver[c] \in Versions

\* The inductive form of the types.
TypeInv == CacheTypeOK /\ \A c \in Conns : Opened(c)

----------------------------------------------------------------------------
(* Types.                                                                  *)

\* What the cache directories may hold.
FileMaps == [Dirs -> [Keys -> Texts \cup {Absent}]]

\* No entry goes away.
Kept(F) == \A d \in Dirs, k \in Keys : files[d][k] # Absent => F[d][k] # Absent

\* Writing over a text gives a text that is not shorter.
LEMMA OverTyped ==
  ASSUME NEW old \in Texts, NEW at \in Nat, NEW new \in Texts
  PROVE  /\ Over(old, at, new) \in Texts
         /\ Len(Over(old, at, new)) >= Len(old)
<1> DEFINE n == IF at + Len(new) > Len(old) THEN at + Len(new) ELSE Len(old)
<1>1. Len(old) \in Nat /\ Len(new) \in Nat
  BY DEF Texts
<1>2. n \in Nat /\ n >= Len(old)
  BY <1>1
<1>3. Over(old, at, new) = [i \in 1..n |-> IF i > at /\ i <= at + Len(new) THEN new[i - at]
                                           ELSE IF i <= Len(old) THEN old[i] ELSE 0]
  BY DEF Over
<1> HIDE DEF n
<1>4. ASSUME NEW i \in 1..n
      PROVE  (IF i > at /\ i <= at + Len(new) THEN new[i - at]
              ELSE IF i <= Len(old) THEN old[i] ELSE 0) \in Nat
  BY <1>1, <1>2, <1>4 DEF Texts
<1>5. Over(old, at, new) \in [1..n -> Nat]
  BY <1>3, <1>4
<1>6. Over(old, at, new) \in Seq(Nat) /\ Len(Over(old, at, new)) = n
  BY <1>2, <1>5
<1> QED
  BY <1>2, <1>6 DEF Texts

\* What is behind the end of a text follows it.
LEMMA OverAppends ==
  ASSUME NEW old \in Texts, NEW new \in Texts
  PROVE  /\ Len(Over(old, Len(old), new)) = Len(old) + Len(new)
         /\ \A i \in 1..(Len(old) + Len(new)) :
              Over(old, Len(old), new)[i] = IF i > Len(old) THEN new[i - Len(old)] ELSE old[i]
<1> DEFINE n == Len(old) + Len(new)
<1>1. Len(old) \in Nat /\ Len(new) \in Nat
  BY DEF Texts
<1>2. Over(old, Len(old), new) =
        [i \in 1..n |-> IF i > Len(old) /\ i <= Len(old) + Len(new) THEN new[i - Len(old)]
                        ELSE IF i <= Len(old) THEN old[i] ELSE 0]
  BY <1>1 DEF Over
<1>3. Over(old, Len(old), new) \in Seq(Nat)
  BY <1>1, OverTyped DEF Texts
<1>4. DOMAIN Over(old, Len(old), new) = 1..n
  BY <1>2
<1>5. Len(Over(old, Len(old), new)) = n
  BY <1>1, <1>3, <1>4
<1> QED
  BY <1>1, <1>2, <1>5

\* A FILE that writes what it holds back leaves texts, and every entry where it is.
LEMMA FlushedTyped ==
  ASSUME CacheTypeOK, NEW h \in Handles, files[h.dir][h.key] # Absent
  PROVE  /\ Flushed(h) \in FileMaps
         /\ Kept(Flushed(h))
<1>1. h.dir \in Dirs /\ h.key \in Keys /\ h.at \in Nat /\ h.buf \in Texts
  BY DEF Handles
<1> DEFINE t == Over(files[h.dir][h.key], h.at, h.buf)
<1>2. t \in Texts
  BY <1>1, OverTyped DEF CacheTypeOK
<1>3. Flushed(h) = [files EXCEPT ![h.dir][h.key] = t]
  BY DEF Flushed
<1> HIDE DEF t
<1>4. t # Absent
  BY <1>2, AbsentAssumption
<1> QED
  BY <1>1, <1>2, <1>3, <1>4 DEF CacheTypeOK, FileMaps, Kept

\* So does closing the FILE of a connection.
LEMMA ClosedTyped ==
  ASSUME TypeInv, NEW c \in Conns
  PROVE  Closed(fp[c]) \in FileMaps /\ Kept(Closed(fp[c]))
<1>1. CASE fp[c] # Absent /\ fp[c].way = "w"
  <2>1. fp[c] \in Handles /\ files[fp[c].dir][fp[c].key] # Absent
    BY <1>1 DEF TypeInv, CacheTypeOK, Opened
  <2> QED
    BY <1>1, <2>1, FlushedTyped DEF Closed, TypeInv
<1>2. CASE ~(fp[c] # Absent /\ fp[c].way = "w")
  BY <1>2 DEF Closed, TypeInv, CacheTypeOK, FileMaps, Kept
<1> QED
  BY <1>1, <1>2

\* Opening a FILE, for reading one that exists.
LEMMA OpenTyped ==
  ASSUME TypeInv, NEW c \in Conns, NEW k \in Keys, NEW way \in {"r", "w"},
         way = "r" => Exists(c, k), Open(c, k, way)
  PROVE  /\ files' \in FileMaps /\ Kept(files')
         /\ fp' \in [Conns -> Handles \cup {Absent}]
         /\ fp'[c] # Absent /\ fp'[c] = [dir |-> dir[c], key |-> k, way |-> way, at |-> 0, buf |-> <<>>]
         /\ files'[dir[c]][k] # Absent
<1> DEFINE F == Closed(fp[c])
           h == [dir |-> dir[c], key |-> k, way |-> way, at |-> 0, buf |-> <<>>]
<1>1. F \in FileMaps /\ Kept(F)
  BY ClosedTyped
<1>2. dir[c] \in Dirs /\ fp \in [Conns -> Handles \cup {Absent}] /\ <<>> \in Texts
  BY DEF TypeInv, CacheTypeOK, Texts
<1>3. h \in Handles
  BY <1>2 DEF Handles
<1>4. files' = (IF way = "w" THEN [F EXCEPT ![dir[c]][k] = <<>>] ELSE F) /\ fp' = [fp EXCEPT ![c] = h]
  BY DEF Open
<1> HIDE DEF F, h
<1>5. <<>> # Absent /\ h # Absent
  BY <1>2, <1>3, AbsentAssumption
<1>6. files' \in FileMaps /\ Kept(files') /\ files'[dir[c]][k] # Absent
  BY <1>1, <1>2, <1>4, <1>5 DEF FileMaps, Kept, Exists
<1>7. fp' \in [Conns -> Handles \cup {Absent}] /\ fp'[c] = h
  BY <1>2, <1>3, <1>4
<1> QED
  BY <1>5, <1>6, <1>7 DEF h

\* Closing leaves the connection without a FILE.
LEMMA ShutTyped ==
  ASSUME TypeInv, NEW c \in Conns, Shut(c)
  PROVE  /\ files' \in FileMaps /\ Kept(files')
         /\ fp' \in [Conns -> Handles \cup {Absent}] /\ fp'[c] = Absent
  BY ClosedTyped DEF Shut, TypeInv, CacheTypeOK

\* A line, held back or written with all that was, leaves the FILE open where it is.
LEMMA PutTyped ==
  ASSUME TypeInv, NEW c \in Conns, NEW line \in Nat, fp[c] # Absent, Put(c, line)
  PROVE  /\ files' \in FileMaps /\ Kept(files')
         /\ fp' \in [Conns -> Handles \cup {Absent}]
         /\ fp'[c] # Absent /\ fp'[c].dir = fp[c].dir /\ fp'[c].key = fp[c].key
         /\ fp'[c].way = fp[c].way
<1> DEFINE h == fp[c]
           held == [h EXCEPT !.buf = Append(@, line)]
           next == [held EXCEPT !.at = @ + Len(held.buf), !.buf = <<>>]
<1>1. h \in Handles /\ files[h.dir][h.key] # Absent /\ files \in FileMaps
      /\ fp \in [Conns -> Handles \cup {Absent}]
  BY DEF TypeInv, CacheTypeOK, Opened, FileMaps
<1>2. /\ held \in Handles /\ held.dir = h.dir /\ held.key = h.key /\ held.way = h.way
      /\ held.at = h.at /\ held.buf = Append(h.buf, line)
  <2>1. Append(h.buf, line) \in Texts
    BY <1>1 DEF Handles, Texts
  <2> QED
    BY <1>1, <2>1 DEF Handles
<1>3. \/ files' = files /\ fp' = [fp EXCEPT ![c] = held]
      \/ files' = Flushed(held) /\ fp' = [fp EXCEPT ![c] = next]
  BY DEF Put
<1>4. next \in Handles /\ next.dir = h.dir /\ next.key = h.key /\ next.way = h.way
  <2>1. <<>> \in Texts /\ held.at + Len(held.buf) \in Nat
    BY <1>1, <1>2 DEF Handles, Texts
  <2> HIDE DEF held
  <2> QED
    BY <1>2, <2>1 DEF Handles
<1> HIDE DEF held, next
<1>5. Flushed(held) \in FileMaps /\ Kept(Flushed(held))
  BY <1>1, <1>2, FlushedTyped DEF TypeInv
<1>6. held # Absent /\ next # Absent /\ Kept(files)
  BY <1>2, <1>4, AbsentAssumption DEF Kept
<1>7. fp' \in [Conns -> Handles \cup {Absent}] /\ fp'[c] \in {held, next}
  BY <1>1, <1>2, <1>3, <1>4
<1> QED
  BY <1>1, <1>2, <1>3, <1>4, <1>5, <1>6, <1>7

\* What another connection has open stays open.
LEMMA OthersOpened ==
  ASSUME TypeInv, NEW c \in Conns, Kept(files'),
         pc'[c] = pc[c], key'[c] = key[c], dir'[c] = dir[c], fp'[c] = fp[c],
         tee'[c] = tee[c], ver'[c] = ver[c]
  PROVE  Opened(c)'
<1>1. Opened(c) /\ key[c] \in Keys \cup {Absent} /\ dir[c] \in Dirs /\ fp[c] \in Handles \cup {Absent}
  BY DEF TypeInv, CacheTypeOK
<1>2. fp[c] # Absent => fp[c].dir \in Dirs /\ fp[c].key \in Keys
  BY <1>1 DEF Handles
<1> QED
  BY <1>1, <1>2 DEF Opened, Writing, Exists, Kept

\* A step of one connection.
LEMMA OneSteps ==
  ASSUME TypeInv, CacheTypeOK', NEW c \in Conns, Kept(files'), Opened(c)',
         \A x \in Conns \ {c} :
           /\ pc'[x] = pc[x] /\ key'[x] = key[x] /\ dir'[x] = dir[x] /\ fp'[x] = fp[x]
           /\ tee'[x] = tee[x] /\ ver'[x] = ver[x]
  PROVE  TypeInv'
  BY OthersOpened DEF TypeInv

\* The types hold where nothing is open.
LEMMA InitTyped == Init => TypeInv
<1> SUFFICES ASSUME Init PROVE TypeInv
  OBVIOUS
<1>1. <<>> \in Texts
  BY DEF Texts
<1>2. CacheTypeOK
  BY <1>1, BoundsAssumption DEF Init, CacheTypeOK, Versions
<1>3. \A c \in Conns : Opened(c)
  BY DEF Init, Opened, Writing
<1> QED
  BY <1>2, <1>3 DEF TypeInv

\* The steps of cddb_read up to the record keep the types.
LEMMA ReadTyped ==
  ASSUME TypeInv, NEW c \in Conns,
         \/ \E k \in Keys : CddbRead(c, k)
         \/ CacheOpenRead(c) \/ CacheParse(c) \/ ReadCommand(c)
  PROVE  TypeInv' /\ Kept(files')
<1> USE DEF Return, GoTo, NoEntry, shared
<1>0. /\ CacheTypeOK /\ Opened(c) /\ Kept(files) /\ files \in FileMaps /\ <<>> \in Texts
      /\ fp[c] \in Handles \cup {Absent} /\ fp \in [Conns -> Handles \cup {Absent}]
  BY DEF TypeInv, Kept, CacheTypeOK, FileMaps, Texts
<1>1. ASSUME NEW k \in Keys, CddbRead(c, k) PROVE TypeInv' /\ Kept(files')
  <2>1. CacheTypeOK'
    <3>1. \/ pc' = [pc EXCEPT ![c] = "openRead"] /\ ret' = ret
          \/ pc' = [pc EXCEPT ![c] = "net"] /\ ret' = ret
          \/ pc' = [pc EXCEPT ![c] = "idle"] /\ ret' = [ret EXCEPT ![c] = "notfound"]
      BY <1>1 DEF CddbRead
    <3> QED
      BY <1>0, <1>1, <3>1 DEF CddbRead, CacheTypeOK
  <2>2. Opened(c)'
    BY <1>0, <1>1 DEF CddbRead, Opened, Writing, Exists, CacheTypeOK
  <2>3. /\ files' = files
        /\ \A x \in Conns \ {c} :
             /\ pc'[x] = pc[x] /\ key'[x] = key[x] /\ dir'[x] = dir[x] /\ fp'[x] = fp[x]
             /\ tee'[x] = tee[x] /\ ver'[x] = ver[x]
    BY <1>0, <1>1 DEF CddbRead, CacheTypeOK
  <2> QED
    BY <1>0, <2>1, <2>2, <2>3, OneSteps
<1>2. CASE CacheOpenRead(c)
  <2>1. CASE Open(c, key[c], "r") /\ GoTo(c, "parse")
    <3>1. /\ files' \in FileMaps /\ Kept(files')
          /\ fp' \in [Conns -> Handles \cup {Absent}] /\ fp'[c] # Absent
          /\ fp'[c] = [dir |-> dir[c], key |-> key[c], way |-> "r", at |-> 0, buf |-> <<>>]
          /\ files'[dir[c]][key[c]] # Absent /\ \A x \in Conns \ {c} : fp'[x] = fp[x]
      BY <1>0, <1>2, <2>1, OpenTyped DEF CacheOpenRead, Opened, Open
    <3>2. CacheTypeOK'
      BY <1>0, <1>2, <2>1, <3>1 DEF CacheOpenRead, CacheTypeOK, FileMaps
    <3>3. Opened(c)'
      BY <1>0, <1>2, <2>1, <3>1 DEF CacheOpenRead, Opened, Writing, CacheTypeOK
    <3> QED
      BY <1>0, <1>2, <2>1, <3>1, <3>2, <3>3, OneSteps DEF CacheOpenRead, CacheTypeOK
  <2>2. CASE Shut(c) /\ NoEntry(c)
    <3>1. /\ files' \in FileMaps /\ Kept(files') /\ fp' \in [Conns -> Handles \cup {Absent}]
          /\ fp'[c] = Absent /\ \A x \in Conns \ {c} : fp'[x] = fp[x]
      BY <1>0, <2>2, ShutTyped DEF Shut
    <3>2. CacheTypeOK'
      BY <1>0, <1>2, <2>2, <3>1 DEF CacheOpenRead, CacheTypeOK, FileMaps
    <3>3. Opened(c)'
      BY <1>0, <1>2, <2>2, <3>1 DEF CacheOpenRead, Opened, Writing, CacheTypeOK
    <3> QED
      BY <1>0, <1>2, <2>2, <3>1, <3>2, <3>3, OneSteps DEF CacheOpenRead, CacheTypeOK
  <2> QED
    BY <1>2, <2>1, <2>2 DEF CacheOpenRead
<1>3. CASE CacheParse(c)
  <2>1. /\ fp[c] # Absent /\ fp[c] \in Handles /\ fp[c].dir \in Dirs /\ fp[c].key \in Keys
        /\ fp[c].at \in Nat /\ files[fp[c].dir][fp[c].key] \in Texts /\ got[c] \in Texts
        /\ pc[c] = "parse"
    BY <1>0, <1>3 DEF CacheParse, Opened, Handles, CacheTypeOK
  <2>2. CASE UNCHANGED <<files, pc, ret>>
    <3> DEFINE text == files[fp[c].dir][fp[c].key]
    <3>1. CASE /\ fp[c].at < Len(text)
               /\ got' = [got EXCEPT ![c] = Append(@, text[fp[c].at + 1])]
               /\ fp' = [fp EXCEPT ![c].at = @ + 1]
      <4>1. Append(got[c], text[fp[c].at + 1]) \in Texts
        <5>1. \A s \in Seq(Nat), i \in Nat : i < Len(s) => s[i + 1] \in Nat
          OBVIOUS
        <5>2. text[fp[c].at + 1] \in Nat
          BY <2>1, <3>1, <5>1 DEF Texts
        <5> QED
          BY <2>1, <5>2 DEF Texts
      <4>2. /\ [fp[c] EXCEPT !.at = @ + 1] \in Handles /\ fp'[c] = [fp[c] EXCEPT !.at = @ + 1]
            /\ fp'[c].dir = fp[c].dir /\ fp'[c].key = fp[c].key /\ fp'[c].way = fp[c].way
        BY <1>0, <2>1, <3>1 DEF Handles
      <4>3. fp' \in [Conns -> Handles \cup {Absent}] /\ fp'[c] # Absent
        BY <1>0, <3>1, <4>2, AbsentAssumption
      <4>4. CacheTypeOK'
        BY <1>0, <1>3, <2>2, <3>1, <4>1, <4>3 DEF CacheParse, CacheTypeOK
      <4>5. Opened(c)'
        BY <1>0, <1>3, <2>1, <2>2, <3>1, <4>2, <4>3 DEF CacheParse, Opened, Writing, CacheTypeOK
      <4> QED
        BY <1>0, <1>3, <2>2, <3>1, <4>4, <4>5, OneSteps DEF CacheParse, CacheTypeOK
    <3>2. ASSUME Shut(c), Return(c, "ok") \/ NoEntry(c) PROVE FALSE
      BY <1>0, <2>1, <2>2, <3>2 DEF CacheTypeOK
    <3> QED
      BY <1>3, <2>2, <3>1, <3>2 DEF CacheParse
  <2>3. CASE Shut(c) /\ (Return(c, "ok") \/ NoEntry(c)) /\ got'\in [Conns -> Texts]
    <3>1. /\ files' \in FileMaps /\ Kept(files') /\ fp' \in [Conns -> Handles \cup {Absent}]
          /\ fp'[c] = Absent /\ \A x \in Conns \ {c} : fp'[x] = fp[x]
      BY <1>0, <2>3, ShutTyped DEF Shut
    <3>2. CacheTypeOK'
      BY <1>0, <1>3, <2>3, <3>1 DEF CacheParse, CacheTypeOK, FileMaps
    <3>3. Opened(c)'
      BY <1>0, <1>3, <2>1, <2>3, <3>1 DEF CacheParse, Opened, Writing, CacheTypeOK
    <3> QED
      BY <1>0, <1>3, <2>3, <3>1, <3>2, <3>3, OneSteps DEF CacheParse, CacheTypeOK
  <2> QED
    BY <1>0, <1>3, <2>2, <2>3, ZenonT(60) DEF CacheParse, CacheTypeOK
<1>4. CASE ReadCommand(c)
  <2>1. db[key[c]] # 0 => db[key[c]] \in Versions
    BY <1>0, <1>4, BoundsAssumption DEF ReadCommand, Opened, CacheTypeOK, Versions
  <2>2. CacheTypeOK'
    <3>1. 0..MaxVersion = {0} \cup Versions
      BY BoundsAssumption DEF Versions
    <3>2. ver' = ver \/ (ver' = [ver EXCEPT ![c] = db[key[c]]] /\ db[key[c]] \in Versions)
      BY <1>4, <2>1 DEF ReadCommand
    <3>3. ver' \in [Conns -> 0..MaxVersion]
      BY <1>0, <3>1, <3>2, ZenonT(60) DEF CacheTypeOK
    <3> QED
      BY <1>0, <1>4, <3>3 DEF ReadCommand, CacheTypeOK
  <2>3. Opened(c)'
    BY <1>0, <1>4, <2>1 DEF ReadCommand, Opened, Writing, CacheTypeOK
  <2> QED
    BY <1>0, <1>4, <2>2, <2>3, OneSteps DEF ReadCommand, CacheTypeOK
<1> QED
  BY <1>1, <1>2, <1>3, <1>4

\* The steps of cddb_parse_record on a record from the server keep the types.
LEMMA RecordTyped ==
  ASSUME TypeInv, NEW c \in Conns,
         RecordStart(c) \/ CacheOpenWrite(c) \/ ReceiveLine(c) \/ ReceiveEnd(c)
           \/ ReceiveTrackNotFound(c)
  PROVE  TypeInv' /\ Kept(files')
<1> USE DEF Return, GoTo, shared
<1>0. /\ CacheTypeOK /\ Opened(c) /\ Kept(files) /\ files \in FileMaps
      /\ fp[c] \in Handles \cup {Absent} /\ fp \in [Conns -> Handles \cup {Absent}]
  BY DEF TypeInv, Kept, CacheTypeOK, FileMaps
<1>1. CASE RecordStart(c)
  <2>1. CacheTypeOK'
    BY <1>0, <1>1 DEF RecordStart, CacheTypeOK
  <2>2. Opened(c)'
    BY <1>0, <1>1 DEF RecordStart, Opened, Writing, CacheTypeOK
  <2> QED
    BY <1>0, <1>1, <2>1, <2>2, OneSteps DEF RecordStart, CacheTypeOK
<1>2. CASE CacheOpenWrite(c)
  <2>1. key[c] \in Keys /\ dir[c] \in Dirs /\ ~tee[c] /\ ver[c] \in Versions
    BY <1>0, <1>2 DEF CacheOpenWrite, Opened, CacheTypeOK
  <2>2. CASE Open(c, key[c], "w") /\ Mend(c) /\ tee' = [tee EXCEPT ![c] = TRUE]
    <3>1. /\ files' \in FileMaps /\ Kept(files')
          /\ fp' \in [Conns -> Handles \cup {Absent}] /\ fp'[c] # Absent
          /\ fp'[c] = [dir |-> dir[c], key |-> key[c], way |-> "w", at |-> 0, buf |-> <<>>]
          /\ files'[dir[c]][key[c]] # Absent /\ \A x \in Conns \ {c} : fp'[x] = fp[x]
      BY <1>0, <2>1, <2>2, OpenTyped DEF Open
    <3>2. CacheTypeOK'
      BY <1>0, <1>2, <2>2, <3>1 DEF CacheOpenWrite, CacheTypeOK, FileMaps, Mend
    <3>3. Opened(c)'
      BY <1>0, <1>2, <2>1, <2>2, <3>1 DEF CacheOpenWrite, Opened, Writing, CacheTypeOK
    <3> QED
      BY <1>0, <1>2, <2>2, <3>1, <3>2, <3>3, OneSteps DEF CacheOpenWrite, CacheTypeOK
  <2>3. CASE Shut(c) /\ UNCHANGED <<tee, marred>>
    <3>1. /\ files' \in FileMaps /\ Kept(files') /\ fp' \in [Conns -> Handles \cup {Absent}]
          /\ fp'[c] = Absent /\ \A x \in Conns \ {c} : fp'[x] = fp[x]
      BY <1>0, <2>3, ShutTyped DEF Shut
    <3>2. CacheTypeOK'
      BY <1>0, <1>2, <2>3, <3>1 DEF CacheOpenWrite, CacheTypeOK, FileMaps
    <3>3. Opened(c)'
      BY <1>0, <1>2, <2>1, <2>3, <3>1 DEF CacheOpenWrite, Opened, Writing, CacheTypeOK
    <3> QED
      BY <1>0, <1>2, <2>3, <3>1, <3>2, <3>3, OneSteps DEF CacheOpenWrite, CacheTypeOK
  <2> QED
    BY <1>2, <2>2, <2>3 DEF CacheOpenWrite
<1>3. CASE ReceiveLine(c)
  <2>1. ver[c] \in Nat /\ got[c] \in Texts /\ pc[c] = "receive"
    BY <1>0, <1>3, BoundsAssumption DEF ReceiveLine, CacheTypeOK
  <2>2. Append(got[c], ver[c]) \in Texts
    BY <2>1 DEF Texts
  <2>3. /\ files' \in FileMaps /\ Kept(files') /\ fp' \in [Conns -> Handles \cup {Absent}]
        /\ \A x \in Conns \ {c} : fp'[x] = fp[x]
        /\ fp'[c] # Absent => fp[c] # Absent /\ fp'[c].dir = fp[c].dir /\ fp'[c].key = fp[c].key
        /\ tee[c] => fp'[c] # Absent /\ fp'[c].way = fp[c].way
    <3>1. CASE tee[c]
      <4>1. fp[c] # Absent /\ Put(c, ver[c])
        BY <1>0, <1>3, <2>1, <3>1 DEF ReceiveLine, Opened, Writing
      <4> QED
        BY <1>0, <2>1, <4>1, PutTyped DEF Put
    <3>2. CASE ~tee[c]
      BY <1>0, <1>3, <3>2 DEF ReceiveLine
    <3> QED
      BY <3>1, <3>2
  <2>4. CacheTypeOK'
    BY <1>0, <1>3, <2>2, <2>3 DEF ReceiveLine, CacheTypeOK, FileMaps
  <2>5. Opened(c)'
    <3>1. fp[c] # Absent => fp[c].dir \in Dirs /\ fp[c].key \in Keys
      BY <1>0 DEF Handles
    <3> QED
      BY <1>0, <1>3, <2>1, <2>3, <3>1 DEF ReceiveLine, Opened, Writing, CacheTypeOK, Kept
  <2> QED
    BY <1>0, <1>3, <2>3, <2>4, <2>5, OneSteps DEF ReceiveLine, CacheTypeOK
<1>4. CASE ReceiveEnd(c)
  <2>1. key[c] \in Keys /\ dir[c] \in Dirs /\ pc[c] = "receive"
    BY <1>0, <1>4 DEF ReceiveEnd, Opened, CacheTypeOK
  <2>2. /\ files' \in FileMaps /\ Kept(files') /\ fp' \in [Conns -> Handles \cup {Absent}]
        /\ \A x \in Conns \ {c} : fp'[x] = fp[x]
        /\ fp'[c] # Absent => fp'[c] = fp[c]
    BY <1>0, <1>4, ShutTyped DEF ReceiveEnd, Shut
  <2>3. CacheTypeOK'
    <3>1. marred' \subseteq Dirs \X Keys
      BY <1>0, <1>4, <2>1 DEF ReceiveEnd, Mar, CacheTypeOK
    <3> QED
      BY <1>0, <1>4, <2>2, <3>1 DEF ReceiveEnd, CacheTypeOK, FileMaps
  <2>4. Opened(c)'
    <3>1. fp[c] # Absent => fp[c].dir \in Dirs /\ fp[c].key \in Keys
      BY <1>0 DEF Handles
    <3>2. pc'[c] = "idle"
      BY <1>0, <1>4 DEF ReceiveEnd, CacheTypeOK
    <3> QED
      BY <1>0, <2>2, <3>1, <3>2 DEF Opened, Writing, Kept
  <2> QED
    BY <1>0, <1>4, <2>2, <2>3, <2>4, OneSteps DEF ReceiveEnd, CacheTypeOK
<1>5. CASE ReceiveTrackNotFound(c)
  <2>1. marred' \subseteq Dirs \X Keys
    BY <1>0, <1>5 DEF ReceiveTrackNotFound, Opened, Mar, CacheTypeOK
  <2>2. CacheTypeOK'
    BY <1>0, <1>5, <2>1 DEF ReceiveTrackNotFound, CacheTypeOK
  <2>3. Opened(c)'
    BY <1>0, <1>5 DEF ReceiveTrackNotFound, Opened, Writing, CacheTypeOK
  <2> QED
    BY <1>0, <1>5, <2>2, <2>3, OneSteps DEF ReceiveTrackNotFound, CacheTypeOK
<1> QED
  BY <1>1, <1>2, <1>3, <1>4, <1>5

\* The whole of a version.
LEMMA WholeText ==
  ASSUME NEW v \in Nat
  PROVE  /\ [i \in 1..Lines |-> v] \in Texts
         /\ Len([i \in 1..Lines |-> v]) = Lines
  BY LinesAssumption DEF Texts

\* The steps of cddb_write keep the types.
LEMMA WriteTyped ==
  ASSUME TypeInv, NEW c \in Conns,
         \/ \E k \in Keys : CddbWrite(c, k)
         \/ CacheOpenEntry(c) \/ CacheFill(c) \/ Submit(c)
  PROVE  TypeInv' /\ Kept(files')
<1> USE DEF Return, GoTo, shared
<1>0. /\ CacheTypeOK /\ Opened(c) /\ Kept(files) /\ files \in FileMaps /\ <<>> \in Texts
      /\ fp[c] \in Handles \cup {Absent} /\ fp \in [Conns -> Handles \cup {Absent}]
  BY DEF TypeInv, Kept, CacheTypeOK, FileMaps, Texts
<1>1. ASSUME NEW k \in Keys, CddbWrite(c, k) PROVE TypeInv' /\ Kept(files')
  <2>1. versions + 1 \in Versions /\ versions + 1 \in 0..MaxVersion
    BY <1>0, <1>1, BoundsAssumption DEF CddbWrite, CacheTypeOK, Versions
  <2>2. CacheTypeOK'
    BY <1>0, <1>1, <2>1 DEF CddbWrite, CacheTypeOK
  <2>3. Opened(c)'
    BY <1>0, <1>1, <2>1 DEF CddbWrite, Opened, Writing, CacheTypeOK
  <2> QED
    BY <1>0, <1>1, <2>2, <2>3, OneSteps DEF CddbWrite, CacheTypeOK
<1>2. CASE CacheOpenEntry(c)
  <2>1. key[c] \in Keys /\ dir[c] \in Dirs /\ ver[c] \in Versions
    BY <1>0, <1>2 DEF CacheOpenEntry, Opened, CacheTypeOK
  <2>2. /\ files' \in FileMaps /\ Kept(files')
        /\ fp' \in [Conns -> Handles \cup {Absent}] /\ fp'[c] # Absent
        /\ fp'[c] = [dir |-> dir[c], key |-> key[c], way |-> "w", at |-> 0, buf |-> <<>>]
        /\ files'[dir[c]][key[c]] # Absent /\ \A x \in Conns \ {c} : fp'[x] = fp[x]
    BY <1>0, <1>2, <2>1, OpenTyped DEF Open, CacheOpenEntry
  <2>3. CacheTypeOK'
    BY <1>0, <1>2, <2>2 DEF CacheOpenEntry, CacheTypeOK, FileMaps, Mend
  <2>4. Opened(c)'
    BY <1>0, <1>2, <2>1, <2>2 DEF CacheOpenEntry, Opened, Writing, CacheTypeOK
  <2> QED
    BY <1>0, <1>2, <2>2, <2>3, <2>4, OneSteps DEF CacheOpenEntry, CacheTypeOK
<1>3. CASE CacheFill(c)
  <2> DEFINE h == [fp[c] EXCEPT !.buf = [i \in 1..Lines |-> ver[c]]]
  <2>1. fp[c] \in Handles /\ files[fp[c].dir][fp[c].key] # Absent /\ ver[c] \in Nat
        /\ ver[c] \in Versions /\ key[c] \in Keys
    BY <1>0, <1>3, BoundsAssumption DEF CacheFill, Opened, Writing, CacheTypeOK
  <2>2. h \in Handles /\ h.dir = fp[c].dir /\ h.key = fp[c].key
    BY <2>1, WholeText DEF Handles
  <2>3. files' = Flushed(h)
    BY <1>3 DEF CacheFill
  <2> HIDE DEF h
  <2>4. files' \in FileMaps /\ Kept(files')
    BY <1>0, <2>1, <2>2, <2>3, FlushedTyped
  <2>5. fp' \in [Conns -> Handles \cup {Absent}] /\ fp'[c] = Absent
        /\ \A x \in Conns \ {c} : fp'[x] = fp[x]
    BY <1>0, <1>3 DEF CacheFill
  <2>6. CacheTypeOK'
    <3>1. UNCHANGED <<db, versions, crashes, memory, op, mode, dir, key, ver, tee, got, marred>>
          /\ \/ pc' = [pc EXCEPT ![c] = "idle"] /\ ret' = [ret EXCEPT ![c] = "ok"]
             \/ pc' = [pc EXCEPT ![c] = "submit"] /\ ret' = ret
      BY <1>3 DEF CacheFill
    <3> QED
      BY <1>0, <2>4, <2>5, <3>1 DEF CacheTypeOK, FileMaps
  <2>7. Opened(c)'
    BY <1>0, <1>3, <2>1, <2>5 DEF CacheFill, Opened, Writing, CacheTypeOK
  <2>8. \A x \in Conns \ {c} : /\ pc'[x] = pc[x] /\ key'[x] = key[x] /\ dir'[x] = dir[x]
                              /\ tee'[x] = tee[x] /\ ver'[x] = ver[x]
    BY <1>0, <1>3 DEF CacheFill, CacheTypeOK
  <2> QED
    BY <1>0, <2>4, <2>5, <2>6, <2>7, <2>8, OneSteps
<1>4. CASE Submit(c)
  <2>1. CacheTypeOK'
    <3>1. db' = db \/ db' = [db EXCEPT ![key[c]] = ver[c]]
      BY <1>4 DEF Submit
    <3>2. db' \in [Keys -> 0..MaxVersion]
      BY <1>0, <3>1 DEF CacheTypeOK
    <3> QED
      BY <1>0, <1>4, <3>2 DEF Submit, CacheTypeOK
  <2>2. Opened(c)'
    BY <1>0, <1>4 DEF Submit, Opened, Writing, CacheTypeOK
  <2> QED
    BY <1>0, <1>4, <2>1, <2>2, OneSteps DEF Submit, CacheTypeOK
<1> QED
  BY <1>1, <1>2, <1>3, <1>4

\* A query that the cache answers, or not, keeps the types.
LEMMA QueryTyped ==
  ASSUME TypeInv, NEW c \in Conns,
         \E d \in Discs : CddbQueryCached(c, d) \/ CddbQueryMisses(c, d)
  PROVE  TypeInv' /\ UNCHANGED files
<1> USE DEF Return, GoTo, shared
<1>0. CacheTypeOK /\ Opened(c) /\ Kept(files)
  BY DEF TypeInv, Kept
<1>1. PICK d \in Discs : CddbQueryCached(c, d) \/ CddbQueryMisses(c, d)
  OBVIOUS
<1>2. CASE CddbQueryCached(c, d)
  <2>1. /\ \A i \in DOMAIN Cats : <<Cats[i], d>> \in Keys
        /\ Hash[d] \in Slots /\ Process[c] \in Range(Process)
    BY <1>1, ProcessAssumption DEF Keys, Range, Slots
  <2>2. Remembers(c, d) => <<memory[Process[c]][Hash[d]][1], d>> \in Keys
    BY <1>0, <1>1, <2>1 DEF Remembers, CacheTypeOK, Keys
  <2>3. \/ /\ key' = [key EXCEPT ![c] = <<memory[Process[c]][Hash[d]][1], d>>]
           /\ memory' = memory /\ Remembers(c, d)
        \/ \E i \in DOMAIN Cats :
             /\ key' = [key EXCEPT ![c] = <<Cats[i], d>>]
             /\ memory' = [memory EXCEPT ![Process[c]][Hash[d]] = <<Cats[i], d>>]
    BY <1>2 DEF CddbQueryCached, Found
  <2>4. key' \in [Conns -> Keys \cup {Absent}]
    BY <1>0, <2>1, <2>2, <2>3, ZenonT(60) DEF CacheTypeOK
  <2>5. memory' \in [Range(Process) -> [Slots -> Keys \cup {Absent}]]
    <3>1. ASSUME NEW k \in Keys, memory' = [memory EXCEPT ![Process[c]][Hash[d]] = k]
          PROVE  memory' \in [Range(Process) -> [Slots -> Keys \cup {Absent}]]
      BY <1>0, <2>1, <3>1 DEF CacheTypeOK
    <3>2. memory \in [Range(Process) -> [Slots -> Keys \cup {Absent}]]
      BY <1>0 DEF CacheTypeOK
    <3> QED
      BY <2>1, <2>3, <3>1, <3>2
  <2>6. CacheTypeOK'
    BY <1>0, <1>2, <2>4, <2>5 DEF CddbQueryCached, CacheTypeOK
  <2>7. Opened(c)'
    BY <1>0, <1>2 DEF CddbQueryCached, Opened, Writing, CacheTypeOK
  <2>8. /\ files' = files
        /\ \A x \in Conns \ {c} :
             /\ pc'[x] = pc[x] /\ key'[x] = key[x] /\ dir'[x] = dir[x] /\ fp'[x] = fp[x]
             /\ tee'[x] = tee[x] /\ ver'[x] = ver[x]
    BY <1>0, <1>2, <2>3 DEF CddbQueryCached, CacheTypeOK
  <2> QED
    BY <1>0, <2>6, <2>7, <2>8, OneSteps
<1>3. CASE CddbQueryMisses(c, d)
  <2>1. CacheTypeOK'
    BY <1>0, <1>3 DEF CddbQueryMisses, CacheTypeOK
  <2>2. Opened(c)'
    BY <1>0, <1>3 DEF CddbQueryMisses, Opened, Writing, CacheTypeOK
  <2>3. /\ files' = files
        /\ \A x \in Conns \ {c} :
             /\ pc'[x] = pc[x] /\ key'[x] = key[x] /\ dir'[x] = dir[x] /\ fp'[x] = fp[x]
             /\ tee'[x] = tee[x] /\ ver'[x] = ver[x]
    BY <1>0, <1>3 DEF CddbQueryMisses, CacheTypeOK
  <2> QED
    BY <1>0, <2>1, <2>2, <2>3, OneSteps
<1> QED
  BY <1>1, <1>2, <1>3

\* Settings keep the types.
LEMMA SetTyped ==
  ASSUME TypeInv, NEW c \in Conns, SetCacheMode(c) \/ CddbCacheSetDir(c)
  PROVE  TypeInv' /\ UNCHANGED files
<1> USE DEF shared
<1>0. CacheTypeOK /\ Opened(c) /\ Kept(files)
  BY DEF TypeInv, Kept
<1>1. pc[c] = "idle"
  BY DEF SetCacheMode, CddbCacheSetDir, MayCall
<1>2. CacheTypeOK'
  BY <1>0, ZenonT(60) DEF SetCacheMode, CddbCacheSetDir, CacheTypeOK
<1>3. Opened(c)'
  BY <1>0, <1>1 DEF SetCacheMode, CddbCacheSetDir, Opened, Writing, CacheTypeOK
<1>4. /\ files' = files
      /\ \A x \in Conns \ {c} :
           /\ pc'[x] = pc[x] /\ key'[x] = key[x] /\ dir'[x] = dir[x] /\ fp'[x] = fp[x]
           /\ tee'[x] = tee[x] /\ ver'[x] = ver[x]
  BY <1>0 DEF SetCacheMode, CddbCacheSetDir, CacheTypeOK
<1> QED
  BY <1>0, <1>2, <1>3, <1>4, OneSteps

\* A process that dies leaves the files and has nothing open.
LEMMA CrashTyped ==
  ASSUME TypeInv, NEW p \in Range(Process), Crash(p)
  PROVE  TypeInv' /\ UNCHANGED files
<1> DEFINE Of(f, x) == [c \in Conns |-> IF Process[c] = p THEN x ELSE f[c]]
<1>0. CacheTypeOK /\ Kept(files) /\ <<>> \in Texts
  BY DEF TypeInv, Kept, Texts
<1>1. /\ crashes' = crashes + 1 /\ UNCHANGED <<files, db, versions, dir>>
      /\ memory' = [memory EXCEPT ![p] = [s \in Slots |-> Absent]]
      /\ pc' = Of(pc, "idle") /\ op' = Of(op, "none") /\ mode' = Of(mode, "on")
      /\ fp' = Of(fp, Absent) /\ key' = Of(key, Absent) /\ ver' = Of(ver, 0)
      /\ tee' = Of(tee, FALSE) /\ got' = Of(got, <<>>) /\ ret' = Of(ret, "ok")
      /\ marred' = marred \cup {<<dir[c], key[c]>> : c \in
             {x \in Conns : Process[x] = p /\ (pc[x] = "fill" \/ (pc[x] = "receive" /\ tee[x]))}}
  BY DEF Crash
<1>2. marred' \subseteq Dirs \X Keys
  <2>1. \A x \in Conns : pc[x] # "idle" => <<dir[x], key[x]>> \in Dirs \X Keys
    BY <1>0 DEF TypeInv, Opened, CacheTypeOK
  <2> QED
    BY <1>0, <1>1, <2>1 DEF CacheTypeOK
<1>3. memory' \in [Range(Process) -> [Slots -> Keys \cup {Absent}]]
  BY <1>0, <1>1 DEF CacheTypeOK
<1>4. /\ pc' \in [Conns -> {"idle", "openRead", "parse", "net", "record", "openWrite", "receive",
                            "openEntry", "fill", "submit"}]
      /\ op' \in [Conns -> {"none", "read", "write", "query", "set_dir"}]
      /\ mode' \in [Conns -> {"off", "on", "only"}]
      /\ ret' \in [Conns -> {"ok", "fail", "notfound"}]
  BY <1>0, <1>1 DEF CacheTypeOK
<1>5. /\ fp' \in [Conns -> Handles \cup {Absent}] /\ key' \in [Conns -> Keys \cup {Absent}]
      /\ got' \in [Conns -> Texts] /\ tee' \in [Conns -> BOOLEAN]
  BY <1>0, <1>1 DEF CacheTypeOK
<1>6. ver' \in [Conns -> 0..MaxVersion] /\ crashes' \in Nat
  BY <1>0, <1>1, BoundsAssumption DEF CacheTypeOK
<1>7. CacheTypeOK'
  BY <1>0, <1>1, <1>2, <1>3, <1>4, <1>5, <1>6 DEF CacheTypeOK
<1>8. ASSUME NEW c \in Conns PROVE Opened(c)'
  <2>1. CASE Process[c] = p
    BY <1>1, <2>1 DEF Opened, Writing
  <2>2. CASE Process[c] # p
    BY <1>0, <1>1, <2>2, OthersOpened
  <2> QED
    BY <2>1, <2>2
<1> QED
  BY <1>1, <1>7, <1>8 DEF TypeInv

\* Every step keeps the types, and no entry goes away.
LEMMA TypeStep ==
  ASSUME TypeInv, [Next]_vars
  PROVE  TypeInv' /\ Kept(files')
<1>0. Kept(files)
  BY DEF Kept
<1>1. ASSUME NEW c \in Conns, Step(c) PROVE TypeInv' /\ Kept(files')
  <2>1. CASE UNCHANGED files /\ TypeInv'
    BY <1>0, <2>1
  <2> QED
    BY <1>0, <1>1, <2>1, ReadTyped, RecordTyped, WriteTyped, QueryTyped, SetTyped DEF Step
<1>2. ASSUME NEW p \in Range(Process), Crash(p) PROVE TypeInv' /\ Kept(files')
  BY <1>0, <1>2, CrashTyped
<1>3. CASE UNCHANGED vars
  BY <1>0, <1>3, OthersOpened DEF vars, shared, locals, TypeInv, CacheTypeOK
<1> QED
  BY <1>1, <1>2, <1>3 DEF Next

\* Files, FILEs and what the calls remember keep their types, and no call works on a
\* FILE it does not have open, for any number of connections, processes and
\* directories (cddb_cmd.c).
THEOREM CacheTypes == Spec => [](CacheTypeOK /\ \A c \in Conns : Opened(c))
<1>1. Init => TypeInv
  BY InitTyped
<1>2. TypeInv /\ [Next]_vars => TypeInv'
  BY TypeStep
<1>3. TypeInv => CacheTypeOK /\ \A c \in Conns : Opened(c)
  BY DEF TypeInv
<1> QED
  BY <1>1, <1>2, <1>3, PTL DEF Spec

----------------------------------------------------------------------------
(* A cache that is switched off.                                           *)

\* With its cache off, no call is on its way to a file.
OffInv ==
  \A c \in Conns :
    mode[c] = "off" => /\ pc[c] \notin {"openRead", "parse", "openWrite", "openEntry", "fill"}
                       /\ ~Writing(c)

\* Every step keeps OffInv: the mode does not change during a call.
LEMMA OffStep ==
  ASSUME TypeInv, OffInv, [Next]_vars
  PROVE  OffInv'
<1> USE DEF OffInv, Writing, Return, GoTo, NoEntry, shared
<1>0. CacheTypeOK
  BY DEF TypeInv
<1>1. ASSUME NEW x \in Conns, pc'[x] = pc[x], mode'[x] = mode[x], tee'[x] = tee[x]
      PROVE  mode'[x] = "off" => /\ pc'[x] \notin {"openRead", "parse", "openWrite", "openEntry", "fill"}
                                 /\ ~Writing(x)'
  BY <1>1
<1>2. ASSUME NEW c \in Conns, Step(c) PROVE OffInv'
  <2>1. \A x \in Conns \ {c} : pc'[x] = pc[x] /\ mode'[x] = mode[x] /\ tee'[x] = tee[x]
    <3>1. CASE (\E k \in Keys : CddbRead(c, k)) \/ CacheOpenRead(c) \/ CacheParse(c) \/ ReadCommand(c)
      BY <1>0, <3>1 DEF CddbRead, CacheOpenRead, CacheParse, ReadCommand, CacheTypeOK
    <3>2. CASE RecordStart(c) \/ CacheOpenWrite(c) \/ ReceiveLine(c) \/ ReceiveEnd(c)
                 \/ ReceiveTrackNotFound(c)
      BY <1>0, <3>2 DEF RecordStart, CacheOpenWrite, ReceiveLine, ReceiveEnd, ReceiveTrackNotFound,
                        CacheTypeOK
    <3>3. CASE (\E k \in Keys : CddbWrite(c, k)) \/ CacheOpenEntry(c) \/ CacheFill(c) \/ Submit(c)
      BY <1>0, <3>3 DEF CddbWrite, CacheOpenEntry, CacheFill, Submit, CacheTypeOK
    <3>4. CASE (\E d \in Discs : CddbQueryCached(c, d) \/ CddbQueryMisses(c, d))
                 \/ SetCacheMode(c) \/ CddbCacheSetDir(c)
      BY <1>0, <3>4 DEF CddbQueryCached, CddbQueryMisses, SetCacheMode, CddbCacheSetDir, CacheTypeOK
    <3> QED
      BY <1>2, <3>1, <3>2, <3>3, <3>4 DEF Step
  <2>2. mode'[c] = "off" => /\ pc'[c] \notin {"openRead", "parse", "openWrite", "openEntry", "fill"}
                            /\ ~Writing(c)'
    <3>1. CASE (\E k \in Keys : CddbRead(c, k)) \/ CacheOpenRead(c) \/ CacheParse(c) \/ ReadCommand(c)
      BY <1>0, <3>1 DEF CddbRead, CacheOpenRead, CacheParse, ReadCommand, CacheTypeOK
    <3>2. CASE RecordStart(c) \/ CacheOpenWrite(c) \/ ReceiveLine(c) \/ ReceiveEnd(c)
                 \/ ReceiveTrackNotFound(c)
      BY <1>0, <3>2 DEF RecordStart, CacheOpenWrite, ReceiveLine, ReceiveEnd, ReceiveTrackNotFound,
                        CacheContent, CacheTypeOK, TypeInv, Opened
    <3>3. CASE (\E k \in Keys : CddbWrite(c, k)) \/ CacheOpenEntry(c) \/ CacheFill(c) \/ Submit(c)
      BY <1>0, <3>3 DEF CddbWrite, CacheOpenEntry, CacheFill, Submit, CacheTypeOK
    <3>4. CASE (\E d \in Discs : CddbQueryCached(c, d) \/ CddbQueryMisses(c, d))
                 \/ SetCacheMode(c) \/ CddbCacheSetDir(c)
      BY <1>0, <3>4 DEF CddbQueryCached, CddbQueryMisses, SetCacheMode, CddbCacheSetDir, MayCall,
                        CacheTypeOK
    <3> QED
      BY <1>2, <3>1, <3>2, <3>3, <3>4 DEF Step
  <2> QED
    BY <1>1, <2>1, <2>2
<1>3. ASSUME NEW p \in Range(Process), Crash(p) PROVE OffInv'
  <2>1. \A x \in Conns : \/ pc'[x] = "idle"
                         \/ pc'[x] = pc[x] /\ mode'[x] = mode[x] /\ tee'[x] = tee[x]
    BY <1>3 DEF Crash
  <2> QED
    BY <1>1, <2>1
<1>4. CASE UNCHANGED vars
  BY <1>1, <1>4 DEF vars, locals
<1> QED
  BY <1>2, <1>3, <1>4 DEF Next

\* No step of a connection whose cache is off, in a call or between two calls, touches
\* the files or query_cache, whatever FILE it has left open and whatever the other
\* connections do (cddb_cache_disable).
THEOREM OffIsOff == Spec => OffTouchesNothing
<1>1. Init => TypeInv /\ OffInv
  BY InitTyped DEF Init, OffInv, Writing
<1>2. TypeInv /\ OffInv /\ [Next]_vars => TypeInv' /\ OffInv'
  BY TypeStep, OffStep
<1>3. TypeInv /\ OffInv /\ [Next]_vars =>
        [ \A c \in Conns :
            mode[c] = "off" /\ Step(c) => files' = files /\ memory' = memory ]_vars
  <2> SUFFICES ASSUME TypeInv, OffInv, NEW c \in Conns, mode[c] = "off", Step(c)
               PROVE  files' = files /\ memory' = memory
    OBVIOUS
  <2> USE DEF Return, GoTo, NoEntry, shared, OffInv, Writing
  <2>0. CacheTypeOK
    BY DEF TypeInv
  <2>3. CASE (\E k \in Keys : CddbRead(c, k)) \/ CacheOpenRead(c) \/ CacheParse(c) \/ ReadCommand(c)
    BY <2>0, <2>3 DEF CddbRead, CacheOpenRead, CacheParse, ReadCommand, CacheTypeOK
  <2>4. CASE RecordStart(c) \/ CacheOpenWrite(c) \/ ReceiveLine(c) \/ ReceiveEnd(c)
               \/ ReceiveTrackNotFound(c)
    BY <2>0, <2>4 DEF RecordStart, CacheOpenWrite, ReceiveLine, ReceiveEnd, ReceiveTrackNotFound,
                      CacheTypeOK
  <2>5. CASE (\E k \in Keys : CddbWrite(c, k)) \/ CacheOpenEntry(c) \/ CacheFill(c) \/ Submit(c)
    BY <2>0, <2>5 DEF CddbWrite, CacheOpenEntry, CacheFill, Submit, CacheTypeOK
  <2>6. CASE (\E d \in Discs : CddbQueryCached(c, d) \/ CddbQueryMisses(c, d))
               \/ SetCacheMode(c) \/ CddbCacheSetDir(c)
    BY <2>0, <2>6 DEF CddbQueryCached, CddbQueryMisses, SetCacheMode, CddbCacheSetDir, CacheTypeOK
  <2> QED
    BY <2>3, <2>4, <2>5, <2>6 DEF Step
<1> QED
  BY <1>1, <1>2, <1>3, PTL DEF Spec, OffTouchesNothing

----------------------------------------------------------------------------
(* query_cache and one directory.                                          *)

\* What query_cache remembers is in the directory, and so is what a query found.
MemoryInv ==
  /\ \A d \in Dirs, p \in Range(Process), s \in Slots :
       memory[p][s] # Absent => files[d][memory[p][s]] # Absent
  /\ \A d \in Dirs, c \in Conns :
       pc[c] = "idle" /\ op[c] = "query" /\ ret[c] = "ok"
         => key[c] \in Keys /\ files[d][key[c]] # Absent
  /\ \A c \in Conns : pc[c] # "idle" => op[c] # "query"

\* Every step keeps MemoryInv: what is remembered was found, and stays.
LEMMA MemoryStep ==
  ASSUME NEW home, Dirs = {home}, TypeInv, MemoryInv, [Next]_vars
  PROVE  MemoryInv'
<1> USE DEF Return, GoTo, NoEntry, shared
<1>0. CacheTypeOK /\ Kept(files') /\ CacheTypeOK' /\ (\A k \in Keys : k # Absent)
      /\ \A c \in Conns : pc[c] # "idle" => op[c] # "query"
  BY TypeStep, AbsentAssumption DEF TypeInv, MemoryInv
<1>1. ASSUME memory' = memory,
             \A x \in Conns : \/ op'[x] # "query"
                              \/ op'[x] = op[x] /\ pc'[x] = pc[x] /\ ret'[x] = ret[x] /\ key'[x] = key[x]
                              \/ pc'[x] = "idle" /\ ret'[x] # "ok"
      PROVE  MemoryInv'
  <2>1. /\ \A d \in Dirs, p \in Range(Process), s \in Slots :
             memory'[p][s] # Absent => files'[d][memory'[p][s]] # Absent
    BY <1>0, <1>1 DEF MemoryInv, Kept, CacheTypeOK
  <2>2. ASSUME NEW d \in Dirs, NEW c \in Conns,
               pc'[c] = "idle", op'[c] = "query", ret'[c] = "ok"
        PROVE  key'[c] \in Keys /\ files'[d][key'[c]] # Absent
    BY <1>0, <1>1, <2>2 DEF MemoryInv, Kept
  <2>3. \A c \in Conns : pc'[c] # "idle" => op'[c] # "query"
    BY <1>0, <1>1
  <2> QED
    BY <2>1, <2>2, <2>3 DEF MemoryInv
<1>2. ASSUME NEW c \in Conns, Step(c) PROVE MemoryInv'
  <2>1. CASE (\E k \in Keys : CddbRead(c, k)) \/ CacheOpenRead(c) \/ CacheParse(c) \/ ReadCommand(c)
    <3>1. \A x \in Conns : \/ op'[x] # "query"
                           \/ op'[x] = op[x] /\ pc'[x] = pc[x] /\ ret'[x] = ret[x] /\ key'[x] = key[x]
      BY <1>0, <2>1 DEF CddbRead, CacheOpenRead, CacheParse, ReadCommand, CacheTypeOK
    <3>2. memory' = memory
      BY <2>1 DEF CddbRead, CacheOpenRead, CacheParse, ReadCommand
    <3> QED
      BY <1>1, <3>1, <3>2
  <2>2. CASE RecordStart(c) \/ CacheOpenWrite(c) \/ ReceiveLine(c) \/ ReceiveEnd(c)
               \/ ReceiveTrackNotFound(c)
    <3>1. \A x \in Conns : \/ op'[x] # "query"
                           \/ op'[x] = op[x] /\ pc'[x] = pc[x] /\ ret'[x] = ret[x] /\ key'[x] = key[x]
      BY <1>0, <2>2 DEF RecordStart, CacheOpenWrite, ReceiveLine, ReceiveEnd, ReceiveTrackNotFound,
                        CacheTypeOK
    <3>2. memory' = memory
      BY <2>2 DEF RecordStart, CacheOpenWrite, ReceiveLine, ReceiveEnd, ReceiveTrackNotFound
    <3> QED
      BY <1>1, <3>1, <3>2
  <2>3. CASE (\E k \in Keys : CddbWrite(c, k)) \/ CacheOpenEntry(c) \/ CacheFill(c) \/ Submit(c)
    <3>1. \A x \in Conns : \/ op'[x] # "query"
                           \/ op'[x] = op[x] /\ pc'[x] = pc[x] /\ ret'[x] = ret[x] /\ key'[x] = key[x]
      BY <1>0, <2>3 DEF CddbWrite, CacheOpenEntry, CacheFill, Submit, CacheTypeOK
    <3>2. memory' = memory
      BY <2>3 DEF CddbWrite, CacheOpenEntry, CacheFill, Submit
    <3> QED
      BY <1>1, <3>1, <3>2
  <2>4. CASE \E d \in Discs : CddbQueryMisses(c, d)
    BY <1>0, <1>1, <2>4 DEF CddbQueryMisses, CacheTypeOK
  <2>5. CASE SetCacheMode(c) \/ CddbCacheSetDir(c)
    BY <1>0, <1>1, <2>5 DEF SetCacheMode, CddbCacheSetDir, CacheTypeOK
  <2>6. ASSUME NEW d \in Discs, CddbQueryCached(c, d) PROVE MemoryInv'
    <3>1. PICK k \in Keys :
            /\ files[home][k] # Absent /\ key' = [key EXCEPT ![c] = k]
            /\ memory' = memory \/ memory' = [memory EXCEPT ![Process[c]][Hash[d]] = k]
      <4>1. Hash[d] \in Slots /\ Process[c] \in Range(Process) /\ dir[c] = home
        BY <1>0, ProcessAssumption DEF Slots, Range, CacheTypeOK
      <4>2. CASE Remembers(c, d) /\ UNCHANGED memory
                 /\ key' = [key EXCEPT ![c] = <<memory[Process[c]][Hash[d]][1], d>>]
        <5> DEFINE e == memory[Process[c]][Hash[d]]
        <5>1. e \in Keys /\ e[2] = d /\ files[home][e] # Absent
          BY <1>0, <4>1, <4>2 DEF Remembers, MemoryInv, CacheTypeOK
        <5>2. e = <<e[1], d>>
          BY <5>1 DEF Keys
        <5> QED
          BY <4>2, <5>1, <5>2
      <4>3. CASE \E i \in Found(c, d) :
                   /\ key' = [key EXCEPT ![c] = <<Cats[i], d>>]
                   /\ memory' = [memory EXCEPT ![Process[c]][Hash[d]] = <<Cats[i], d>>]
        <5>1. \A i \in Found(c, d) : <<Cats[i], d>> \in Keys /\ files[home][<<Cats[i], d>>] # Absent
          BY <4>1 DEF Found, Exists, Keys, Range
        <5> QED
          BY <4>3, <5>1
      <4> QED
        BY <2>6, <4>2, <4>3 DEF CddbQueryCached
    <3>0. /\ files' = files /\ op' = [op EXCEPT ![c] = "query"]
          /\ pc' = [pc EXCEPT ![c] = "idle"] /\ ret' = [ret EXCEPT ![c] = "ok"]
      BY <2>6 DEF CddbQueryCached
    <3>2. \A x \in Conns \ {c} :
            op'[x] = op[x] /\ pc'[x] = pc[x] /\ ret'[x] = ret[x] /\ key'[x] = key[x]
      BY <1>0, <3>0, <3>1 DEF CacheTypeOK
    <3>3. pc'[c] = "idle" /\ key'[c] = k
      BY <1>0, <3>0, <3>1 DEF CacheTypeOK
    <3>4. ASSUME NEW p \in Range(Process), NEW s \in Slots, memory'[p][s] # Absent
          PROVE  files[home][memory'[p][s]] # Absent
      <4>1. memory'[p][s] = memory[p][s] \/ memory'[p][s] = k
        BY <1>0, <3>1, SMTT(30) DEF CacheTypeOK
      <4> QED
        BY <3>1, <3>4, <4>1 DEF MemoryInv
    <3> QED
      BY <1>0, <3>0, <3>1, <3>2, <3>3, <3>4 DEF MemoryInv
  <2> QED
    BY <1>2, <2>1, <2>2, <2>3, <2>4, <2>5, <2>6 DEF Step
<1>3. ASSUME NEW p \in Range(Process), Crash(p) PROVE MemoryInv'
  <2>1. \A x \in Conns : \/ op'[x] # "query"
                         \/ op'[x] = op[x] /\ pc'[x] = pc[x] /\ ret'[x] = ret[x] /\ key'[x] = key[x]
    BY <1>3 DEF Crash
  <2>2. /\ memory' = [memory EXCEPT ![p] = [s \in Slots |-> Absent]]
        /\ files' = files
    BY <1>3 DEF Crash
  <2>3. \A q \in Range(Process), s \in Slots :
          memory'[q][s] # Absent => memory'[q][s] = memory[q][s]
    BY <1>0, <2>2 DEF CacheTypeOK
  <2> QED
    BY <1>0, <2>1, <2>2, <2>3 DEF MemoryInv
<1>4. CASE UNCHANGED vars
  BY <1>1, <1>4 DEF vars, locals
<1> QED
  BY <1>2, <1>3, <1>4 DEF Next

\* With one directory, a disc that cddb_query has found in the cache can be read from
\* it, for any number of connections and processes that use it, and of discs that
\* share a slot of query_cache (cddb_cache_query).
THEOREM QueriesFindEntries ==
  ASSUME NEW home, Dirs = {home}
  PROVE  Spec => []QueryHitIsCached
<1>1. Init => TypeInv /\ MemoryInv
  BY InitTyped DEF Init, MemoryInv
<1>2. TypeInv /\ MemoryInv /\ [Next]_vars => TypeInv' /\ MemoryInv'
  BY TypeStep, MemoryStep
<1>3. TypeInv /\ MemoryInv => QueryHitIsCached
  BY DEF QueryHitIsCached, Exists, MemoryInv, TypeInv, CacheTypeOK
<1> QED
  BY <1>1, <1>2, <1>3, PTL DEF Spec

----------------------------------------------------------------------------
(* What is in the entries, for a process with one connection.              *)

\* The lines are all of one version.
OfVersion(text, v) == \A i \in DOMAIN text : text[i] = v

\* A FILE that is open for writing stands at the end of what is written, and
\* what it holds back is of the same version; one that was left open is on an
\* entry whose writer was stopped.
HandleInv(c) ==
  fp[c] # Absent /\ fp[c].way = "w" =>
    LET text == files[fp[c].dir][fp[c].key] IN
    /\ Len(text) = fp[c].at
    /\ \E v \in Versions : OfVersion(text, v) /\ OfVersion(fp[c].buf, v)
    /\ ~Writing(c) => <<fp[c].dir, fp[c].key>> \in marred

\* What has been read and what has been written so far.
ProgressInv(c) ==
  /\ pc[c] \in {"openRead", "net", "record", "openWrite"} => got[c] = <<>>
  /\ pc[c] = "openWrite" => ~Exists(c, key[c])
  /\ pc[c] = "receive" => OfVersion(got[c], ver[c]) /\ Len(got[c]) <= Lines
  /\ Writing(c) => /\ OfVersion(files[dir[c]][key[c]], ver[c])
                   /\ OfVersion(fp[c].buf, ver[c])
  /\ pc[c] = "receive" /\ tee[c] => fp[c].at + Len(fp[c].buf) = Len(got[c])
  /\ pc[c] = "fill" => fp[c].at = 0 /\ fp[c].buf = <<>>

\* The invariant behind what CddbCache promises of entries.
EntryInv(c) == HandleInv(c) /\ ProgressInv(c) /\ OneVersion /\ WholeEntries

\* What an entry is like once a FILE has written what it holds back.
LEMMA FlushedText ==
  ASSUME CacheTypeOK, NEW h \in Handles, files[h.dir][h.key] # Absent, NEW v,
         Len(files[h.dir][h.key]) = h.at,
         OfVersion(files[h.dir][h.key], v), OfVersion(h.buf, v)
  PROVE  /\ Flushed(h)[h.dir][h.key] \in Texts
         /\ Len(Flushed(h)[h.dir][h.key]) = h.at + Len(h.buf)
         /\ OfVersion(Flushed(h)[h.dir][h.key], v)
         /\ \A d \in Dirs, k \in Keys :
              <<d, k>> # <<h.dir, h.key>> => Flushed(h)[d][k] = files[d][k]
<1> DEFINE old == files[h.dir][h.key]
           new == Over(old, Len(old), h.buf)
<1>1. h.dir \in Dirs /\ h.key \in Keys /\ h.buf \in Texts /\ old \in Texts
  BY DEF CacheTypeOK, Handles
<1>2. Flushed(h) = [files EXCEPT ![h.dir][h.key] = new]
  BY DEF Flushed
<1>3. new \in Texts /\ Len(new) = Len(old) + Len(h.buf)
      /\ \A i \in 1..(Len(old) + Len(h.buf)) : new[i] = IF i > Len(old) THEN h.buf[i - Len(old)] ELSE old[i]
  <2>1. Len(old) \in Nat
    BY <1>1 DEF Texts
  <2> QED
    BY <1>1, <2>1, OverTyped, OverAppends
<1> HIDE DEF new
<1>4. OfVersion(new, v)
  <2>1. Len(old) \in Nat /\ Len(h.buf) \in Nat /\ DOMAIN old = 1..Len(old)
        /\ DOMAIN h.buf = 1..Len(h.buf) /\ DOMAIN new = 1..(Len(old) + Len(h.buf))
    BY <1>1, <1>3 DEF Texts
  <2> SUFFICES ASSUME NEW i \in 1..(Len(old) + Len(h.buf)) PROVE new[i] = v
    BY <2>1 DEF OfVersion
  <2>2. CASE i > Len(old)
    <3>1. i - Len(old) \in DOMAIN h.buf
      BY <2>1, <2>2
    <3> QED
      BY <1>3, <2>2, <3>1 DEF OfVersion
  <2>3. CASE ~(i > Len(old))
    <3>1. i \in DOMAIN old
      BY <2>1, <2>3
    <3> QED
      BY <1>3, <2>1, <2>3, <3>1 DEF OfVersion
  <2> QED
    BY <2>2, <2>3
<1>5. Flushed(h)[h.dir][h.key] = new
  BY <1>1, <1>2 DEF CacheTypeOK
<1> QED
  BY <1>1, <1>2, <1>3, <1>4, <1>5 DEF CacheTypeOK

\* Closing the FILE of the connection: one version, no shorter than before, and
\* nothing changes but the entry that was open for writing.
LEMMA ClosedText ==
  ASSUME TypeInv, NEW c \in Conns, HandleInv(c), OneVersion, NEW d \in Dirs, NEW k \in Keys
  PROVE  /\ Closed(fp[c])[d][k] = Absent <=> files[d][k] = Absent
         /\ Closed(fp[c])[d][k] # Absent =>
              \E v \in Versions : OfVersion(Closed(fp[c])[d][k], v)
         /\ files[d][k] # Absent /\ files[d][k] # <<>> => Closed(fp[c])[d][k] # <<>>
         /\ \/ Closed(fp[c])[d][k] = files[d][k]
            \/ fp[c] # Absent /\ fp[c].way = "w" /\ <<d, k>> = <<fp[c].dir, fp[c].key>>
<1>1. CASE fp[c] # Absent /\ fp[c].way = "w"
  <2> DEFINE h == fp[c]
  <2>1. CacheTypeOK /\ h \in Handles /\ files[h.dir][h.key] # Absent /\ Closed(h) = Flushed(h)
        /\ h.dir \in Dirs /\ h.key \in Keys
    BY <1>1 DEF TypeInv, CacheTypeOK, Opened, Closed, Handles
  <2>2. PICK v \in Versions : OfVersion(files[h.dir][h.key], v) /\ OfVersion(h.buf, v)
    BY <1>1 DEF HandleInv
  <2>3. Len(files[h.dir][h.key]) = h.at
    BY <1>1 DEF HandleInv
  <2>4. /\ Flushed(h)[h.dir][h.key] \in Texts
        /\ Len(Flushed(h)[h.dir][h.key]) = h.at + Len(h.buf)
        /\ OfVersion(Flushed(h)[h.dir][h.key], v)
        /\ \A x \in Dirs, y \in Keys :
             <<x, y>> # <<h.dir, h.key>> => Flushed(h)[x][y] = files[x][y]
    BY <2>1, <2>2, <2>3, FlushedText
  <2>5. CASE <<d, k>> = <<h.dir, h.key>>
    <3>1. Len(h.buf) \in Nat /\ files[d][k] \in Texts /\ Len(files[d][k]) = h.at
      BY <2>1, <2>3, <2>5 DEF Handles, Texts, CacheTypeOK
    <3>2. files[d][k] # <<>> => Flushed(h)[d][k] # <<>>
      <4>1. files[d][k] \in Seq(Nat) /\ Flushed(h)[d][k] \in Seq(Nat)
        BY <2>4, <2>5, <3>1 DEF Texts
      <4>2. Len(Flushed(h)[d][k]) = Len(files[d][k]) + Len(h.buf) /\ Len(files[d][k]) \in Nat
        BY <2>4, <2>5, <3>1, <4>1
      <4>3. Len(files[d][k]) # 0 => Len(Flushed(h)[d][k]) # 0
        BY <3>1, <4>2
      <4> QED
        BY <4>1, <4>3, EmptySeq
    <3>3. Flushed(h)[d][k] # Absent
      BY <2>4, <2>5, AbsentAssumption
    <3> QED
      BY <1>1, <2>1, <2>4, <2>5, <3>2, <3>3
  <2>6. CASE <<d, k>> # <<h.dir, h.key>>
    BY <2>1, <2>4, <2>6 DEF OneVersion, OfVersion
  <2> QED
    BY <2>5, <2>6
<1>2. CASE ~(fp[c] # Absent /\ fp[c].way = "w")
  BY <1>2 DEF Closed, OneVersion, OfVersion
<1> QED
  BY <1>1, <1>2

\* The entries are in order where there are none.
LEMMA EntryInit ==
  ASSUME NEW c, Conns = {c}, Init
  PROVE  EntryInv(c)
<1>1. pc[c] = "idle" /\ fp[c] = Absent /\ \A d \in Dirs, k \in Keys : files[d][k] = Absent
  BY DEF Init
<1> QED
  BY <1>1 DEF EntryInv, HandleInv, ProgressInv, OneVersion, WholeEntries, Writing

\* A step that leaves the files alone.
LEMMA FilesAlone ==
  ASSUME NEW c, Conns = {c}, EntryInv(c), ~Writing(c), UNCHANGED <<files, fp, marred>>,
         ProgressInv(c)'
  PROVE  EntryInv(c)'
  BY DEF EntryInv, HandleInv, OneVersion, WholeEntries, Written, Writing, OfVersion

\* A FILE that the call does not write to is closed, and perhaps another opened for
\* reading: what was held back belongs to an entry whose writer was stopped.
LEMMA LeftOverClosed ==
  ASSUME NEW c, Conns = {c}, TypeInv, EntryInv(c), ~Writing(c), files' = Closed(fp[c]),
         marred' = marred, fp'[c] = Absent \/ fp'[c].way = "r", ProgressInv(c)'
  PROVE  EntryInv(c)'
<1>1. ASSUME NEW d \in Dirs, NEW k \in Keys
      PROVE  /\ files'[d][k] = Absent <=> files[d][k] = Absent
             /\ files'[d][k] # Absent => \E v \in Versions : OfVersion(files'[d][k], v)
             /\ \/ files'[d][k] = files[d][k]
                \/ fp[c] # Absent /\ fp[c].way = "w" /\ <<d, k>> = <<fp[c].dir, fp[c].key>>
  BY ClosedText DEF EntryInv
<1>2. HandleInv(c)' /\ OneVersion'
  BY <1>1 DEF HandleInv, OneVersion, OfVersion
<1>3. WholeEntries'
  <2> SUFFICES ASSUME NEW d \in Dirs, NEW k \in Keys, files'[d][k] # Absent,
                      <<d, k>> \notin marred
               PROVE  IsWhole(files'[d][k])
    BY DEF WholeEntries
  <2>1. ~(fp[c] # Absent /\ fp[c].way = "w" /\ <<d, k>> = <<fp[c].dir, fp[c].key>>)
    BY DEF EntryInv, HandleInv
  <2>2. ~Written(d, k)
    BY <2>1 DEF Written
  <2> QED
    BY <1>1, <2>1, <2>2 DEF EntryInv, WholeEntries
<1> QED
  BY <1>2, <1>3 DEF EntryInv

\* An entry is opened for writing.
LEMMA EntryOpened ==
  ASSUME NEW c, Conns = {c}, TypeInv, EntryInv(c), ~Writing(c), key[c] \in Keys,
         Open(c, key[c], "w"), Mend(c), ver[c] \in Versions, Writing(c)',
         UNCHANGED <<key, dir, ver>>
  PROVE  /\ HandleInv(c)' /\ OneVersion' /\ WholeEntries'
         /\ files'[dir[c]][key[c]] = <<>> /\ fp'[c].at = 0 /\ fp'[c].buf = <<>>
         /\ \A d \in Dirs, k \in Keys :
              files[d][k] # Absent /\ files[d][k] # <<>> /\ <<d, k>> # <<dir[c], key[c]>>
                => files'[d][k] # <<>>
<1> DEFINE h == [dir |-> dir[c], key |-> key[c], way |-> "w", at |-> 0, buf |-> <<>>]
<1>1. /\ dir[c] \in Dirs /\ fp \in [Conns -> Handles \cup {Absent}]
      /\ Closed(fp[c]) \in FileMaps
  BY ClosedTyped DEF TypeInv, CacheTypeOK
<1>2. /\ files' = [Closed(fp[c]) EXCEPT ![dir[c]][key[c]] = <<>>]
      /\ fp'[c] = h
  BY <1>1 DEF Open
<1>3. fp'[c] # Absent
  BY OpenTyped
<1>4. /\ files'[dir[c]][key[c]] = <<>>
      /\ \A d \in Dirs, k \in Keys :
           <<d, k>> # <<dir[c], key[c]>> => files'[d][k] = Closed(fp[c])[d][k]
  BY <1>1, <1>2 DEF FileMaps
<1>5. ASSUME NEW d \in Dirs, NEW k \in Keys, <<d, k>> # <<dir[c], key[c]>>
      PROVE  /\ files'[d][k] = Absent <=> files[d][k] = Absent
             /\ files'[d][k] # Absent => \E v \in Versions : OfVersion(files'[d][k], v)
             /\ files[d][k] # Absent /\ files[d][k] # <<>> => files'[d][k] # <<>>
             /\ \/ files'[d][k] = files[d][k]
                \/ fp[c] # Absent /\ fp[c].way = "w" /\ <<d, k>> = <<fp[c].dir, fp[c].key>>
  BY <1>4, <1>5, ClosedText DEF EntryInv
<1>6. DOMAIN <<>> = {} /\ Len(<<>>) = 0
  OBVIOUS
<1>7. \A v : OfVersion(<<>>, v)
  BY <1>6 DEF OfVersion
<1>8. HandleInv(c)'
  BY <1>2, <1>4, <1>6, <1>7 DEF HandleInv
<1>9. OneVersion'
  <2> SUFFICES ASSUME NEW d \in Dirs, NEW k \in Keys, files'[d][k] # Absent
               PROVE  \E v \in Versions : OfVersion(files'[d][k], v)
    BY DEF OneVersion, OfVersion
  <2> QED
    BY <1>4, <1>5, <1>7
<1>10. WholeEntries'
  <2> SUFFICES ASSUME NEW d \in Dirs, NEW k \in Keys, files'[d][k] # Absent,
                      ~Written(d, k)', <<d, k>> \notin marred'
               PROVE  IsWhole(files'[d][k])
    BY DEF WholeEntries
  <2>1. <<d, k>> # <<dir[c], key[c]>>
    BY <1>2, <1>3 DEF Written
  <2>2. <<d, k>> \notin marred
    BY <2>1 DEF Mend
  <2>3. ~(fp[c] # Absent /\ fp[c].way = "w" /\ <<d, k>> = <<fp[c].dir, fp[c].key>>)
    BY <2>2 DEF EntryInv, HandleInv
  <2>4. ~Written(d, k)
    BY <2>3 DEF Written
  <2> QED
    BY <1>5, <2>1, <2>2, <2>3, <2>4 DEF EntryInv, WholeEntries
<1> QED
  BY <1>2, <1>4, <1>5, <1>8, <1>9, <1>10

\* An empty text is of any version.
LEMMA EmptyText ==
  Len(<<>>) = 0 /\ \A v : OfVersion(<<>>, v)
<1>1. DOMAIN <<>> = {}
  OBVIOUS
<1> QED
  BY <1>1 DEF OfVersion

\* A text and one line more of its version.
LEMMA LongerText ==
  ASSUME NEW text \in Texts, NEW v \in Nat, OfVersion(text, v)
  PROVE  OfVersion(Append(text, v), v) /\ Len(Append(text, v)) = Len(text) + 1
<1>1. text \in Seq(Nat) /\ Append(text, v) \in Seq(Nat)
  BY DEF Texts
<1>2. DOMAIN text = 1..Len(text) /\ DOMAIN Append(text, v) = 1..(Len(text) + 1) /\ Len(text) \in Nat
  BY <1>1
<1>3. \A i \in 1..(Len(text) + 1) : Append(text, v)[i] = IF i = Len(text) + 1 THEN v ELSE text[i]
  BY <1>1
<1> QED
  BY <1>1, <1>2, <1>3 DEF OfVersion

\* The steps of cddb_read up to the record write nothing but what was held back.
LEMMA ReadEntry ==
  ASSUME NEW c, Conns = {c}, TypeInv, EntryInv(c),
         \/ \E k \in Keys : CddbRead(c, k)
         \/ CacheOpenRead(c) \/ CacheParse(c) \/ ReadCommand(c)
  PROVE  EntryInv(c)'
<1> USE DEF Return, GoTo, NoEntry, shared
<1>0. CacheTypeOK /\ Opened(c) /\ ProgressInv(c) /\ c \in Conns
  BY DEF TypeInv, EntryInv
<1>1. ASSUME NEW k \in Keys, CddbRead(c, k) PROVE EntryInv(c)'
  <2>1. pc[c] = "idle" /\ pc'[c] \in {"openRead", "net", "idle"} /\ got'[c] = <<>>
    BY <1>0, <1>1 DEF CddbRead, MayCall, CacheTypeOK
  <2>2. ProgressInv(c)'
    BY <2>1 DEF ProgressInv, Writing
  <2> QED
    BY <1>1, <2>1, <2>2, FilesAlone DEF CddbRead, Writing
<1>2. CASE CacheOpenRead(c)
  <2>1. pc[c] = "openRead" /\ pc'[c] \in {"parse", "net", "idle"} /\ got'[c] = got[c]
        /\ got[c] = <<>> /\ marred' = marred
    BY <1>0, <1>2 DEF CacheOpenRead, CacheTypeOK, ProgressInv
  <2>2. ProgressInv(c)'
    BY <2>1 DEF ProgressInv, Writing
  <2>3. files' = Closed(fp[c]) /\ (fp'[c] = Absent \/ fp'[c].way = "r")
    BY <1>0, <1>2 DEF CacheOpenRead, Open, Shut, CacheTypeOK
  <2> QED
    BY <2>1, <2>2, <2>3, LeftOverClosed DEF Writing
<1>3. CASE CacheParse(c)
  <2>1. pc[c] = "parse" /\ fp[c] # Absent /\ fp[c].way = "r" /\ marred' = marred
        /\ fp[c] \in Handles
    BY <1>0, <1>3 DEF CacheParse, Opened, CacheTypeOK
  <2>2. pc'[c] \in {"parse", "idle", "net"} /\ (pc'[c] = "net" => got'[c] = <<>>)
    BY <1>0, <1>3, <2>1 DEF CacheParse, CacheTypeOK
  <2>3. ProgressInv(c)'
    BY <2>2 DEF ProgressInv, Writing
  <2>4. files' = Closed(fp[c]) /\ (fp'[c] = Absent \/ fp'[c].way = "r")
    <3>1. CASE Shut(c)
      BY <1>0, <3>1 DEF Shut, CacheTypeOK
    <3>2. CASE UNCHANGED files /\ fp' = [fp EXCEPT ![c].at = @ + 1]
      <4>1. fp'[c] = [fp[c] EXCEPT !.at = @ + 1]
        BY <1>0, <3>2 DEF CacheTypeOK
      <4>2. fp'[c].way = "r"
        BY <2>1, <4>1 DEF Handles
      <4> QED
        BY <2>1, <3>2, <4>2 DEF Closed
    <3> QED
      BY <1>3, <3>1, <3>2 DEF CacheParse
  <2> QED
    BY <2>1, <2>3, <2>4, LeftOverClosed DEF Writing
<1>4. CASE ReadCommand(c)
  <2>1. pc[c] = "net" /\ pc'[c] \in {"idle", "record"} /\ got'[c] = <<>>
    BY <1>0, <1>4 DEF ReadCommand, CacheTypeOK, ProgressInv
  <2>2. ProgressInv(c)'
    BY <2>1 DEF ProgressInv, Writing
  <2> QED
    BY <1>4, <2>1, <2>2, FilesAlone DEF ReadCommand, Writing
<1> QED
  BY <1>1, <1>2, <1>3, <1>4

\* Steps that leave the files alone and write to none.
LEMMA QuietEntry ==
  ASSUME NEW c, Conns = {c}, TypeInv, EntryInv(c),
         \/ \E k \in Keys : CddbWrite(c, k)
         \/ RecordStart(c) \/ Submit(c)
         \/ \E d \in Discs : CddbQueryCached(c, d) \/ CddbQueryMisses(c, d)
         \/ SetCacheMode(c) \/ CddbCacheSetDir(c)
  PROVE  EntryInv(c)'
<1> USE DEF Return, GoTo, shared
<1>0. CacheTypeOK /\ Opened(c) /\ ProgressInv(c) /\ c \in Conns
  BY DEF TypeInv, EntryInv
<1>1. ASSUME NEW k \in Keys, CddbWrite(c, k) PROVE EntryInv(c)'
  <2>1. pc[c] = "idle" /\ pc'[c] \in {"openEntry", "submit", "idle"}
    BY <1>0, <1>1 DEF CddbWrite, MayCall, CacheTypeOK
  <2> QED
    BY <1>1, <2>1, FilesAlone DEF CddbWrite, ProgressInv, Writing
<1>2. CASE RecordStart(c)
  <2>1. /\ pc[c] = "record" /\ got'[c] = <<>> /\ ~tee'[c]
        /\ pc'[c] = "receive" \/ (pc'[c] = "openWrite" /\ ~Exists(c, key[c]))
    BY <1>0, <1>2 DEF RecordStart, CacheContent, CacheTypeOK, ProgressInv, Opened
  <2>2. ProgressInv(c)'
    BY <1>2, <2>1, EmptyText, LinesAssumption DEF RecordStart, ProgressInv, Writing, Exists
  <2> QED
    BY <1>2, <2>1, <2>2, FilesAlone DEF RecordStart, Writing
<1>3. CASE Submit(c)
  <2>1. pc[c] = "submit" /\ pc'[c] = "idle"
    BY <1>0, <1>3 DEF Submit, CacheTypeOK
  <2> QED
    BY <1>3, <2>1, FilesAlone DEF Submit, ProgressInv, Writing
<1>4. ASSUME NEW d \in Discs, CddbQueryCached(c, d) \/ CddbQueryMisses(c, d) PROVE EntryInv(c)'
  <2>1. pc[c] = "idle" /\ pc'[c] = "idle"
    BY <1>0, <1>4 DEF CddbQueryCached, CddbQueryMisses, MayCall, CacheTypeOK
  <2>2. UNCHANGED <<files, fp, marred>>
    BY <1>4 DEF CddbQueryCached, CddbQueryMisses
  <2> QED
    BY <2>1, <2>2, FilesAlone DEF ProgressInv, Writing
<1>5. CASE SetCacheMode(c) \/ CddbCacheSetDir(c)
  <2>1. pc[c] = "idle" /\ pc'[c] = "idle" /\ UNCHANGED <<files, fp, marred>>
    BY <1>0, <1>5 DEF SetCacheMode, CddbCacheSetDir, MayCall
  <2> QED
    BY <2>1, FilesAlone DEF ProgressInv, Writing
<1> QED
  BY <1>1, <1>2, <1>3, <1>4, <1>5

\* An entry is opened for a record or for cddb_write, or could not be.
LEMMA OpenEntry ==
  ASSUME NEW c, Conns = {c}, TypeInv, EntryInv(c), CacheOpenWrite(c) \/ CacheOpenEntry(c)
  PROVE  EntryInv(c)'
<1> USE DEF GoTo, shared
<1>0. /\ CacheTypeOK /\ Opened(c) /\ ProgressInv(c) /\ c \in Conns
      /\ pc[c] \in {"openWrite", "openEntry"} /\ key[c] \in Keys /\ ver[c] \in Versions
  BY DEF TypeInv, EntryInv, CacheOpenWrite, CacheOpenEntry, Opened
<1>1. CASE CacheOpenWrite(c) /\ Shut(c) /\ UNCHANGED <<tee, marred>>
  <2>1. pc'[c] = "receive" /\ ~tee'[c] /\ got'[c] = <<>> /\ fp'[c] = Absent
        /\ files' = Closed(fp[c])
    BY <1>0, <1>1 DEF CacheOpenWrite, Shut, CacheTypeOK, ProgressInv, Opened
  <2>2. ProgressInv(c)'
    BY <2>1, EmptyText, LinesAssumption DEF ProgressInv, Writing
  <2> QED
    BY <1>0, <1>1, <2>1, <2>2, LeftOverClosed DEF Writing
<1>2. CASE CacheOpenWrite(c) /\ Open(c, key[c], "w") /\ Mend(c) /\ tee' = [tee EXCEPT ![c] = TRUE]
  <2>1. pc'[c] = "receive" /\ tee'[c] /\ got'[c] = <<>> /\ UNCHANGED <<key, dir, ver>>
    BY <1>0, <1>2 DEF CacheOpenWrite, CacheTypeOK, ProgressInv
  <2>2. /\ HandleInv(c)' /\ OneVersion' /\ WholeEntries'
        /\ files'[dir[c]][key[c]] = <<>> /\ fp'[c].at = 0 /\ fp'[c].buf = <<>>
    BY <1>0, <1>2, <2>1, EntryOpened DEF Writing
  <2>3. ProgressInv(c)'
    BY <2>1, <2>2, EmptyText, LinesAssumption DEF ProgressInv, Writing
  <2> QED
    BY <2>2, <2>3 DEF EntryInv
<1>3. CASE CacheOpenEntry(c)
  <2>1. pc'[c] = "fill" /\ UNCHANGED <<key, dir, ver>>
    BY <1>0, <1>3 DEF CacheOpenEntry, CacheTypeOK
  <2>2. /\ HandleInv(c)' /\ OneVersion' /\ WholeEntries'
        /\ files'[dir[c]][key[c]] = <<>> /\ fp'[c].at = 0 /\ fp'[c].buf = <<>>
    BY <1>0, <1>3, <2>1, EntryOpened DEF Writing, CacheOpenEntry
  <2>3. ProgressInv(c)'
    BY <2>1, <2>2, EmptyText DEF ProgressInv, Writing
  <2> QED
    BY <2>2, <2>3 DEF EntryInv
<1> QED
  BY <1>1, <1>2, <1>3 DEF CacheOpenWrite

\* The entry that the connection writes is replaced by more of the same version.
LEMMA EntryGrows ==
  ASSUME NEW c, Conns = {c}, TypeInv, EntryInv(c), Writing(c), NEW text, ver[c] \in Versions,
         OfVersion(text, ver[c]), text # Absent,
         files' = [files EXCEPT ![dir[c]][key[c]] = text],
         marred \subseteq marred'
  PROVE  /\ OneVersion' /\ files'[dir[c]][key[c]] = text
         /\ \A d \in Dirs, k \in Keys :
              <<d, k>> # <<dir[c], key[c]>> /\ files'[d][k] # Absent /\ <<d, k>> \notin marred'
                => IsWhole(files'[d][k])
<1>1. dir[c] \in Dirs /\ key[c] \in Keys /\ files \in FileMaps
  BY DEF TypeInv, CacheTypeOK, Opened, Writing, FileMaps
<1>2. /\ files'[dir[c]][key[c]] = text
      /\ \A d \in Dirs, k \in Keys :
           <<d, k>> # <<dir[c], key[c]>> => files'[d][k] = files[d][k]
  BY <1>1 DEF FileMaps
<1>3. OneVersion'
  BY <1>2 DEF EntryInv, OneVersion, OfVersion
<1>4. ASSUME NEW d \in Dirs, NEW k \in Keys, <<d, k>> # <<dir[c], key[c]>>
      PROVE  ~Written(d, k)
  BY <1>4 DEF Written, TypeInv, Opened
<1> QED
  BY <1>2, <1>3, <1>4 DEF EntryInv, WholeEntries

\* A line of a record is read and, perhaps, written.
LEMMA ReceiveEntry ==
  ASSUME NEW c, Conns = {c}, TypeInv, EntryInv(c), ReceiveLine(c)
  PROVE  EntryInv(c)'
<1> USE DEF shared
<1>0. /\ CacheTypeOK /\ Opened(c) /\ ProgressInv(c) /\ HandleInv(c) /\ c \in Conns
      /\ pc[c] = "receive" /\ ver[c] \in Versions /\ ver[c] \in Nat /\ pc'[c] = "receive"
      /\ got[c] \in Texts /\ Len(got[c]) < Lines /\ dir[c] \in Dirs /\ key[c] \in Keys
  BY DEF TypeInv, EntryInv, ReceiveLine, Opened, Versions, CacheTypeOK
<1>1. /\ got'[c] = Append(got[c], ver[c]) /\ UNCHANGED <<tee, ver, dir, key, marred>>
      /\ OfVersion(got'[c], ver[c]) /\ Len(got'[c]) = Len(got[c]) + 1 /\ Len(got'[c]) <= Lines
  <2>1. got'[c] = Append(got[c], ver[c]) /\ UNCHANGED <<tee, ver, dir, key, marred>>
    BY <1>0 DEF ReceiveLine, CacheTypeOK
  <2>2. Len(got[c]) \in Nat
    BY <1>0 DEF Texts
  <2> QED
    BY <1>0, <2>1, <2>2, LongerText, LinesAssumption DEF ProgressInv
<1>2. CASE ~tee[c]
  <2>1. UNCHANGED <<files, fp, marred>>
    BY <1>1, <1>2 DEF ReceiveLine
  <2> QED
    BY <1>0, <1>1, <1>2, <2>1, FilesAlone DEF ProgressInv, Writing
<1>3. CASE tee[c]
  <2> DEFINE h == fp[c]
             held == [h EXCEPT !.buf = Append(@, ver[c])]
             next == [held EXCEPT !.at = @ + Len(held.buf), !.buf = <<>>]
             text == files[dir[c]][key[c]]
  <2>1. /\ h \in Handles /\ h # Absent /\ h.way = "w" /\ h.dir = dir[c] /\ h.key = key[c]
        /\ text # Absent /\ text \in Texts /\ h.at \in Nat /\ h.buf \in Texts
    BY <1>0, <1>3 DEF Opened, Writing, CacheTypeOK, Handles
  <2>2. /\ Len(text) = h.at /\ OfVersion(text, ver[c]) /\ OfVersion(h.buf, ver[c])
        /\ h.at + Len(h.buf) = Len(got[c])
    BY <1>0, <1>3, <2>1 DEF HandleInv, ProgressInv, Writing
  <2>3. OfVersion(Append(h.buf, ver[c]), ver[c]) /\ Len(Append(h.buf, ver[c])) = Len(h.buf) + 1
        /\ Append(h.buf, ver[c]) \in Texts /\ Len(h.buf) \in Nat
    BY <1>0, <2>1, <2>2, LongerText DEF Texts
  <2>4. /\ held \in Handles /\ held.dir = dir[c] /\ held.key = key[c] /\ held.way = "w"
        /\ held.at = h.at /\ held.buf = Append(h.buf, ver[c])
    BY <2>1, <2>3 DEF Handles
  <2>5. \/ files' = files /\ fp' = [fp EXCEPT ![c] = held]
        \/ files' = Flushed(held) /\ fp' = [fp EXCEPT ![c] = next]
    BY <1>3 DEF ReceiveLine, Put
  <2> HIDE DEF held
  <2>10. held.at + Len(held.buf) = Len(got'[c]) /\ held.at + Len(held.buf) \in Nat
    <3>1. \A a, b, m, n \in Nat : a + b = m /\ n = m + 1 => a + (b + 1) = n /\ a + (b + 1) \in Nat
      OBVIOUS
    <3>2. Len(held.buf) = Len(h.buf) + 1 /\ Len(got'[c]) = Len(got[c]) + 1
      BY <1>1, <2>3, <2>4
    <3>3. Len(got[c]) \in Nat
      BY <1>0 DEF Texts
    <3>4. Len(got'[c]) \in Nat
      BY <3>2, <3>3
    <3>5. h.at + Len(h.buf) = Len(got[c]) /\ h.at \in Nat /\ Len(h.buf) \in Nat
      BY <2>1, <2>2, <2>3
    <3>6. held.at + Len(held.buf) = h.at + (Len(h.buf) + 1)
      BY <2>4, <3>2
    <3>7. /\ h.at + (Len(h.buf) + 1) = Len(got'[c])
          /\ h.at + (Len(h.buf) + 1) \in Nat
      BY <3>1, <3>2, <3>3, <3>4, <3>5
    <3> QED
      BY <3>6, <3>7
  <2>6. /\ next.dir = dir[c] /\ next.key = key[c] /\ next.way = "w"
        /\ next.at = held.at + Len(held.buf) /\ next.buf = <<>>
    BY <2>4 DEF Handles
  <2> HIDE DEF next
  <2>7. fp'[c] # Absent /\ fp'[c] \in Handles
    <3>1. fp'[c] # Absent
      BY <1>0, <1>3, <2>1, PutTyped DEF ReceiveLine
    <3>2. fp' \in [Conns -> Handles \cup {Absent}]
      BY <1>0, <1>3, <2>1, PutTyped DEF ReceiveLine
    <3> QED
      BY <1>0, <3>1, <3>2
  <2>8. CASE files' = files /\ fp' = [fp EXCEPT ![c] = held]
    <3>1. fp'[c] = held
      BY <1>0, <2>8 DEF CacheTypeOK
    <3>2. HandleInv(c)' /\ ProgressInv(c)'
      <4>1. HandleInv(c)'
        BY <1>0, <1>1, <1>3, <2>1, <2>2, <2>3, <2>4, <2>8, <3>1 DEF HandleInv, Writing
      <4>2. ProgressInv(c)'
        <5>1. OfVersion(files'[dir'[c]][key'[c]], ver'[c]) /\ OfVersion(fp'[c].buf, ver'[c])
          BY <1>1, <2>2, <2>3, <2>4, <2>8, <3>1
        <5> QED
          BY <1>0, <1>1, <2>10, <3>1, <5>1 DEF ProgressInv
      <4> QED
        BY <4>1, <4>2
    <3>3. OneVersion' /\ WholeEntries'
      <4>1. \A d \in Dirs, k \in Keys : Written(d, k)' <=> Written(d, k)
        BY <2>1, <2>4, <2>7, <3>1 DEF Written
      <4> QED
        BY <1>1, <2>8, <4>1 DEF EntryInv, OneVersion, WholeEntries
    <3> QED
      BY <3>2, <3>3 DEF EntryInv
  <2>9. CASE files' = Flushed(held) /\ fp' = [fp EXCEPT ![c] = next]
    <3> DEFINE new == Over(text, held.at, held.buf)
    <3>1. fp'[c] = next
      BY <1>0, <2>9 DEF CacheTypeOK
    <3>2. files' = [files EXCEPT ![dir[c]][key[c]] = new]
      BY <2>4, <2>9 DEF Flushed
    <3>3. files'[dir[c]][key[c]] = new
      BY <1>0, <3>2 DEF CacheTypeOK
    <3>4. new \in Texts /\ Len(new) = held.at + Len(held.buf) /\ OfVersion(new, ver[c])
      BY <1>0, <2>1, <2>2, <2>3, <2>4, <2>9, <3>3, FlushedText
    <3> HIDE DEF new
    <3>5. new # Absent
      BY <3>4, AbsentAssumption
    <3>6. /\ OneVersion'
          /\ \A d \in Dirs, k \in Keys :
               <<d, k>> # <<dir[c], key[c]>> /\ files'[d][k] # Absent /\ <<d, k>> \notin marred'
                 => IsWhole(files'[d][k])
      BY <1>0, <1>1, <1>3, <3>2, <3>4, <3>5, EntryGrows DEF Writing
    <3>7. WholeEntries'
      <4>1. \A d \in Dirs, k \in Keys : <<d, k>> = <<dir[c], key[c]>> => Written(d, k)'
        BY <1>0, <2>6, <2>7, <3>1 DEF Written
      <4> QED
        BY <3>6, <4>1 DEF WholeEntries
    <3>8. HandleInv(c)'
      BY <1>0, <1>1, <1>3, <2>4, <2>6, <3>1, <3>3, <3>4, EmptyText DEF HandleInv, Writing
    <3>9. ProgressInv(c)'
      <4>1. next.at + Len(next.buf) = Len(got'[c])
        BY <2>6, <2>10, EmptyText
      <4>2. OfVersion(files'[dir'[c]][key'[c]], ver'[c]) /\ OfVersion(fp'[c].buf, ver'[c])
        BY <1>1, <2>6, <3>1, <3>3, <3>4, EmptyText
      <4> QED
        BY <1>0, <1>1, <3>1, <4>1, <4>2 DEF ProgressInv
    <3> QED
      BY <3>6, <3>7, <3>8, <3>9 DEF EntryInv
  <2> QED
    BY <2>5, <2>8, <2>9
<1> QED
  BY <1>2, <1>3

\* As many lines as an entry has, all of one version, are the whole of it.
LEMMA WholeVersion ==
  ASSUME NEW text \in Texts, NEW v \in Versions, Len(text) = Lines, OfVersion(text, v)
  PROVE  IsWhole(text) /\ text = [i \in 1..Lines |-> v]
<1>1. text \in Seq(Nat) /\ DOMAIN text = 1..Lines
  BY DEF Texts
<1>2. text = [i \in DOMAIN text |-> text[i]]
  BY <1>1
<1>3. text = [i \in 1..Lines |-> v]
  BY <1>1, <1>2 DEF OfVersion
<1> QED
  BY <1>3 DEF IsWhole

\* The FILE of the entry is closed after its last line.
LEMMA EntryFinished ==
  ASSUME NEW c, Conns = {c}, TypeInv, EntryInv(c), Writing(c), NEW h \in Handles,
         h.dir = dir[c], h.key = key[c], h.at = fp[c].at, OfVersion(h.buf, ver[c]),
         files' = Flushed(h), fp'[c] = Absent, pc'[c] \in {"idle", "submit"},
         h.at + Len(h.buf) = Lines \/ <<dir[c], key[c]>> \in marred', marred \subseteq marred'
  PROVE  EntryInv(c)' /\ files'[dir[c]][key[c]] \in Texts
         /\ Len(files'[dir[c]][key[c]]) = h.at + Len(h.buf)
         /\ OfVersion(files'[dir[c]][key[c]], ver[c])
<1> DEFINE text == files[dir[c]][key[c]]
           new == Over(text, h.at, h.buf)
<1>1. /\ c \in Conns /\ CacheTypeOK /\ dir[c] \in Dirs /\ key[c] \in Keys /\ text # Absent
      /\ ver[c] \in Versions /\ ProgressInv(c) /\ HandleInv(c)
      /\ fp[c] # Absent /\ fp[c].way = "w" /\ fp[c].dir = dir[c] /\ fp[c].key = key[c]
  BY DEF TypeInv, CacheTypeOK, Opened, Writing, EntryInv
<1>2. Len(text) = h.at /\ OfVersion(text, ver[c])
  BY <1>1 DEF HandleInv, ProgressInv
<1>3. files' = [files EXCEPT ![dir[c]][key[c]] = new]
  BY DEF Flushed
<1>4. files'[dir[c]][key[c]] = new
  BY <1>1, <1>3 DEF CacheTypeOK
<1>5. new \in Texts /\ Len(new) = h.at + Len(h.buf) /\ OfVersion(new, ver[c])
  BY <1>1, <1>2, <1>4, FlushedText
<1> HIDE DEF new
<1>6. new # Absent
  BY <1>5, AbsentAssumption
<1>7. /\ OneVersion'
      /\ \A d \in Dirs, k \in Keys :
           <<d, k>> # <<dir[c], key[c]>> /\ files'[d][k] # Absent /\ <<d, k>> \notin marred'
             => IsWhole(files'[d][k])
  BY <1>1, <1>3, <1>5, <1>6, EntryGrows
<1>8. \A d \in Dirs, k \in Keys :
        <<d, k>> = <<dir[c], key[c]>> /\ <<d, k>> \notin marred' => IsWhole(files'[d][k])
  BY <1>1, <1>4, <1>5, WholeVersion
<1>9. WholeEntries'
  BY <1>7, <1>8 DEF WholeEntries
<1>10. HandleInv(c)' /\ ProgressInv(c)'
  BY DEF HandleInv, ProgressInv, Writing
<1> QED
  BY <1>4, <1>5, <1>7, <1>9, <1>10 DEF EntryInv

\* The end of a record, and the whole of an entry at once.
LEMMA EndEntry ==
  ASSUME NEW c, Conns = {c}, TypeInv, EntryInv(c), ReceiveEnd(c) \/ CacheFill(c)
  PROVE  /\ EntryInv(c)'
         /\ pc[c] = "receive" /\ tee[c] => files'[dir[c]][key[c]] = got[c]
<1> USE DEF Return, GoTo, shared
<1>0. /\ CacheTypeOK /\ Opened(c) /\ ProgressInv(c) /\ HandleInv(c) /\ c \in Conns
      /\ pc[c] \in {"receive", "fill"} /\ ver[c] \in Versions /\ ver[c] \in Nat
      /\ got[c] \in Texts /\ pc'[c] \in {"idle", "submit"}
  BY DEF TypeInv, EntryInv, ReceiveEnd, CacheFill, Opened, Versions, CacheTypeOK
<1>1. CASE ReceiveEnd(c) /\ ~tee[c]
  <2>1. ~Writing(c) /\ UNCHANGED <<files, fp, marred>> /\ pc[c] = "receive"
    BY <1>1 DEF ReceiveEnd, Writing
  <2> QED
    BY <1>0, <1>1, <2>1, FilesAlone DEF ProgressInv, Writing
<1>2. CASE ReceiveEnd(c) /\ tee[c]
  <2>1. /\ pc[c] = "receive" /\ fp[c] # Absent /\ fp[c].way = "w" /\ fp[c] \in Handles
        /\ fp[c].dir = dir[c] /\ fp[c].key = key[c] /\ OfVersion(fp[c].buf, ver[c])
        /\ fp[c].at + Len(fp[c].buf) = Len(got[c]) /\ OfVersion(got[c], ver[c])
        /\ Len(got[c]) <= Lines /\ Writing(c)
    BY <1>0, <1>2 DEF ReceiveEnd, Opened, Writing, ProgressInv, CacheTypeOK
  <2>2. files' = Flushed(fp[c]) /\ fp'[c] = Absent
    BY <1>0, <1>2, <2>1 DEF ReceiveEnd, Shut, Closed, CacheTypeOK
  <2>3. /\ Len(got[c]) = Lines \/ <<dir[c], key[c]>> \in marred'
        /\ marred \subseteq marred'
    <3>1. Len(got[c]) \in Nat
      BY <1>0 DEF Texts
    <3> QED
      BY <1>2, <2>1, <3>1, LinesAssumption DEF ReceiveEnd, Mar
  <2>4. /\ EntryInv(c)' /\ files'[dir[c]][key[c]] \in Texts
        /\ Len(files'[dir[c]][key[c]]) = Len(got[c])
        /\ OfVersion(files'[dir[c]][key[c]], ver[c])
    BY <1>0, <2>1, <2>2, <2>3, EntryFinished
  <2>5. files'[dir[c]][key[c]] = got[c]
    <3>1. \A s, t \in Seq(Nat) :
            Len(s) = Len(t) /\ (\A i \in 1..Len(s) : s[i] = t[i]) => s = t
      OBVIOUS
    <3>2. \A s \in Seq(Nat) : DOMAIN s = 1..Len(s)
      OBVIOUS
    <3> QED
      BY <1>0, <2>1, <2>4, <3>1, <3>2 DEF OfVersion, Texts
  <2> QED
    BY <2>4, <2>5
<1>3. CASE CacheFill(c)
  <2> DEFINE h == [fp[c] EXCEPT !.buf = [i \in 1..Lines |-> ver[c]]]
  <2>1. /\ pc[c] = "fill" /\ fp[c] # Absent /\ fp[c] \in Handles /\ Writing(c)
        /\ fp[c].dir = dir[c] /\ fp[c].key = key[c] /\ fp[c].at = 0
    BY <1>0, <1>3 DEF CacheFill, Opened, Writing, ProgressInv, CacheTypeOK
  <2>2. /\ h \in Handles /\ h.dir = dir[c] /\ h.key = key[c] /\ h.at = 0
        /\ h.buf = [i \in 1..Lines |-> ver[c]]
    BY <1>0, <2>1, WholeText DEF Handles
  <2>3. files' = Flushed(h)
    BY <1>3 DEF CacheFill
  <2>4. fp'[c] = Absent /\ marred' = marred
    BY <1>0, <1>3 DEF CacheFill, CacheTypeOK
  <2> HIDE DEF h
  <2>5. OfVersion(h.buf, ver[c])
    BY <2>2 DEF OfVersion
  <2>6. h.at + Len(h.buf) = Lines
    BY <1>0, <2>2, WholeText, LinesAssumption
  <2> QED
    BY <1>0, <2>1, <2>2, <2>3, <2>4, <2>5, <2>6, EntryFinished
<1> QED
  BY <1>1, <1>2, <1>3

\* A writer that is stopped, by a track that does not exist or with its process.
LEMMA StopEntry ==
  ASSUME NEW c, Conns = {c}, TypeInv, EntryInv(c),
         ReceiveTrackNotFound(c) \/ \E p \in Range(Process) : Crash(p)
  PROVE  EntryInv(c)'
<1> USE DEF Return, shared
<1>0. /\ CacheTypeOK /\ Opened(c) /\ ProgressInv(c) /\ HandleInv(c) /\ c \in Conns
      /\ OneVersion /\ WholeEntries
  BY DEF TypeInv, EntryInv
<1>1. CASE ReceiveTrackNotFound(c)
  <2>1. pc[c] = "receive" /\ pc'[c] = "idle" /\ UNCHANGED <<files, fp>>
    BY <1>0, <1>1 DEF ReceiveTrackNotFound, CacheTypeOK
  <2>2. ProgressInv(c)'
    BY <2>1 DEF ProgressInv, Writing
  <2>3. CASE ~tee[c]
    BY <1>1, <2>1, <2>2, <2>3, FilesAlone DEF ReceiveTrackNotFound, Writing
  <2>4. CASE tee[c]
    <3>1. marred' = marred \cup {<<dir[c], key[c]>>}
      BY <1>1, <2>4 DEF ReceiveTrackNotFound, Mar
    <3>2. HandleInv(c)'
      BY <1>0, <2>1, <2>4, <3>1 DEF HandleInv, Opened, Writing
    <3>3. OneVersion' /\ WholeEntries'
      BY <1>0, <2>1, <3>1 DEF OneVersion, WholeEntries, Written
    <3> QED
      BY <2>2, <3>2, <3>3 DEF EntryInv
  <2> QED
    BY <2>3, <2>4
<1>2. ASSUME NEW p \in Range(Process), Crash(p) PROVE EntryInv(c)'
  <2>1. p = Process[c]
    BY ProcessAssumption DEF Range
  <2>2. /\ files' = files /\ fp'[c] = Absent /\ pc'[c] = "idle"
        /\ marred \subseteq marred'
        /\ Writing(c) => <<dir[c], key[c]>> \in marred'
    BY <1>0, <1>2, <2>1 DEF Crash, Writing
  <2>3. HandleInv(c)' /\ ProgressInv(c)'
    BY <2>2 DEF HandleInv, ProgressInv, Writing
  <2>4. OneVersion'
    BY <1>0, <2>2 DEF OneVersion
  <2>5. \A d \in Dirs, k \in Keys : Written(d, k) => <<d, k>> \in marred'
    BY <1>0, <2>2 DEF Written, HandleInv, Opened
  <2>6. WholeEntries'
    BY <1>0, <2>2, <2>5 DEF WholeEntries
  <2> QED
    BY <2>3, <2>4, <2>6 DEF EntryInv
<1> QED
  BY <1>1, <1>2

\* Every step keeps EntryInv.
LEMMA EntryStep ==
  ASSUME NEW c, Conns = {c}, TypeInv, EntryInv(c), [Next]_vars
  PROVE  EntryInv(c)'
<1>1. CASE Step(c)
  BY <1>1, ReadEntry, QuietEntry, OpenEntry, ReceiveEntry, EndEntry, StopEntry DEF Step
<1>2. CASE \E p \in Range(Process) : Crash(p)
  BY <1>2, StopEntry
<1>3. CASE UNCHANGED vars
  BY <1>3 DEF vars, shared, locals, EntryInv, HandleInv, ProgressInv, OneVersion, WholeEntries,
              Written, Writing, OfVersion, Exists
<1> QED
  BY <1>1, <1>2, <1>3 DEF Next

\* All there is to say of entries is said of a process with one connection: with two,
\* the stat and the fopen of cddb_parse_record are two steps.
OneConnection == \E c : Conns = {c}

\* The invariant of such a process.
EntriesInv == TypeInv /\ \A c \in Conns : EntryInv(c)

\* A process with one connection starts with EntriesInv.
LEMMA EntriesInit ==
  ASSUME OneConnection, Init
  PROVE  EntriesInv
  BY InitTyped, EntryInit DEF OneConnection, EntriesInv

\* Every step of a process with one connection keeps EntriesInv.
LEMMA EntriesStep ==
  ASSUME OneConnection, EntriesInv, [Next]_vars
  PROVE  EntriesInv'
<1>1. PICK c : Conns = {c}
  BY DEF OneConnection
<1> QED
  BY <1>1, TypeStep, EntryStep DEF EntriesInv

\* For a process with one connection, whatever its directories are and whenever it is
\* cut short, rejected or killed, an entry is the beginning of one version and never a
\* mixture of two (cddb_parse_record, cddb_write, cddb_cache_open).
THEOREM EntriesUnmixed ==
  ASSUME OneConnection
  PROVE  Spec => []OneVersion
<1>1. Init => EntriesInv
  BY EntriesInit
<1>2. EntriesInv /\ [Next]_vars => EntriesInv'
  BY EntriesStep
<1>3. EntriesInv => OneVersion
  BY DEF EntriesInv, EntryInv, OneConnection
<1> QED
  BY <1>1, <1>2, <1>3, PTL DEF Spec

\* For a process with one connection, an entry nobody has open for writing is the whole
\* of one version, unless its last writer was stopped half-way (cddb_parse_record,
\* cddb_write).
THEOREM EntriesWhole ==
  ASSUME OneConnection
  PROVE  Spec => []WholeEntries
<1>1. Init => EntriesInv
  BY EntriesInit
<1>2. EntriesInv /\ [Next]_vars => EntriesInv'
  BY EntriesStep
<1>3. EntriesInv => WholeEntries
  BY DEF EntriesInv, EntryInv, OneConnection
<1> QED
  BY <1>1, <1>2, <1>3, PTL DEF Spec

\* For a process with one connection, the lines of a record that is cached while it is
\* read are the lines the caller is given, and they are in the file when the call
\* returns (cddb_parse_record).
THEOREM RecordsCached ==
  ASSUME OneConnection
  PROVE  Spec => CachedWhatWasRead
<1>1. Init => EntriesInv
  BY EntriesInit
<1>2. EntriesInv /\ [Next]_vars => EntriesInv'
  BY EntriesStep
<1>3. EntriesInv /\ [Next]_vars =>
        [ \A c \in Conns :
            crashes' = crashes /\ tee[c]
              /\ pc[c] = "receive" /\ pc'[c] = "idle" /\ ret'[c] = "ok"
              => files'[dir[c]][key[c]] = got[c] ]_vars
  <2> PICK one : Conns = {one}
    BY DEF OneConnection
  <2> SUFFICES ASSUME TypeInv, EntryInv(one), Next, crashes' = crashes, tee[one],
                      pc[one] = "receive", pc'[one] = "idle", ret'[one] = "ok"
               PROVE  files'[dir[one]][key[one]] = got[one]
    BY DEF EntriesInv
  <2>0. CacheTypeOK /\ one \in Conns
    BY DEF TypeInv
  <2>1. \A p \in Range(Process) : ~Crash(p)
    <3>1. crashes \in Nat
      BY <2>0 DEF CacheTypeOK
    <3>2. \A p \in Range(Process) : Crash(p) => crashes' = crashes + 1
      BY DEF Crash
    <3> QED
      BY <3>1, <3>2
  <2>2. Step(one)
    BY <2>1 DEF Next
  <2>3. CASE ReceiveEnd(one)
    BY <2>3, EndEntry
  <2>4. ~ReceiveTrackNotFound(one)
    BY <2>0 DEF ReceiveTrackNotFound, Return, CacheTypeOK
  <2>5. ~ReceiveLine(one)
    BY DEF ReceiveLine
  <2>6. ~MayCall(one)
    BY <2>0 DEF MayCall
  <2> QED
    BY <2>2, <2>3, <2>4, <2>5, <2>6
    DEF Step, CddbRead, CddbWrite, CacheOpenRead, CacheParse, ReadCommand, RecordStart,
        CacheOpenWrite, CacheOpenEntry, CacheFill, Submit, CddbQueryCached, CddbQueryMisses,
        SetCacheMode, CddbCacheSetDir
<1> QED
  BY <1>1, <1>2, <1>3, PTL DEF Spec, CachedWhatWasRead

=============================================================================
