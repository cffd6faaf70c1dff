--------------------------- MODULE CddbListProofs ---------------------------
(***************************************************************************)
(* Proofs about CddbList, for any memory, any data and any length: the     *)
(* pointers always describe the sequence that was appended, and the list   *)
(* implements CddbListSpec.  Then about CddbMatches: what the list gives   *)
(* an application that counts its matches.                                 *)
(***************************************************************************)
EXTENDS CddbMatches, TLAPS

\* What appending does to a sequence of cells.
LEMMA AppendShape ==
  ASSUME NEW S, NEW s \in Seq(S), NEW e \in S
  PROVE  /\ Append(s, e) \in Seq(S)
         /\ Len(s) \in Nat /\ Len(Append(s, e)) = Len(s) + 1
         /\ DOMAIN s = 1..Len(s) /\ DOMAIN Append(s, e) = 1..(Len(s) + 1)
         /\ Append(s, e)[Len(s) + 1] = e
         /\ \A i \in DOMAIN s : Append(s, e)[i] = s[i] /\ s[i] \in S
  OBVIOUS

\* The index after one that is not the last.
LEMMA NextIndex ==
  \A n \in Nat : \A k \in 1..n :
    /\ k \in Nat /\ k # 0
    /\ k = n \/ (k + 1 \in 1..n /\ k \in 1..(n - 1))
  OBVIOUS

\* The cells of a sequence.
LEMMA ChainShape ==
  ASSUME ListTypeOK
  PROVE  /\ Len(chain) \in Nat
         /\ DOMAIN chain = 1..Len(chain)
         /\ \A i \in 1..Len(chain) : chain[i] \in Cells /\ chain[i] # Null
         /\ chain = <<>> <=> Len(chain) = 0
  BY NullAssumption DEF ListTypeOK

\* Type correctness is inductive together with the shape of the list.
ListIInv == ListTypeOK /\ ListInv

LEMMA ListInitInv == ListInit => ListIInv
  <1>0. <<>> \in Seq(Cells)
    OBVIOUS
  <1>1. ASSUME ListInit PROVE ListTypeOK
    <2>1. /\ next \in [Cells -> Pointers] /\ prev \in [Cells -> Pointers]
          /\ data \in [Cells -> Data \cup {Nothing}]
      BY <1>1 DEF ListInit, Pointers
    <2>2. /\ first \in Pointers /\ last \in Pointers /\ it \in Pointers
          /\ elem \in Pointers /\ alloc \in SUBSET Cells
      BY <1>1 DEF ListInit, Pointers
    <2>3. begun \in BOOLEAN /\ at \in {"ready", "flush", "get"}
      BY <1>1 DEF ListInit
    <2>4. chain \in Seq(Cells) /\ out \in Data \cup {Nothing}
      BY <1>0, <1>1 DEF ListInit
    <2>5. cnt \in Nat /\ idx \in Int /\ asked \in Int
      BY <1>1 DEF ListInit
    <2>. QED
      BY <2>1, <2>2, <2>3, <2>4, <2>5 DEF ListTypeOK
  <1>2. ListInit => ListInv
    BY DEF ListInit, ListInv, Linked, Owned, Flushing, Getting, Iterator, Elements
  <1>. QED
    BY <1>1, <1>2 DEF ListIInv

LEMMA TypeStep ==
  ASSUME ListIInv, [ListStep]_listVars
  PROVE  ListTypeOK'
<1>1. CASE ListFlush
  BY <1>1 DEF ListFlush, ListIInv, ListTypeOK, fields, list, history
<1>2. CASE FlushElem
  BY <1>2 DEF FlushElem, ListIInv, ListTypeOK, fields, list, history, Pointers
<1>3. CASE FlushDone
  <2>1. <<>> \in Seq(Cells)
    OBVIOUS
  <2>2. chain' \in Seq(Cells) /\ cnt' \in Nat /\ first' \in Pointers /\ last' \in Pointers
    BY <1>3, <2>1 DEF FlushDone, Pointers
  <2>. QED
    BY <1>3, <2>2 DEF FlushDone, ListIInv, ListTypeOK, fields
<1>4. ASSUME NEW d \in Data, ListAppend(d) PROVE ListTypeOK'
  <2>1. PICK c \in Cells \ alloc :
          /\ alloc' = alloc \cup {c}
          /\ data' = [data EXCEPT ![c] = d]
          /\ next' = [x \in Cells |-> IF x = c THEN Null
                                      ELSE IF cnt # 0 /\ x = last THEN c ELSE next[x]]
          /\ prev' = [prev EXCEPT ![c] = IF cnt = 0 THEN Null ELSE last]
          /\ first' = IF cnt = 0 THEN c ELSE first
          /\ last' = c
          /\ chain' = Append(chain, c)
    BY <1>4 DEF ListAppend
  <2>2. next' \in [Cells -> Pointers] /\ prev' \in [Cells -> Pointers]
    BY <2>1 DEF ListIInv, ListTypeOK, Pointers
  <2>3. data' \in [Cells -> Data \cup {Nothing}] /\ chain' \in Seq(Cells)
    BY <2>1 DEF ListIInv, ListTypeOK
  <2>4. first' \in Pointers /\ last' \in Pointers /\ alloc' \in SUBSET Cells
    BY <2>1 DEF ListIInv, ListTypeOK, Pointers
  <2>. QED
    BY <1>4, <2>2, <2>3, <2>4 DEF ListAppend, ListIInv, ListTypeOK
<1>5. CASE ListFirst
  BY <1>5 DEF ListFirst, ElementData, ListIInv, ListTypeOK, fields, list, Pointers
<1>6. CASE ListNext
  BY <1>6 DEF ListNext, Successors, ElementData, ListIInv, ListTypeOK, fields, list,
     history, Pointers
<1>7. ASSUME NEW i \in Indices, ListGet(i) PROVE ListTypeOK'
  BY <1>7, IndicesAssumption DEF ListGet, ListIInv, ListTypeOK, fields, list, Pointers
<1>8. CASE GetElem
  BY <1>8 DEF GetElem, ListIInv, ListTypeOK, fields, list, history, Pointers
<1>9. CASE GetDone
  BY <1>9 DEF GetDone, ElementData, ListIInv, ListTypeOK, fields, list, Pointers
<1>10. CASE UNCHANGED listVars
  BY <1>10 DEF listVars, ListIInv, ListTypeOK
<1>. QED
  BY <1>1, <1>2, <1>3, <1>4, <1>5, <1>6, <1>7, <1>8, <1>9, <1>10 DEF ListStep

\* A step that leaves the list and its cells alone leaves them linked.
LEMMA LinkedKept ==
  ASSUME Linked, UNCHANGED <<fields, list, chain>>
  PROVE  Linked' /\ Elements' = Elements
  BY DEF Linked, Elements, fields, list

\* Where the successor of an element of the list is.
LEMMA NextInChain ==
  ASSUME ListIInv, NEW k \in 1..Len(chain)
  PROVE  next[chain[k]] = IF k = Len(chain) THEN Null ELSE chain[k + 1]
  BY ChainShape DEF ListIInv, ListInv, Linked

LEMMA AppendInv ==
  ASSUME ListIInv, NEW d \in Data, ListAppend(d)
  PROVE  ListInv'
<1> DEFINE n == Len(chain)
<1>1. PICK c \in Cells \ alloc :
        /\ alloc' = alloc \cup {c}
        /\ data' = [data EXCEPT ![c] = d]
        /\ next' = [x \in Cells |-> IF x = c THEN Null
                                    ELSE IF cnt # 0 /\ x = last THEN c ELSE next[x]]
        /\ prev' = [prev EXCEPT ![c] = IF cnt = 0 THEN Null ELSE last]
        /\ first' = IF cnt = 0 THEN c ELSE first
        /\ last' = c
        /\ chain' = Append(chain, c)
  BY DEF ListAppend
<1>2. at = "ready" /\ at' = "ready" /\ cnt' = cnt + 1 /\ it' = it /\ begun' = begun
  BY DEF ListAppend
<1>3. /\ n \in Nat /\ Len(chain') = n + 1
      /\ DOMAIN chain = 1..n /\ DOMAIN chain' = 1..(n + 1)
      /\ chain'[n + 1] = c
      /\ \A i \in 1..n : chain'[i] = chain[i] /\ chain[i] \in Cells
  BY <1>1, AppendShape DEF ListIInv, ListTypeOK
<1>4. alloc = Elements /\ \A i \in 1..n : chain[i] # c
  BY <1>2, <1>3 DEF ListIInv, ListInv, Owned, Elements
<1>5. /\ cnt = n
      /\ first = IF n = 0 THEN Null ELSE chain[1]
      /\ last = IF n = 0 THEN Null ELSE chain[n]
      /\ \A i \in 1..n :
           /\ next[chain[i]] = IF i = n THEN Null ELSE chain[i + 1]
           /\ prev[chain[i]] = IF i = 1 THEN Null ELSE chain[i - 1]
           /\ data[chain[i]] \in Data
      /\ \A i, j \in 1..n : chain[i] = chain[j] => i = j
  BY <1>3, ChainShape DEF ListIInv, ListInv, Linked
<1>. HIDE DEF n
<1>6. Linked'
  <2>1. \A i, j \in 1..(n + 1) : chain'[i] = chain'[j] => i = j
    BY <1>3, <1>4, <1>5, SMTT(30)
  <2>2. ASSUME NEW i \in 1..(n + 1)
        PROVE  /\ next'[chain'[i]] = IF i = n + 1 THEN Null ELSE chain'[i + 1]
               /\ prev'[chain'[i]] = IF i = 1 THEN Null ELSE chain'[i - 1]
               /\ data'[chain'[i]] \in Data
    <3>1. CASE i = n + 1
      <4>1. next'[c] = Null /\ data'[c] = d
        BY <1>1 DEF ListIInv, ListTypeOK
      <4>2. prev'[c] = IF n = 0 THEN Null ELSE chain[n]
        BY <1>1, <1>5 DEF ListIInv, ListTypeOK
      <4>. QED
        BY <1>3, <3>1, <4>1, <4>2
    <3>2. CASE i \in 1..n
      <4>1. chain'[i] = chain[i] /\ chain[i] # c /\ chain[i] \in Cells
        BY <1>3, <1>4, <3>2
      <4>2. prev'[chain[i]] = prev[chain[i]] /\ data'[chain[i]] = data[chain[i]]
        BY <1>1, <4>1 DEF ListIInv, ListTypeOK
      <4>3. next'[chain[i]] = IF i = n THEN c ELSE next[chain[i]]
        BY <1>1, <1>3, <1>5, <3>2, <4>1, SMTT(30)
      <4>. QED
        BY <1>3, <1>5, <3>2, <4>1, <4>2, <4>3
    <3>. QED
      BY <1>3, <3>1, <3>2
  <2>3. first' = chain'[1] /\ last' = chain'[n + 1] /\ chain' # <<>>
    BY <1>1, <1>3, <1>5
  <2>. QED
    BY <1>2, <1>3, <1>5, <2>1, <2>2, <2>3 DEF Linked
<1>7. Elements' = Elements \cup {c}
  BY <1>3 DEF Elements
<1>. QED
  BY <1>1, <1>2, <1>4, <1>6, <1>7
     DEF ListIInv, ListInv, Owned, Flushing, Getting, Iterator


LEMMA InvStep ==
  ASSUME ListIInv, [ListStep]_listVars
  PROVE  ListInv'
<1> USE DEF ListIInv, ListInv
<1>1. CASE ListFlush
  <2>1. Linked' /\ Elements' = Elements
    BY <1>1, LinkedKept DEF ListFlush, history
  <2>2. Flushing'
    <3>1. /\ elem' = first /\ alloc' = Elements /\ chain' = chain
      BY <1>1 DEF ListFlush, Owned, history
    <3>2. elem' = IF 1 = Len(chain) + 1 THEN Null ELSE chain[1]
      BY <3>1, ChainShape DEF Linked
    <3>3. alloc' = {chain[j] : j \in 1..Len(chain)}
      BY <3>1, ChainShape DEF Elements
    <3>4. 1 \in 1..(Len(chain) + 1)
      BY ChainShape
    <3>. QED
      BY <3>1, <3>2, <3>3, <3>4 DEF Flushing
  <2>. QED
    BY <1>1, <2>1, <2>2 DEF ListFlush, Owned, Getting, Iterator, history
<1>2. CASE FlushElem
  <2>1. Linked' /\ Elements' = Elements
    BY <1>2, LinkedKept DEF FlushElem, history
  <2>2. Flushing'
    <3>1. PICK k \in 1..(Len(chain) + 1) :
            /\ elem = IF k = Len(chain) + 1 THEN Null ELSE chain[k]
            /\ alloc = {chain[j] : j \in k..Len(chain)}
      BY <1>2 DEF FlushElem, Flushing
    <3>2. /\ k \in 1..Len(chain) /\ k + 1 \in 1..(Len(chain) + 1)
          /\ elem = chain[k] /\ Len(chain) \in Nat
      BY <1>2, <3>1, ChainShape DEF FlushElem
    <3>3. elem' = IF k + 1 = Len(chain) + 1 THEN Null ELSE chain[k + 1]
      BY <1>2, <3>2, NextInChain DEF FlushElem
    <3>4. \A j \in k..Len(chain) : chain[j] = chain[k] <=> j = k
      BY <3>2, ChainShape DEF Linked
    <3>5. alloc' = {chain[j] : j \in (k + 1)..Len(chain)}
      BY <1>2, <3>1, <3>2, <3>4 DEF FlushElem
    <3>6. chain' = chain
      BY <1>2 DEF FlushElem, history
    <3>7. /\ k + 1 \in 1..(Len(chain') + 1)
          /\ elem' = IF k + 1 = Len(chain') + 1 THEN Null ELSE chain'[k + 1]
          /\ alloc' = {chain'[j] : j \in (k + 1)..Len(chain')}
      BY <3>2, <3>3, <3>5, <3>6
    <3>. QED
      BY <3>7 DEF Flushing
  <2>. QED
    BY <1>2, <2>1, <2>2 DEF FlushElem, Owned, Getting, Iterator, history
<1>3. CASE FlushDone
  <2>1. PICK k \in 1..(Len(chain) + 1) :
          /\ elem = IF k = Len(chain) + 1 THEN Null ELSE chain[k]
          /\ alloc = {chain[j] : j \in k..Len(chain)}
    BY <1>3 DEF FlushDone, Flushing
  <2>2. k = Len(chain) + 1 /\ Len(chain) \in Nat
    BY <1>3, <2>1, ChainShape DEF FlushDone
  <2>3. alloc' = {}
    BY <1>3, <2>1, <2>2 DEF FlushDone
  <2>4. chain' = <<>> /\ first' = Null /\ last' = Null /\ cnt' = 0 /\ at' = "ready"
        /\ begun' = FALSE
    BY <1>3 DEF FlushDone
  <2>. QED
    BY <2>3, <2>4 DEF Linked, Owned, Elements, Flushing, Getting, Iterator
<1>4. ASSUME NEW d \in Data, ListAppend(d) PROVE ListInv'
  BY <1>4, AppendInv
<1>5. CASE ListFirst
  <2>1. Linked' /\ Elements' = Elements
    BY <1>5, LinkedKept DEF ListFirst
  <2>2. it' \in Elements \cup {Null}
    BY <1>5, ChainShape DEF ListFirst, Linked, Elements
  <2>. QED
    BY <1>5, <2>1, <2>2 DEF ListFirst, Owned, Flushing, Getting, Iterator
<1>6. CASE begun /\ ListNext
  <2>1. Linked' /\ Elements' = Elements
    BY <1>6, LinkedKept DEF ListNext, history
  <2>2. it' \in Elements \cup {Null}
    <3>1. CASE it = Null
      BY <1>6, <3>1 DEF ListNext, Successors
    <3>2. CASE it # Null
      <4>1. PICK k \in 1..Len(chain) : it = chain[k]
        BY <1>6, <3>2, ChainShape DEF Iterator, Elements
      <4>2. it \in alloc
        BY <1>6, <4>1, ChainShape DEF ListNext, Owned, Elements
      <4>3. it' = next[chain[k]]
        BY <1>6, <3>2, <4>1, <4>2 DEF ListNext, Successors
      <4>6. Len(chain) \in Nat /\ DOMAIN chain = 1..Len(chain)
        BY ChainShape
      <4>4. k = Len(chain) \/ k + 1 \in DOMAIN chain
        BY <4>1, <4>6, NextIndex
      <4>5. it' = IF k = Len(chain) THEN Null ELSE chain[k + 1]
        BY <4>1, <4>3, NextInChain
      <4>. QED
        BY <4>4, <4>5 DEF Elements
    <3>. QED
      BY <3>1, <3>2
  <2>. QED
    BY <1>6, <2>1, <2>2 DEF ListNext, Owned, Flushing, Getting, Iterator, history
<1>7. ASSUME NEW i \in Indices, ListGet(i) PROVE ListInv'
  <2>1. Linked' /\ Elements' = Elements
    BY <1>7, LinkedKept DEF ListGet
  <2>2. Getting'
    BY <1>7, ChainShape, IndicesAssumption DEF ListGet, InRange, Getting, Linked, list
  <2>. QED
    BY <1>7, <2>1, <2>2 DEF ListGet, Owned, Flushing, Iterator
<1>8. CASE GetElem
  <2>1. Linked' /\ Elements' = Elements
    BY <1>8, LinkedKept DEF GetElem, history
  <2>2. Getting'
    <3>1. /\ asked \in Indices /\ 0 <= asked /\ asked < Len(chain)
          /\ idx \in 1..asked /\ elem = chain[asked - idx + 1]
      BY <1>8, IndicesAssumption DEF GetElem, Getting
    <3>2. Len(chain) \in Nat /\ asked \in Int /\ asked - idx + 1 \in 1..Len(chain)
          /\ asked - idx + 1 # Len(chain)
      BY <3>1, ChainShape, IndicesAssumption
    <3>3. elem' = chain[asked - (idx - 1) + 1]
      BY <1>8, <3>1, <3>2, NextInChain DEF GetElem
    <3>. QED
      BY <1>8, <3>1, <3>2, <3>3 DEF GetElem, Getting, history
  <2>. QED
    BY <1>8, <2>1, <2>2 DEF GetElem, Owned, Flushing, Iterator, history
<1>9. CASE GetDone
  <2>1. Linked' /\ Elements' = Elements
    BY <1>9, LinkedKept DEF GetDone
  <2>. QED
    BY <1>9, <2>1 DEF GetDone, Owned, Flushing, Getting, Iterator
<1>10. CASE UNCHANGED listVars
  BY <1>10 DEF listVars, Linked, Owned, Elements, Flushing, Getting, Iterator
<1>. QED
  BY <1>1, <1>2, <1>3, <1>4, <1>5, <1>6, <1>7, <1>8, <1>9, <1>10 DEF ListStep

LEMMA InvAlways == RuledSpec => []ListIInv
<1>1. ListIInv /\ [ListStep]_listVars => ListIInv'
  BY TypeStep, InvStep DEF ListIInv
<1>. QED
  BY <1>1, ListInitInv, PTL DEF RuledSpec

\* The elements stay linked in the order they were appended, no cell leaks, and
\* the loops and the iterator are where they should be (ll.c).
THEOREM ListCorrect == RuledSpec => []ListInv
<1>1. ListIInv => ListInv
  BY DEF ListIInv
<1>. QED
  BY <1>1, InvAlways, PTL

\* Nothing that was freed is read as long as list_first comes before list_next.
THEOREM ListReadsLive == RuledSpec => []NoFreedRead
<1>1. ListIInv => NoFreedRead
  <2>. SUFFICES ASSUME ListIInv PROVE NoFreedRead
    OBVIOUS
  <2>1. CASE at = "flush"
    <3>1. PICK k \in 1..(Len(chain) + 1) :
            /\ elem = IF k = Len(chain) + 1 THEN Null ELSE chain[k]
            /\ alloc = {chain[j] : j \in k..Len(chain)}
      BY <2>1 DEF ListIInv, ListInv, Flushing
    <3>. QED
      BY <2>1, <3>1, ChainShape DEF ListIInv, NoFreedRead
  <2>2. CASE at = "get"
    <3>1. alloc = Elements
      BY <2>2 DEF ListIInv, ListInv, Owned
    <3>2. CASE 0 <= asked /\ asked < Len(chain)
      <4>1. idx \in 0..asked /\ elem = chain[asked - idx + 1] /\ asked \in Int
        BY <2>2, <3>2, IndicesAssumption DEF ListIInv, ListInv, Getting
      <4>2. asked - idx + 1 \in DOMAIN chain
        BY <3>2, <4>1, ChainShape DEF ListIInv
      <4>. QED
        BY <2>2, <3>1, <4>1, <4>2 DEF NoFreedRead, Elements
    <3>3. CASE ~(0 <= asked /\ asked < Len(chain))
      BY <2>2, <3>3 DEF ListIInv, ListInv, Getting, NoFreedRead
    <3>. QED
      BY <3>2, <3>3
  <2>3. CASE at = "ready"
    BY <2>3 DEF ListIInv, ListInv, Owned, Iterator, NoFreedRead
  <2>. QED
    BY <2>1, <2>2, <2>3 DEF ListIInv, ListTypeOK
<1>. QED
  BY <1>1, InvAlways, PTL


----------------------------------------------------------------------------
(* The list implements the sequence with a cursor.                         *)

\* The cursor: the one position whose element the iterator stands on.
LEMMA PosShape ==
  ASSUME ListIInv
  PROVE  /\ ~(begun /\ it # Null) => pos = 0
         /\ \A i \in DOMAIN chain : begun /\ it = chain[i] => pos = i
  BY ChainShape DEF ListIInv, ListInv, Linked, pos

\* The sequence of data, and its cursor, stay as they are.
LEMMA AbsKept ==
  ASSUME UNCHANGED <<chain, data>>
  PROVE  items' = items
  BY DEF items

LEMMA AbsNext ==
  ASSUME ListIInv, begun, ListNext, ListIInv'
  PROVE  Abs!SpecNext
<1>0. Abs!Free
  BY DEF ListNext, Abs!Free, wanted
<1>1. items' = items /\ chain' = chain /\ begun' = begun /\ data' = data
  BY DEF ListNext, items, fields, history
<1>2. DOMAIN items = DOMAIN chain /\ DOMAIN chain = 1..Len(chain) /\ Len(chain) \in Nat
      /\ Len(items) = Len(chain)
  BY ChainShape DEF items
<1>3. CASE it = Null
  <2>1. pos = 0 /\ it' = Null /\ pos' = 0
    BY <1>3, PosShape DEF ListNext, Successors, pos
  <2>2. out' = Nothing
    BY <2>1 DEF ListNext, ElementData
  <2>. QED
    BY <1>0, <1>1, <1>2, <2>1, <2>2 DEF Abs!SpecNext
<1>4. CASE it # Null
  <2>1. PICK k \in 1..Len(chain) : it = chain[k]
    BY <1>2, <1>4 DEF ListIInv, ListInv, Iterator, Elements
  <2>2. pos = k /\ it \in alloc
    BY <1>2, <2>1, PosShape DEF ListIInv, ListInv, Owned, Elements, ListNext
  <2>3. it' = IF k = Len(chain) THEN Null ELSE chain[k + 1]
    BY <1>4, <2>1, <2>2, NextInChain DEF ListNext, Successors
  <2>4. CASE k = Len(chain)
    <3>1. it' = Null /\ out' = Nothing
      BY <2>3, <2>4 DEF ListNext, ElementData
    <3>2. pos' = 0
      BY <3>1 DEF pos
    <3>. QED
      BY <1>0, <1>1, <1>2, <2>2, <2>4, <3>1, <3>2 DEF Abs!SpecNext, Abs!ItemAt
  <2>5. CASE k # Len(chain)
    <3>0. k + 1 \in 1..Len(chain) /\ k \in 1..(Len(chain) - 1) /\ k # 0
      BY <1>2, <2>1, <2>5, NextIndex
    <3>1. it' = chain[k + 1] /\ chain[k + 1] # Null
      BY <2>3, <2>5, <3>0, ChainShape DEF ListIInv
    <3>2. pos' = k + 1
      <4>1. \A i \in DOMAIN chain : chain[i] = chain[k + 1] => i = k + 1
        BY <1>2, <3>0 DEF ListIInv, ListInv, Linked
      <4>2. pos' = CHOOSE i \in DOMAIN chain : chain[i] = chain[k + 1]
        BY <1>1, <3>1 DEF pos
      <4>. QED
        BY <1>2, <3>0, <4>1, <4>2
    <3>3. out' = items[k + 1]
      BY <1>1, <1>2, <3>0, <3>1 DEF ListNext, ElementData, items
    <3>4. pos \in 1..(Len(items) - 1) /\ pos + 1 \in DOMAIN items /\ pos # 0
      BY <1>2, <2>2, <3>0
    <3>5. pos' = pos + 1 /\ out' = items[pos + 1]
      BY <2>2, <3>2, <3>3
    <3>. QED
      BY <1>0, <1>1, <3>4, <3>5 DEF Abs!SpecNext, Abs!ItemAt
  <2>. QED
    BY <2>4, <2>5
<1>. QED
  BY <1>3, <1>4


LEMMA AbsFlush ==
  ASSUME ListIInv, FlushDone
  PROVE  Abs!SpecFlush
<1>1. chain' = <<>> /\ begun' = FALSE /\ out' = Nothing /\ Abs!Free
  BY DEF FlushDone, Abs!Free, wanted
<1>2. items' = <<>>
  <2>1. DOMAIN chain' = {} /\ <<>> = [i \in {} |-> data'[chain'[i]]]
    BY <1>1
  <2>. QED
    BY <2>1 DEF items
<1>. QED
  BY <1>1, <1>2 DEF Abs!SpecFlush, pos

LEMMA AbsAppend ==
  ASSUME ListIInv, NEW d \in Data, ListAppend(d)
  PROVE  Abs!SpecAppend(d)
<1> DEFINE n == Len(chain)
<1>1. PICK c \in Cells \ alloc : data' = [data EXCEPT ![c] = d] /\ chain' = Append(chain, c)
  BY DEF ListAppend
<1>2. at = "ready" /\ it' = it /\ begun' = begun /\ out' = d
  BY DEF ListAppend
<1>3. /\ n \in Nat /\ Len(chain') = n + 1
      /\ DOMAIN chain = 1..n /\ DOMAIN chain' = 1..(n + 1)
      /\ chain'[n + 1] = c
      /\ \A i \in 1..n : chain'[i] = chain[i] /\ chain[i] \in Cells
  BY <1>1, AppendShape DEF ListIInv, ListTypeOK
<1>4. \A i \in 1..n : chain[i] # c
  BY <1>1, <1>2, <1>3 DEF ListIInv, ListInv, Owned, Elements
<1>. HIDE DEF n
<1>5. items' = Append(items, d)
  <2>1. /\ DOMAIN items = 1..n /\ Len(items) = n
        /\ items \in Seq(Data)
    BY <1>3 DEF items, ListIInv, ListInv, Linked
  <2>2. /\ DOMAIN Append(items, d) = 1..(n + 1)
        /\ Append(items, d)[n + 1] = d
        /\ \A i \in 1..n : Append(items, d)[i] = items[i]
    BY <2>1, AppendShape
  <2>3. items' = [i \in 1..(n + 1) |-> data'[chain'[i]]]
    BY <1>3 DEF items
  <2>4. data'[c] = d /\ \A x \in Cells : x # c => data'[x] = data[x]
    BY <1>1 DEF ListIInv, ListTypeOK
  <2>5. \A i \in 1..n : data'[chain'[i]] = items[i]
    BY <1>3, <1>4, <2>4 DEF items
  <2>6. \A i \in 1..(n + 1) : data'[chain'[i]] = Append(items, d)[i]
    BY <1>3, <2>2, <2>4, <2>5
  <2>7. Append(items, d) \in Seq(Data)
    BY <2>1, AppendShape
  <2>8. items' \in Seq(Data) /\ Len(items') = n + 1
    <3>1. \A i \in 1..(n + 1) : data'[chain'[i]] \in Data
      BY <1>3, <2>1, <2>4, <2>5
    <3>2. items' \in [1..(n + 1) -> Data] /\ n + 1 \in Nat
      BY <1>3, <2>3, <3>1
    <3>. QED
      BY <3>2
  <2>9. Len(Append(items, d)) = n + 1
    BY <2>1, AppendShape
  <2>10. \A i \in 1..(n + 1) : items'[i] = Append(items, d)[i]
    BY <2>3, <2>6
  <2>. QED
    BY <2>7, <2>8, <2>9, <2>10
<1>6. pos' = pos
  <2>1. CASE ~(begun /\ it # Null)
    BY <1>2, <2>1 DEF pos
  <2>2. CASE begun /\ it # Null
    <3>1. PICK k \in 1..n : it = chain[k]
      BY <1>3, <2>2 DEF ListIInv, ListInv, Iterator, Elements
    <3>2. pos = k
      BY <1>3, <2>2, <3>1, PosShape
    <3>0. \A i, j \in 1..n : chain[i] = chain[j] => i = j
      BY <1>3 DEF ListIInv, ListInv, Linked
    <3>3. \A i \in 1..(n + 1) : chain'[i] = chain[k] <=> i = k
      <4>1. \A i \in 1..n : chain'[i] = chain[k] <=> i = k
        BY <1>3, <3>0, <3>1
      <4>2. chain'[n + 1] # chain[k] /\ n + 1 # k
        BY <1>3, <1>4, <3>1
      <4>3. \A i \in 1..(n + 1) : i \in 1..n \/ i = n + 1
        BY <1>3
      <4>. QED
        BY <4>1, <4>2, <4>3
    <3>4. pos' = CHOOSE i \in 1..(n + 1) : chain'[i] = chain[k]
      BY <1>2, <1>3, <2>2, <3>1 DEF pos
    <3>5. k \in 1..(n + 1)
      BY <1>3, <3>1
    <3>. QED
      BY <3>2, <3>3, <3>4, <3>5
  <2>. QED
    BY <2>1, <2>2
<1>7. Abs!Free
  BY DEF ListAppend, Abs!Free, wanted
<1>. QED
  BY <1>2, <1>5, <1>6, <1>7 DEF Abs!SpecAppend

LEMMA AbsFirst ==
  ASSUME ListIInv, ListFirst
  PROVE  Abs!SpecFirst
<1>1. items' = items /\ chain' = chain /\ begun' = TRUE /\ it' = first
      /\ out' = ElementData(first) /\ Abs!Free
  BY DEF ListFirst, items, fields, Abs!Free, wanted
<1>2. DOMAIN items = DOMAIN chain /\ DOMAIN chain = 1..Len(chain) /\ Len(chain) \in Nat
      /\ Len(items) = Len(chain) /\ (chain = <<>> <=> Len(chain) = 0)
  BY ChainShape DEF items, ListIInv
<1>3. CASE chain = <<>>
  <2>1. first = Null /\ items = <<>> /\ 1 \notin DOMAIN items
    BY <1>2, <1>3 DEF ListIInv, ListInv, Linked, items
  <2>. QED
    BY <1>1, <2>1 DEF Abs!SpecFirst, Abs!ItemAt, ElementData, pos
<1>4. CASE chain # <<>>
  <2>1. first = chain[1] /\ 1 \in DOMAIN chain /\ chain[1] # Null /\ items # <<>>
    BY <1>2, <1>4, ChainShape DEF ListIInv, ListInv, Linked
  <2>2. pos' = 1
    <3>1. \A i \in DOMAIN chain : chain[i] = chain[1] => i = 1
      BY <2>1 DEF ListIInv, ListInv, Linked
    <3>2. pos' = CHOOSE i \in DOMAIN chain : chain[i] = chain[1]
      BY <1>1, <2>1 DEF pos
    <3>. QED
      BY <2>1, <3>1, <3>2
  <2>3. out' = items[1]
    BY <1>1, <2>1 DEF ElementData, items
  <2>. QED
    BY <1>1, <1>2, <2>1, <2>2, <2>3 DEF Abs!SpecFirst, Abs!ItemAt
<1>. QED
  BY <1>3, <1>4

LEMMA AbsGet ==
  ASSUME ListIInv, GetDone
  PROVE  Abs!SpecGet
<1>1. items' = items /\ pos' = pos /\ out' = ElementData(elem)
      /\ wanted = <<asked>> /\ wanted' = <<>>
  BY DEF GetDone, items, pos, fields, wanted
<1>2. DOMAIN items = DOMAIN chain /\ DOMAIN chain = 1..Len(chain) /\ Len(chain) \in Nat
  BY ChainShape DEF items, ListIInv
<1>3. asked \in Indices /\ asked \in Int
  BY IndicesAssumption DEF GetDone, ListIInv, ListInv, Getting
<1>4. CASE 0 <= asked /\ asked < Len(chain)
  <2>1. asked + 1 \in DOMAIN chain /\ idx \in 0..asked /\ elem = chain[asked - idx + 1]
    BY <1>2, <1>3, <1>4 DEF GetDone, ListIInv, ListInv, Getting
  <2>2. elem # Null
    <3>1. asked - idx + 1 \in 1..Len(chain)
      BY <1>2, <1>3, <1>4, <2>1
    <3>. QED
      BY <2>1, <3>1, ChainShape DEF ListIInv
  <2>3. idx = 0 /\ elem = chain[asked + 1]
    BY <1>3, <2>1, <2>2 DEF GetDone
  <2>4. out' = items[asked + 1]
    BY <1>1, <1>2, <2>1, <2>2, <2>3 DEF ElementData, items
  <2>. QED
    BY <1>1, <1>2, <1>3, <2>1, <2>4 DEF Abs!SpecGet, Abs!ItemAt
<1>5. CASE ~(0 <= asked /\ asked < Len(chain))
  <2>1. elem = Null /\ asked + 1 \notin DOMAIN items
    BY <1>2, <1>3, <1>5 DEF GetDone, ListIInv, ListInv, Getting
  <2>. QED
    BY <1>1, <1>3, <2>1 DEF Abs!SpecGet, Abs!ItemAt, ElementData
<1>. QED
  BY <1>4, <1>5

\* ll.c implements the sequence with a cursor of CddbListSpec: every step is one
\* of its operations or changes nothing its users see.
THEOREM ListImplementsSpec == RuledSpec => ImplementsSpec
<1>1. ListInit => Abs!SpecInit
  <2>. SUFFICES ASSUME ListInit PROVE Abs!SpecInit
    OBVIOUS
  <2>1. DOMAIN <<>> = {} /\ <<>> = [i \in {} |-> data[chain[i]]]
    OBVIOUS
  <2>. QED
    BY <2>1 DEF ListInit, Abs!SpecInit, items, pos, wanted
<1>2. ListIInv /\ ListIInv' /\ [ListStep]_listVars => [Abs!SpecStep]_(Abs!specVars)
  <2>. SUFFICES ASSUME ListIInv, ListIInv', [ListStep]_listVars
                PROVE  Abs!SpecStep \/ (UNCHANGED <<items, pos, out, wanted>>)
    BY DEF Abs!specVars
  <2>1. CASE ListFlush \/ FlushElem \/ (\E i \in Indices : ListGet(i)) \/ GetElem
             \/ UNCHANGED listVars
    <3>1. UNCHANGED <<chain, data, it, begun, out>>
      BY <2>1 DEF ListFlush, FlushElem, ListGet, GetElem, listVars, fields, history
    <3>2. items' = items
      BY <3>1 DEF items
    <3>3. pos' = pos
      BY <3>1 DEF pos
    <3>4. CASE \E i \in Indices : ListGet(i)
      <4>1. \E i \in Indices : wanted = <<>> /\ wanted' = <<i>>
        BY <3>4 DEF ListGet, wanted
      <4>. QED
        BY <3>1, <3>2, <3>3, <4>1 DEF Abs!SpecStep, Abs!SpecAsk
    <3>5. CASE ~\E i \in Indices : ListGet(i)
      <4>1. wanted' = wanted
        BY <2>1, <3>5 DEF ListFlush, FlushElem, GetElem, listVars, history, wanted
      <4>. QED
        BY <3>1, <3>2, <3>3, <4>1
    <3>. QED
      BY <3>4, <3>5
  <2>2. CASE FlushDone
    BY <2>2, AbsFlush DEF Abs!SpecStep
  <2>3. ASSUME NEW d \in Data, ListAppend(d) PROVE Abs!SpecStep
    BY <2>3, AbsAppend DEF Abs!SpecStep
  <2>4. CASE ListFirst
    BY <2>4, AbsFirst DEF Abs!SpecStep
  <2>5. CASE begun /\ ListNext
    BY <2>5, AbsNext DEF Abs!SpecStep
  <2>6. CASE GetDone
    BY <2>6, AbsGet DEF Abs!SpecStep
  <2>. QED
    BY <2>1, <2>2, <2>3, <2>4, <2>5, <2>6 DEF ListStep
<1>. QED
  BY <1>1, <1>2, InvAlways, PTL DEF RuledSpec, ImplementsSpec, Abs!ListSpec

----------------------------------------------------------------------------
(* The result set.                                                         *)

\* Every element of the list has what the server's line said of it.
Listing(s, lines) ==
  Len(s) = Len(lines) /\ \A i \in 1..Len(lines) : Shows(s[i], lines[i])

\* The matches an application that counts them has still to come are the elements
\* behind the iterator.
MatchInv ==
  /\ act \in {"idle", "flush", "list"}
  /\ count \in Int /\ listed \in Seq(Discs) /\ given \in Seq(Discs) /\ disc \in Discs
  /\ act = "flush" => /\ listed = <<>> /\ given = <<>>
                      /\ at \in {"flush", "ready"}
                      /\ at = "ready" => chain = <<>>
  /\ act # "flush" => at = "ready"
  /\ act # "idle" => fn # "next"
  /\ act = "list" => given = <<>> /\ Listing(items, listed)
  /\ act = "idle" /\ count > 0 =>
       /\ Len(listed) = count /\ Len(given) \in 1..count
       /\ \A i \in 1..Len(given) : Shows(given[i], listed[i])
       /\ Shows(disc, listed[Len(given)])
       /\ fn = "next" => ret = 1
       /\ Len(given) < count => begun /\ Listing(items, listed) /\ it = chain[Len(given)]

MatchIInv == ListIInv /\ MatchInv

\* The data of the elements, in order.
LEMMA ItemsShape ==
  ASSUME ListIInv
  PROVE  /\ items \in Seq(Data) /\ Len(items) = Len(chain) /\ Len(chain) \in Nat
         /\ cnt = Len(chain)
         /\ \A i \in 1..Len(chain) : items[i] = data[chain[i]]
<1>1. Len(chain) \in Nat /\ DOMAIN chain = 1..Len(chain)
  BY ChainShape DEF ListIInv
<1>. QED
  BY <1>1 DEF items, ListIInv, ListInv, Linked

\* cddb_disc_copy into a disc leaves there all that the copied one shows.
LEMMA MergedShows ==
  ASSUME NEW d \in Discs, NEW m \in Discs
  PROVE  /\ Merged(d, m) \in Discs
         /\ Filled(d, m) = Merged(d, m)
         /\ Shows(m, m)
         /\ \A l \in Discs : Shows(m, l) => Shows(Merged(d, m), l)
<1>1. DOMAIN d = {"title", "artist"} /\ DOMAIN m = {"title", "artist"}
  BY DEF Discs
<1>2. Merged(d, m) \in Discs
  BY <1>1 DEF Merged, Discs
<1>3. m # Nothing
  BY DataAssumption, DiscsAssumption
<1>4. ASSUME NEW l \in Discs, Shows(m, l) PROVE Shows(Merged(d, m), l)
  <2>1. DOMAIN l = {"title", "artist"}
    BY DEF Discs
  <2>2. SUFFICES ASSUME NEW field \in {"title", "artist"}, l[field] # None
                 PROVE  Merged(d, m)[field] = l[field]
    BY <2>1 DEF Shows
  <2>3. m[field] = l[field]
    BY <1>4, <2>1, <2>2 DEF Shows
  <2>. QED
    BY <1>1, <2>2, <2>3 DEF Merged
<1>. QED
  BY <1>2, <1>3, <1>4 DEF Filled, Shows

\* The first query of an application finds an empty list.
LEMMA MatchInit == Init => MatchIInv
<1>. SUFFICES ASSUME Init PROVE MatchIInv
  OBVIOUS
<1>1. ListIInv
  BY ListInitInv DEF Init
<1>2. <<>> \in Seq(Data)
  OBVIOUS
<1>. QED
  BY <1>1, <1>2 DEF Init, ListInit, MatchIInv, MatchInv

\* What the server answers is a disc, and so is a new one.
LEMMA AnswersAreDiscs == Answers \subseteq Discs /\ NewDisc \in Discs
  BY DEF Answers, NewDisc, Discs

\* Every step of a call is a step of the list under the rule of ll.h.
LEMMA MatchRuled ==
  ASSUME Careful, MatchIInv, [Next]_matchVars
  PROVE  [ListStep]_listVars
<1>1. ASSUME NEW d \in {disc, NewDisc}, CddbQueryNext(d) PROVE ListStep
  <2>1. act = "idle" /\ count - Len(given) > 0 /\ Len(given) \in Nat /\ count \in Int
    BY <1>1 DEF CddbQueryNext, Remaining, MatchIInv, MatchInv
  <2>2. begun
    BY <2>1 DEF MatchIInv, MatchInv
  <2>. QED
    BY <1>1, <2>2 DEF CddbQueryNext, ListStep
<1>2. ASSUME NEW m \in Answers, ListedMatch(m) PROVE ListStep
  <2>1. m \in Discs
    BY AnswersAreDiscs
  <2>2. (IF fn = "search" THEN m ELSE Merged(disc, m)) \in Data
    BY <2>1, MergedShows, DiscsAssumption DEF MatchIInv, MatchInv
  <2>. QED
    BY <1>2, <2>2 DEF ListedMatch, ListStep
<1>3. CASE \/ \E f \in Queries, d \in {disc, NewDisc} : Query(f, d)
           \/ Flushes
  BY <1>3 DEF Query, Flushes, ListStep
<1>4. CASE ListReturned
  BY <1>4 DEF ListReturned, ListStep
<1>5. CASE \/ QueryFails \/ NoMatch \/ (\E m \in Answers : ExactMatch(m)) \/ ListFollows
           \/ ListBroken \/ EmptyList \/ UNCHANGED matchVars
  BY <1>5 DEF QueryFails, NoMatch, ExactMatch, ListFollows, ListBroken, EmptyList, matchVars
<1>. QED
  BY <1>1, <1>2, <1>3, <1>4, <1>5 DEF Next

\* A query begins with the list flushed.
LEMMA FlushKeepsMatches ==
  ASSUME MatchIInv, Flushes
  PROVE  MatchInv'
<1>1. /\ act = "flush" /\ act' = act /\ count' = count /\ listed' = listed
      /\ fn' = fn /\ fn # "next" /\ disc' = disc /\ disc \in Discs
      /\ given' = given /\ listed = <<>> /\ given = <<>>
      /\ act' \in {"idle", "flush", "list"}
      /\ count \in Int /\ listed \in Seq(Discs) /\ given \in Seq(Discs)
  BY DEF Flushes, callVars, MatchIInv, MatchInv
<1>2. at' \in {"flush", "ready"} /\ (at' = "ready" => chain' = <<>>)
  BY DEF Flushes, FlushElem, FlushDone
<1>. QED
  BY <1>1, <1>2 DEF MatchInv

\* A match joins the list.
LEMMA ListedKeepsMatches ==
  ASSUME MatchIInv, NEW m \in Answers, ListedMatch(m)
  PROVE  MatchInv'
<1>0. PICK d \in Discs : ListAppend(d) /\ Shows(d, m)
  BY MergedShows, AnswersAreDiscs DEF ListedMatch, MatchIInv, MatchInv
<1>1. items' = Append(items, d)
  BY <1>0, AbsAppend, DiscsAssumption DEF Abs!SpecAppend, MatchIInv
<1>2. /\ act = "list" /\ act' = act /\ count' = count /\ listed' = Append(listed, m)
      /\ given' = given /\ at' = "ready" /\ fn' = fn /\ disc' = disc
  BY <1>0 DEF ListedMatch, ListAppend
<1>3. /\ m \in Discs /\ listed \in Seq(Discs) /\ items \in Seq(Discs)
      /\ Listing(items, listed)
  BY <1>2, AnswersAreDiscs, ItemsShape, DiscsAssumption DEF MatchIInv, MatchInv
<1>4. Append(listed, m) \in Seq(Discs) /\ Listing(Append(items, d), Append(listed, m))
  BY <1>0, <1>3 DEF Listing
<1>. QED
  BY <1>1, <1>2, <1>4 DEF MatchIInv, MatchInv

\* The query returns with the first match and the iterator on it.
LEMMA ReturnKeepsMatches ==
  ASSUME MatchIInv, ListReturned
  PROVE  MatchInv'
<1>1. /\ act = "list" /\ at = "ready" /\ cnt # 0 /\ Listing(items, listed)
      /\ listed \in Seq(Discs) /\ disc \in Discs
      /\ act' = "idle" /\ at' = "ready" /\ count' = cnt /\ ret' = cnt
      /\ fn' = fn /\ listed' = listed /\ given' = <<disc'>> /\ disc' = Filled(disc, out')
      /\ begun' = TRUE /\ it' = first /\ out' = ElementData(first)
      /\ UNCHANGED <<chain, data>>
  BY DEF ListReturned, ListFirst, Ends, MatchIInv, MatchInv, fields
<1>2. Len(chain) \in Nat /\ cnt = Len(chain) /\ 1 \in 1..Len(chain) /\ cnt \in 1..cnt
  BY <1>1, ItemsShape DEF MatchIInv
<1>3. first = chain[1] /\ chain[1] # Null
  BY <1>2, ChainShape DEF MatchIInv, ListIInv, ListInv, Linked
<1>4. out' = items[1] /\ items' = items /\ items \in Seq(Data) /\ Len(items) = cnt
      /\ items[1] \in Discs
  BY <1>1, <1>2, <1>3, ItemsShape, DiscsAssumption DEF ElementData, items, MatchIInv
<1>5. Len(listed) = cnt /\ listed[1] \in Discs /\ Shows(items[1], listed[1])
  <2>1. Len(listed) = cnt /\ \A i \in 1..cnt : Shows(items[i], listed[i])
    BY <1>1, <1>4 DEF Listing
  <2>2. 1 \in 1..cnt
    BY <1>2
  <2>3. listed[1] \in Discs
    BY <1>1, <2>1, <2>2
  <2>. QED
    BY <2>1, <2>2, <2>3
<1>6. disc' \in Discs /\ Shows(disc', listed[1])
  BY <1>1, <1>4, <1>5, MergedShows
<1>7. /\ given' \in Seq(Discs) /\ Len(given') = 1 /\ given'[1] = disc'
      /\ \A i \in 1..Len(given') : i = 1
  BY <1>1, <1>6
<1>8. fn' # "next" /\ Listing(items', listed')
  BY <1>1, <1>4 DEF MatchIInv, MatchInv
<1>. QED
  BY <1>1, <1>2, <1>3, <1>5, <1>6, <1>7, <1>8 DEF MatchInv

\* The next match is behind the last one.
LEMMA NextKeepsMatches ==
  ASSUME Careful, MatchIInv, NEW d \in {disc, NewDisc}, CddbQueryNext(d)
  PROVE  MatchInv'
<1> DEFINE n == Len(given)
<1>1. /\ act = "idle" /\ count - n > 0 /\ at = "ready" /\ count \in Int /\ n \in Nat
      /\ given \in Seq(Discs) /\ listed \in Seq(Discs)
  BY DEF CddbQueryNext, ListNext, Remaining, MatchIInv, MatchInv
<1>2. /\ Len(listed) = count /\ n \in 1..count /\ n < count
      /\ \A i \in 1..n : Shows(given[i], listed[i])
      /\ begun /\ Listing(items, listed) /\ it = chain[n]
  BY <1>1 DEF MatchIInv, MatchInv
<1> HIDE DEF n
<1>3. /\ UNCHANGED <<act, count, listed, chain, data, begun, at, next>> /\ fn' = "next"
      /\ out' = ElementData(it')
  BY DEF CddbQueryNext, ListNext, fields, history
<1>4. /\ Len(chain) = count /\ n \in DOMAIN chain /\ n + 1 \in 1..Len(chain)
      /\ n # Len(chain) /\ chain[n] \in Cells /\ chain[n] # Null /\ chain[n] \in alloc
      /\ chain[n + 1] # Null
  <2>1. Len(chain) = count
    BY <1>2, ItemsShape DEF MatchIInv, Listing
  <2>2. n \in DOMAIN chain /\ n + 1 \in 1..Len(chain) /\ n \in 1..Len(chain)
    BY <1>1, <1>2, <2>1, ChainShape DEF MatchIInv, ListIInv
  <2>. QED
    BY <1>1, <1>2, <2>1, <2>2, ChainShape DEF MatchIInv, ListIInv, ListInv, Owned, Elements
<1>5. it' = chain[n + 1]
  <2>1. next[chain[n]] = chain[n + 1]
    BY <1>4 DEF MatchIInv, ListIInv, ListInv, Linked
  <2>. QED
    BY <1>2, <1>4, <2>1 DEF CddbQueryNext, ListNext, Successors
<1>6. items' = items /\ items \in Seq(Discs) /\ out' = items[n + 1]
  BY <1>3, <1>4, <1>5, ItemsShape, DiscsAssumption DEF ElementData, items, MatchIInv
<1>7. ret' = 1 /\ disc' = Filled(d, out') /\ given' = Append(given, disc')
  BY <1>4, <1>5 DEF CddbQueryNext
<1>8. /\ n + 1 \in 1..Len(listed) /\ listed[n + 1] \in Discs /\ out' \in Discs
      /\ Shows(out', listed[n + 1])
  BY <1>1, <1>2, <1>4, <1>6 DEF Listing
<1>8a. disc' \in Discs /\ Shows(disc', listed[n + 1])
  <2>1. d \in Discs
    BY AnswersAreDiscs DEF MatchIInv, MatchInv
  <2>. QED
    BY <1>7, <1>8, <2>1, MergedShows
<1>9. /\ given' \in Seq(Discs) /\ Len(given') = n + 1 /\ given'[n + 1] = disc'
      /\ \A i \in 1..n : given'[i] = given[i]
  BY <1>1, <1>7, <1>8a DEF n
<1>10. \A i \in 1..(n + 1) : Shows(given'[i], listed[i])
  <2>1. \A i \in 1..(n + 1) : i \in 1..n \/ i = n + 1
    BY <1>1
  <2>. QED
    BY <1>2, <1>8a, <1>9, <2>1
<1>. QED
  BY <1>1, <1>2, <1>3, <1>5, <1>6, <1>7, <1>8a, <1>9, <1>10 DEF MatchInv

LEMMA MatchStep ==
  ASSUME Careful, MatchIInv, [Next]_matchVars
  PROVE  MatchInv'
<1>0. <<>> \in Seq(Discs)
  OBVIOUS
<1>1. ASSUME NEW f \in Queries, NEW d \in {disc, NewDisc}, Query(f, d) PROVE MatchInv'
  BY <1>0, <1>1, AnswersAreDiscs DEF Query, ListFlush, MatchIInv, MatchInv, Queries
<1>2. CASE Flushes
  BY <1>2, FlushKeepsMatches
<1>3. CASE QueryFails \/ NoMatch \/ ListBroken \/ EmptyList
  <2>1. disc' \in Discs
    BY <1>3, MergedShows, AnswersAreDiscs
    DEF QueryFails, NoMatch, ListBroken, EmptyList, MatchIInv, MatchInv
  <2>. QED
    BY <1>3, <2>1 DEF QueryFails, NoMatch, ListBroken, EmptyList, Ends, Flushed, listVars,
       MatchIInv, MatchInv
<1>4. ASSUME NEW m \in Answers, ExactMatch(m) PROVE MatchInv'
  <2>1. m \in Discs /\ disc' \in Discs /\ Shows(disc', m)
    BY <1>4, MergedShows, AnswersAreDiscs DEF ExactMatch, MatchIInv, MatchInv
  <2>2. /\ <<m>> \in Seq(Discs) /\ Len(<<m>>) = 1 /\ <<m>>[1] = m
        /\ <<disc'>> \in Seq(Discs) /\ Len(<<disc'>>) = 1 /\ <<disc'>>[1] = disc'
        /\ \A i \in 1..1 : i = 1
    BY <2>1
  <2>3. /\ act' = "idle" /\ count' = 1 /\ listed' = <<m>> /\ given' = <<disc'>>
        /\ at' = "ready" /\ fn' = fn /\ fn # "next"
    BY <1>4 DEF ExactMatch, Ends, Flushed, listVars, MatchIInv, MatchInv
  <2>. QED
    BY <2>1, <2>2, <2>3 DEF MatchInv
<1>5. CASE ListFollows
  <2>1. items = <<>> /\ listed = <<>> /\ Listing(items, listed)
    BY <1>5 DEF ListFollows, Flushed, MatchIInv, MatchInv, items, Listing
  <2>2. /\ act' = "list" /\ UNCHANGED <<listVars, fn, count, listed, given, disc>>
        /\ act = "flush" /\ at = "ready"
    BY <1>5 DEF ListFollows, Flushed
  <2>3. items' = items
    BY <2>2 DEF items, listVars
  <2>. QED
    BY <2>1, <2>2, <2>3 DEF MatchIInv, MatchInv, listVars
<1>6. ASSUME NEW m \in Answers, ListedMatch(m) PROVE MatchInv'
  BY <1>6, ListedKeepsMatches
<1>7. CASE ListReturned
  BY <1>7, ReturnKeepsMatches
<1>8. ASSUME NEW d \in {disc, NewDisc}, CddbQueryNext(d) PROVE MatchInv'
  BY <1>8, NextKeepsMatches
<1>9. CASE UNCHANGED matchVars
  <2>1. items' = items
    BY <1>9 DEF matchVars, listVars, items
  <2>. QED
    BY <1>9, <2>1 DEF matchVars, listVars, callVars, MatchIInv, MatchInv
<1>. QED
  BY <1>1, <1>2, <1>3, <1>4, <1>5, <1>6, <1>7, <1>8, <1>9 DEF Next

\* The invariant holds as long as the application counts its matches.
LEMMA MatchesAlways ==
  ASSUME Careful
  PROVE  Spec => []MatchIInv
<1>1. MatchIInv /\ [Next]_matchVars => MatchIInv'
  <2>. SUFFICES ASSUME MatchIInv, [Next]_matchVars PROVE MatchIInv'
    OBVIOUS
  <2>1. [ListStep]_listVars
    BY MatchRuled
  <2>2. ListIInv'
    BY <2>1, TypeStep, InvStep DEF MatchIInv, ListIInv
  <2>. QED
    BY <2>2, MatchStep DEF MatchIInv
<1>. QED
  BY <1>1, MatchInit, PTL DEF Spec

\* An application that counts its matches gets every match once, in the order the
\* server listed them, however many there are (cddb_query, cddb_query_next): its disc
\* shows every field of each match, whatever cddb_disc_copy left of the one before.
THEOREM MatchesComeInOrder ==
  ASSUME Careful
  PROVE  Spec => []MatchesInOrder
<1>1. MatchIInv => MatchesInOrder
  BY DEF MatchIInv, MatchInv, MatchesInOrder
<1>. QED
  BY <1>1, MatchesAlways, PTL

\* cddb_query_next moves the iterator of such an application from an element of the
\* list, never from one that has been freed.
THEOREM NextStandsOnLive ==
  ASSUME Careful
  PROVE  Spec => []NextOnLive
<1>1. MatchIInv => NextOnLive
  <2>. SUFFICES ASSUME MatchIInv, act = "idle", Remaining > 0
                PROVE  it \in alloc
    BY DEF NextOnLive
  <2>1. /\ count \in Int /\ Len(given) \in Nat /\ Len(given) < count /\ at = "ready"
    BY DEF Remaining, MatchIInv, MatchInv
  <2>2. /\ it = chain[Len(given)] /\ Len(given) \in 1..count
        /\ Len(items) = Len(listed) /\ Len(listed) = count
    BY <2>1 DEF MatchIInv, MatchInv, Listing
  <2>3. Len(given) \in DOMAIN chain
    BY <2>2, ItemsShape, ChainShape DEF MatchIInv, ListIInv
  <2>. QED
    BY <2>1, <2>2, <2>3 DEF MatchIInv, ListIInv, ListInv, Owned, Elements
<1>. QED
  BY <1>1, MatchesAlways, PTL

=============================================================================
