------------------------------ MODULE CddbList ------------------------------
(***************************************************************************)
(* The linked list of ll.c with its elements, pointers and iterator.       *)
(* Elements live in a small memory, Cells: free() gives a cell back and    *)
(* calloc() may hand it out again.  The loops of list_flush and list_get   *)
(* take one step for each element they visit.                              *)
(*                                                                         *)
(* It is the list of mirrors of a connection as it stands: cddb_sites      *)
(* flushes it and appends, cddb_first_site is list_first, cddb_next_site   *)
(* is list_next.  CddbMatches has the list of matches and its users.       *)
(***************************************************************************)
EXTENDS Integers, Sequences

CONSTANTS
  Cells,      \* the memory elements are allocated from
  Null,       \* no element
  Data,       \* what an element may hold
  Nothing,    \* what element_data makes of no element
  Indices     \* the indices list_get is called with

ASSUME NullAssumption == Null \notin Cells
ASSUME DataAssumption == Nothing \notin Data
ASSUME IndicesAssumption == Indices \subseteq Int

VARIABLES
  at,         \* the loop that runs: "ready", "flush" or "get"
  alloc,      \* the cells in use
  next, prev, data,    \* the fields of each cell
  first, last, cnt, it,  \* the fields of list_t
  elem, idx,  \* locals of the loops
  out,        \* the data of the element the last operation returned
  begun,      \* history: list_first was called since the last list_flush
  chain,      \* history: the cells appended since the last list_flush
  asked       \* history: the index list_get was called with

fields  == <<next, prev, data>>
list    == <<first, last, cnt>>
history == <<begun, chain, asked>>
listVars == <<at, alloc, next, prev, data, first, last, cnt, it, elem, idx,
              out, begun, chain, asked>>

Pointers == Cells \cup {Null}

ListTypeOK ==
  /\ at \in {"ready", "flush", "get"}
  /\ alloc \in SUBSET Cells
  /\ next \in [Cells -> Pointers]
  /\ prev \in [Cells -> Pointers]
  /\ data \in [Cells -> Data \cup {Nothing}]
  /\ first \in Pointers /\ last \in Pointers /\ it \in Pointers
  /\ cnt \in Nat
  /\ elem \in Pointers
  /\ idx \in Int
  /\ out \in Data \cup {Nothing}
  /\ begun \in BOOLEAN
  /\ chain \in Seq(Cells)
  /\ asked \in Int

\* list_new: calloc clears the structure.
ListInit ==
  /\ at = "ready" /\ alloc = {}
  /\ next = [c \in Cells |-> Null]
  /\ prev = [c \in Cells |-> Null]
  /\ data = [c \in Cells |-> Nothing]
  /\ first = Null /\ last = Null /\ cnt = 0 /\ it = Null
  /\ elem = Null /\ idx = 0 /\ out = Nothing
  /\ begun = FALSE /\ chain = <<>> /\ asked = 0

ElementData(e) == IF e = Null THEN Nothing ELSE data[e]

----------------------------------------------------------------------------
(* list_flush.                                                             *)

ListFlush ==
  /\ at = "ready"
  /\ at' = "flush"
  /\ elem' = first
  /\ UNCHANGED <<alloc, fields, list, it, idx, out, history>>

\* Mutant: the loop does not advance.
FlushElemStays ==
  /\ at = "flush" /\ elem # Null
  /\ alloc' = alloc \ {elem}
  /\ UNCHANGED <<at, fields, list, it, elem, idx, out, history>>

\* elem_destroy: the successor is read before the element is freed.
FlushElem ==
  /\ at = "flush" /\ elem # Null
  /\ elem' = next[elem]
  /\ alloc' = alloc \ {elem}
  /\ UNCHANGED <<at, fields, list, it, idx, out, history>>

\* Mutant: list_flush forgets to reset the pointers.
FlushDoneKeepsFirst ==
  /\ at = "flush" /\ elem = Null
  /\ at' = "ready"
  /\ cnt' = 0
  /\ out' = Nothing
  /\ begun' = FALSE
  /\ chain' = <<>>
  /\ UNCHANGED <<alloc, fields, first, last, it, elem, idx, asked>>

\* The iterator is left where it was.
FlushDone ==
  /\ at = "flush" /\ elem = Null
  /\ at' = "ready"
  /\ first' = Null /\ last' = Null /\ cnt' = 0
  /\ out' = Nothing
  /\ begun' = FALSE
  /\ chain' = <<>>
  /\ UNCHANGED <<alloc, fields, it, elem, idx, asked>>

----------------------------------------------------------------------------
(* list_append, list_first, list_next.                                     *)

\* Mutant: the last element is not linked to the new one.
ListAppendUnlinked(d) ==
  /\ at = "ready"
  /\ \E c \in Cells \ alloc :
       /\ alloc' = alloc \cup {c}
       /\ data' = [data EXCEPT ![c] = d]
       /\ next' = [next EXCEPT ![c] = Null]
       /\ prev' = [prev EXCEPT ![c] = IF cnt = 0 THEN Null ELSE last]
       /\ first' = IF cnt = 0 THEN c ELSE first
       /\ last' = c
       /\ chain' = Append(chain, c)
  /\ cnt' = cnt + 1
  /\ out' = d
  /\ UNCHANGED <<at, it, elem, idx, begun, asked>>

\* calloc clears the new element, wherever it is.
ListAppend(d) ==
  /\ at = "ready"
  /\ \E c \in Cells \ alloc :
       /\ alloc' = alloc \cup {c}
       /\ data' = [data EXCEPT ![c] = d]
       /\ next' = [x \in Cells |-> IF x = c THEN Null
                                   ELSE IF cnt # 0 /\ x = last THEN c ELSE next[x]]
       /\ prev' = [prev EXCEPT ![c] = IF cnt = 0 THEN Null ELSE last]
       /\ first' = IF cnt = 0 THEN c ELSE first
       /\ last' = c
       /\ chain' = Append(chain, c)
  /\ cnt' = cnt + 1
  /\ out' = d
  /\ UNCHANGED <<at, it, elem, idx, begun, asked>>

ListFirst ==
  /\ at = "ready"
  /\ it' = first
  /\ out' = ElementData(first)
  /\ begun' = TRUE
  /\ UNCHANGED <<at, alloc, fields, list, elem, idx, chain, asked>>

\* Where list_next may move the iterator: out of a cell that has been freed
\* anything may be read.
Successors ==
  IF it = Null THEN {Null} ELSE IF it \in alloc THEN {next[it]} ELSE Pointers

ListNext ==
  /\ at = "ready"
  /\ it' \in Successors
  /\ out' = ElementData(it')
  /\ UNCHANGED <<at, alloc, fields, list, elem, idx, history>>

----------------------------------------------------------------------------
(* list_get.                                                               *)

\* Mutant: the last element is out of range.
InRangeShort(i) == 0 <= i /\ i < cnt - 1

InRange(i) == 0 <= i /\ i < cnt

ListGet(i) ==
  /\ at = "ready"
  /\ asked' = i
  /\ idx' = i
  /\ elem' = IF InRange(i) THEN first ELSE Null
  /\ at' = "get"
  /\ UNCHANGED <<alloc, fields, list, it, out, begun, chain>>

GetElem ==
  /\ at = "get" /\ elem # Null /\ idx # 0
  /\ elem' = next[elem]
  /\ idx' = idx - 1
  /\ UNCHANGED <<at, alloc, fields, list, it, out, history>>

GetDone ==
  /\ at = "get" /\ (elem = Null \/ idx = 0)
  /\ at' = "ready"
  /\ out' = ElementData(elem)
  /\ elem' = Null /\ idx' = 0 /\ asked' = 0
  /\ UNCHANGED <<alloc, fields, list, it, begun, chain>>

----------------------------------------------------------------------------
(* The list under the rule of ll.h: "Before using this function you should *)
(* call list_first to initialize the iterator" (list_next).                *)

ListStep ==
  \/ ListFlush \/ FlushElem \/ FlushDone
  \/ \E d \in Data : ListAppend(d)
  \/ ListFirst
  \/ begun /\ ListNext
  \/ (\E i \in Indices : ListGet(i)) \/ GetElem \/ GetDone

RuledSpec == ListInit /\ [][ListStep]_listVars

\* The loops of list_flush and list_get go on.
Loops == FlushElem \/ FlushDone \/ GetElem \/ GetDone

FairRuledSpec == RuledSpec /\ WF_listVars(Loops)

----------------------------------------------------------------------------
(* What ll.c promises.                                                     *)

Elements == {chain[i] : i \in DOMAIN chain}

\* The elements, in the order they were appended, are linked in both directions,
\* no two of them share a cell, and the fields of list_t describe them.
Linked ==
  /\ \A i, j \in DOMAIN chain : chain[i] = chain[j] => i = j
  /\ cnt = Len(chain)
  /\ first = IF chain = <<>> THEN Null ELSE chain[1]
  /\ last = IF chain = <<>> THEN Null ELSE chain[Len(chain)]
  /\ \A i \in DOMAIN chain :
       /\ next[chain[i]] = IF i = Len(chain) THEN Null ELSE chain[i + 1]
       /\ prev[chain[i]] = IF i = 1 THEN Null ELSE chain[i - 1]
       /\ data[chain[i]] \in Data

\* Outside of list_flush the cells in use are those of the list: nothing leaks.
Owned == at # "flush" => alloc = Elements

\* list_flush frees the elements from the front and has one freed element less
\* than it will have to free.
Flushing ==
  at = "flush" =>
    \E k \in 1..(Len(chain) + 1) :
      /\ elem = IF k = Len(chain) + 1 THEN Null ELSE chain[k]
      /\ alloc = {chain[j] : j \in k..Len(chain)}

\* list_get has come idx elements short of the one it was asked for.
Getting ==
  at = "get" =>
    /\ asked \in Indices
    /\ IF 0 <= asked /\ asked < Len(chain)
       THEN idx \in 0..asked /\ elem = chain[asked - idx + 1]
       ELSE elem = Null

Iterator == begun => it \in Elements \cup {Null}

ListInv == Linked /\ Owned /\ Flushing /\ Getting /\ Iterator

\* No loop and no iterator that was set since the last flush reads an element
\* that has been freed (elem_destroy, list_get, list_next).
NoFreedRead ==
  /\ at # "ready" => elem \in alloc \cup {Null}
  /\ at = "ready" /\ begun => it \in alloc \cup {Null}

\* The loops end, however many elements there are (list_flush, list_get).
LoopsEnd == (at # "ready") ~> (at = "ready")

\* The list is the sequence of what was appended, with a cursor.
items == [i \in DOMAIN chain |-> data[chain[i]]]

pos == IF begun /\ it # Null THEN CHOOSE i \in DOMAIN chain : chain[i] = it ELSE 0

wanted == IF at = "get" THEN <<asked>> ELSE <<>>

Abs == INSTANCE CddbListSpec
         WITH items <- items, pos <- pos, out <- out, wanted <- wanted

\* ll.c implements the sequence with a cursor that CddbListSpec describes.
ImplementsSpec == Abs!ListSpec

=============================================================================
