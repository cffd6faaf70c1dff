---------------------------- MODULE CddbListSpec ----------------------------
(***************************************************************************)
(* What the linked list of ll.c promises its users: a sequence of data     *)
(* with one cursor.  CddbList, which has the elements and their pointers,  *)
(* implements it.                                                          *)
(***************************************************************************)
EXTENDS Integers, Sequences

CONSTANTS Data, Nothing, Indices

VARIABLES
  items,    \* what was appended since the last flush
  pos,      \* the item under the cursor, 0 for none
  out,      \* what the last operation gave its caller
  wanted    \* the index of the item that is being looked up, if one is

specVars == <<items, pos, out, wanted>>

SpecInit == items = <<>> /\ pos = 0 /\ out = Nothing /\ wanted = <<>>

\* Nothing happens to the list while an item is being looked up.
Free == wanted = <<>> /\ wanted' = <<>>

ItemAt(i) == IF i \in DOMAIN items THEN items[i] ELSE Nothing

SpecFlush == Free /\ items' = <<>> /\ pos' = 0 /\ out' = Nothing

SpecAppend(d) ==
  /\ Free
  /\ items' = Append(items, d)
  /\ out' = d
  /\ UNCHANGED pos

SpecFirst ==
  /\ Free
  /\ pos' = IF items = <<>> THEN 0 ELSE 1
  /\ out' = ItemAt(1)
  /\ UNCHANGED items

\* Past the last item, and as long as there was no list_first, there is none.
SpecNext ==
  /\ Free
  /\ pos' = IF pos \in 1..(Len(items) - 1) THEN pos + 1 ELSE 0
  /\ out' = IF pos = 0 THEN Nothing ELSE ItemAt(pos + 1)
  /\ UNCHANGED items

SpecAsk(i) ==
  /\ wanted = <<>> /\ wanted' = <<i>>
  /\ UNCHANGED <<items, pos, out>>

\* Indices start at 0; an index out of range gets nothing.
SpecGet ==
  /\ wanted # <<>> /\ wanted' = <<>>
  /\ out' = ItemAt(wanted[1] + 1)
  /\ UNCHANGED <<items, pos>>

SpecStep ==
  \/ SpecFlush
  \/ \E d \in Data : SpecAppend(d)
  \/ SpecFirst
  \/ SpecNext
  \/ (\E i \in Indices : SpecAsk(i)) \/ SpecGet

ListSpec == SpecInit /\ [][SpecStep]_specVars

=============================================================================
