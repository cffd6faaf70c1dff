---------------------------- MODULE MCCddbCache -----------------------------
(***************************************************************************)
(* CddbCache on small instances.                                           *)
(***************************************************************************)
EXTENDS CddbCache

MCOneCat  == <<"rock">>

\* All discs fall into the same slot of query_cache.
MCHash == [d \in Discs |-> 0]

\* Each connection in a process of its own.
MCOwnProcess == [c \in Conns |-> c]

=============================================================================
