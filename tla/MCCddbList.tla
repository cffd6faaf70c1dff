----------------------------- MODULE MCCddbList -----------------------------
(***************************************************************************)
(* CddbList on a small memory.                                             *)
(***************************************************************************)
EXTENDS CddbList

\* Every position of a list that fills the memory, and one on either side.
MCIndices == -1..3

=============================================================================
