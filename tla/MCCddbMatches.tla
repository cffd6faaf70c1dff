---------------------------- MODULE MCCddbMatches ----------------------------
(* CddbMatches over every disc that its texts make.                        *)
EXTENDS CddbMatches, TLC

MCData == Discs

\* No action tells one element, or one title, from another.
Symmetry == Permutations(Cells) \cup Permutations(Titles)

=============================================================================
