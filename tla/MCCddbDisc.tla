----------------------------- MODULE MCCddbDisc -----------------------------
(***************************************************************************)
(* CddbDisc with few structures and values.                                *)
(***************************************************************************)
EXTENDS CddbDisc, TLC

\* One track may start before, at and behind the place another one does.
MCDiscValues ==
  [ discid |-> {}, category |-> {}, year |-> {}, revision |-> {}, length |-> {5},
    genre |-> {<<"noise">>}, title |-> {}, artist |-> {<<"a">>}, ext_data |-> {} ]

MCTrackValues ==
  [ frame_offset |-> {149, 300}, length |-> {2},
    title |-> {}, artist |-> {<<"a">>}, ext_data |-> {} ]

MCIndices == 0..2

\* With the number -1, that of a track no disc has been given.
MCAnyIndices == -1..1

MCSymmetry == Permutations(Discs) \cup Permutations(Tracks)

=============================================================================
