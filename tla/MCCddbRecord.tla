---------------------------- MODULE MCCddbRecord ----------------------------
(***************************************************************************)
(* CddbRecord with a disc of two tracks and one of one track.             *)
(***************************************************************************)
EXTENDS CddbRecord

Track(offset, artist, title, ext) ==
  [frame_offset |-> offset, title |-> title, artist |-> artist, ext_data |-> ext]

\* With everything that may be left out, and with the artist of a track.
Sampler ==
  [ length |-> 9, revision |-> 1, year |-> 2003, category |-> "misc",
    genre |-> <<Word("g"), Word("h")>>, artist |-> <<Word("a")>>,
    title |-> <<Word("t"), Word("u")>>, ext_data |-> <<Word("x"), Word("y")>>,
    tracks |-> << Track(150, <<Word("b"), Word("c")>>, <<Word("v"), Word("w")>>, <<Word("e")>>),
                  Track(300, Null, <<Word("w"), Word("v")>>, <<>>) >> ]

\* With a year that has fewer digits than it gets places, without a genre.
Plain ==
  [ length |-> 8, revision |-> 0, year |-> 987, category |-> "misc", genre |-> Null,
    artist |-> <<Word("d"), Word("a")>>, title |-> <<Word("z")>>, ext_data |-> Null,
    tracks |-> << Track(225, <<Word("a")>>, <<Word("k")>>, Null) >> ]

MCVocabulary == {"/", "misc", "a", "b", "c", "d", "e", "g", "h", "k", "t", "u", "v", "w", "x", "y", "z"}

MCContents == {Sampler, Plain}

=============================================================================
