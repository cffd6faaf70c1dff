---------------------------- MODULE CddbDiscData ----------------------------
(***************************************************************************)
(* The data of discs and tracks (cddb_disc.c, cddb_track.c): what a new    *)
(* one holds, what copying makes of it and how a disc id is put together.  *)
(* A string is a sequence of words, so that appending can be told from     *)
(* setting; Null is the NULL of a string and of a pointer.                 *)
(***************************************************************************)
EXTENDS Integers, Sequences, FiniteSets

CONSTANTS
  Null,       \* NULL
  ByteBits    \* the bits of a byte of a disc id: 8, fewer in small instances

ASSUME ByteBitsAssumption == ByteBits \in Nat \ {0}

\* CDDB_CATEGORY.
Categories ==
  {"data", "folk", "jazz", "misc", "rock", "country", "blues", "newage", "reggae",
   "classical", "soundtrack", "invalid"}

\* A name that is no category gives a disc of miscellaneous music.  The loop of
\* cddb_disc_set_category_str runs to CDDB_CAT_LAST and so knows "invalid" too.
CategoryOf(name) == IF name \in Categories THEN name ELSE "misc"

DiscTexts == {"genre", "title", "artist", "ext_data"}
TrackTexts == {"title", "artist", "ext_data"}

\* A disc id is the set of its bits.
Width   == 4 * ByteBits
DiscIds == SUBSET (0..(Width - 1))

\* struct cddb_disc_s and cddb_track_s without their pointers.  A number of a track that
\* is not set is -1.
Texts == Seq(STRING) \cup {Null}
DiscData ==
  [ discid : DiscIds, category : Categories, year : Nat, length : Nat, revision : Nat,
    genre : Texts, title : Texts, artist : Texts, ext_data : Texts ]
TrackData ==
  [ num : Nat \cup {-1}, frame_offset : Nat \cup {-1}, length : Nat \cup {-1},
    title : Texts, artist : Texts, ext_data : Texts ]

ASSUME NullIsNoData == Null \notin Seq(STRING) \cup DiscData \cup TrackData

NewDisc ==
  [ discid |-> {}, category |-> "invalid", year |-> 0, length |-> 0, revision |-> 0,
    genre |-> Null, title |-> Null, artist |-> Null, ext_data |-> Null ]

NewTrack ==
  [ num |-> -1, frame_offset |-> -1, length |-> -1,
    title |-> Null, artist |-> Null, ext_data |-> Null ]

\* What the source has not set stays as it is in the destination.
Merged(dst, src, unset) ==
  [f \in DOMAIN dst |-> IF src[f] = unset[f] THEN dst[f] ELSE src[f]]

\* A string with another one behind it.
Extended(text, more) == IF text = Null THEN more ELSE text \o more

----------------------------------------------------------------------------
(* Frames, seconds and disc ids.                                           *)

FramesPerSecond == 75

\* The division of C rounds towards zero, and an offset that is not set is -1.
Seconds(frames) == IF frames < 0 THEN -((-frames) \div FramesPerSecond)
                                 ELSE frames \div FramesPerSecond

DigitSum[n \in Nat] == IF n < 10 THEN n ELSE (n % 10) + DigitSum[n \div 10]

PowerOf2[n \in Nat] == IF n = 0 THEN 1 ELSE 2 * PowerOf2[n - 1]

\* The bits of a number.
Bits(n) == {i \in 0..(Width - 1) : (n \div PowerOf2[i]) % 2 = 1}

\* The bits of n, moved up by k bytes; what leaves the disc id is lost.
Shifted(n, k) == {i + k * ByteBits : i \in Bits(n)} \cap (0..(Width - 1))

\* The number that n bytes of a disc id hold, from byte k on.
Bytes(id, k, n) ==
  LET Weight[i \in 0..(n * ByteBits)] ==
        IF i = 0 THEN 0
        ELSE Weight[i - 1] + (IF k * ByteBits + i - 1 \in id THEN PowerOf2[i - 1] ELSE 0)
  IN Weight[n * ByteBits]

\* The sum of the digits of all offsets, in seconds, of the tracks with this data.
Checksum(data) ==
  LET Sum[i \in 0..Len(data)] ==
        IF i = 0 THEN 0 ELSE Sum[i - 1] + DigitSum[Seconds(data[i].frame_offset)]
  IN Sum[Len(data)] % (PowerOf2[ByteBits] - 1)

=============================================================================
