------------------------------ MODULE CddbDisc ------------------------------
(***************************************************************************)
(* Discs and tracks (cddb_disc.c, cddb_track.c): structures on the heap,   *)
(* a doubly linked list of tracks for each disc with a counter and the     *)
(* iterator of cddb_disc_get_track_first and _next, and data that is set,  *)
(* appended to, cloned, copied and computed.  The one thread of the        *)
(* application calls one function after the other.                         *)
(***************************************************************************)
EXTENDS CddbDiscData, SequencesExt

CONSTANTS
  Discs, Tracks,  \* the structures that fit into memory
  Indices,        \* the numbers cddb_disc_get_track is called with
  DiscValues,     \* for each field of a disc, what the application sets it to
  TrackValues,    \* for each field of a track, the same
  MaxWords,       \* bound on the words of a string
  MaxCalls        \* bound on the calls other than those that build a disc

ASSUME NullAssumption == Null \notin Discs \cup Tracks
ASSUME TracksAssumption == IsFiniteSet(Tracks)
ASSUME ValuesAssumption ==
  /\ DiscValues \in
       [ discid : SUBSET DiscIds, category : SUBSET Categories, year : SUBSET Nat,
         length : SUBSET Nat, revision : SUBSET Nat, genre : SUBSET (Seq(STRING) \ {<<>>}),
         title : SUBSET Texts, artist : SUBSET Texts, ext_data : SUBSET Texts ]
  /\ TrackValues \in
       [ frame_offset : SUBSET (Nat \cup {-1}), length : SUBSET Int,
         title : SUBSET Texts, artist : SUBSET Texts, ext_data : SUBSET Texts ]
ASSUME IndicesAssumption == Indices \subseteq Int
ASSUME BoundAssumption == MaxWords \in Nat /\ MaxCalls \in Nat

VARIABLES
  disc, track,    \* the data of each structure, Null for one that is not allocated
  tracks, track_cnt, iterator,  \* the other fields of cddb_disc_s
  next, prev, owner,            \* the pointers of cddb_track_s (owner is its disc)
  out,            \* the number the last walk asked for, and the track it returned
  calls,          \* the number of calls made that MaxCalls bounds
  origin,         \* history: where the length of a track is from
  order           \* history: the tracks that were added to each disc

links    == <<tracks, track_cnt, next, prev, owner, order>>
discVars == <<disc, track, links, iterator, out, calls, origin>>

TrackPointers == Tracks \cup {Null}

Got(n, t) == [number |-> n, track |-> t]

Call == calls < MaxCalls /\ calls' = calls + 1

Init ==
  /\ disc = [d \in Discs |-> Null] /\ track = [t \in Tracks |-> Null]
  /\ tracks = [d \in Discs |-> Null] /\ track_cnt = [d \in Discs |-> 0]
  /\ iterator = [d \in Discs |-> Null]
  /\ next = [t \in Tracks |-> Null] /\ prev = [t \in Tracks |-> Null]
  /\ owner = [t \in Tracks |-> Null]
  /\ out = Got(Null, Null) /\ calls = 0
  /\ origin = [t \in Tracks |-> "unset"] /\ order = [d \in Discs |-> <<>>]

\* The track n places behind t.
After(t, n) ==
  LET nth[i \in 0..n] ==
        IF i = 0 THEN t ELSE IF nth[i - 1] = Null THEN Null ELSE next[nth[i - 1]]
  IN nth[n]

\* What a loop over t->next visits.
Chain(t) ==
  [i \in {n \in 1..Cardinality(Tracks) : After(t, n - 1) # Null} |-> After(t, i - 1)]

LastOf(d) == IF tracks[d] = Null THEN Null ELSE Last(Chain(tracks[d]))

\* What a change of the neighbours of a track, of its offset or of the length of its
\* disc makes of a length that was computed from them.
Aged(changed) ==
  [t \in Tracks |-> IF t \in changed /\ origin[t] = "computed" THEN "old" ELSE origin[t]]

----------------------------------------------------------------------------
(* Construction and destruction.                                           *)

CddbDiscNew(d) ==
  /\ disc[d] = Null
  /\ disc' = [disc EXCEPT ![d] = NewDisc]
  /\ UNCHANGED <<track, links, iterator, out, calls, origin>>

\* The tracks are freed with the disc; the application forgets its pointers to them.
CddbDiscDestroy(d) ==
  /\ Call /\ disc[d] # Null
  /\ LET freed == Range(Chain(tracks[d]))
         Cleared(f, x) == [t \in Tracks |-> IF t \in freed THEN x ELSE f[t]]
     IN /\ track' = Cleared(track, Null) /\ origin' = Cleared(origin, "unset")
        /\ next' = Cleared(next, Null) /\ prev' = Cleared(prev, Null)
        /\ owner' = Cleared(owner, Null)
  /\ order' = [order EXCEPT ![d] = <<>>]
  /\ disc' = [disc EXCEPT ![d] = Null]
  /\ tracks' = [tracks EXCEPT ![d] = Null]
  /\ track_cnt' = [track_cnt EXCEPT ![d] = 0]
  /\ iterator' = [iterator EXCEPT ![d] = Null]
  /\ out' = Got(Null, Null)

CddbTrackNew(t) ==
  /\ track[t] = Null
  /\ track' = [track EXCEPT ![t] = NewTrack]
  /\ origin' = [origin EXCEPT ![t] = "unset"]
  /\ UNCHANGED <<disc, links, iterator, out, calls>>

\* "You have to make sure that no other tracks are attached to this one before
\* calling this function" (cddb_track.h).
CddbTrackDestroy(t) ==
  /\ Call /\ track[t] # Null /\ owner[t] = Null
  /\ track' = [track EXCEPT ![t] = Null]
  /\ UNCHANGED <<disc, links, iterator, out, origin>>

CddbTrackClone(t, u) ==
  /\ Call /\ track[t] = Null /\ track[u] # Null
  /\ track' = [track EXCEPT ![t] = track[u]]
  /\ origin' = [origin EXCEPT ![t] = "given"]
  /\ UNCHANGED <<disc, links, iterator, out>>

----------------------------------------------------------------------------
(* The list of tracks.                                                     *)

\* Mutant: the new track is not linked back.
LinksForward(d, new) ==
  LET all == <<LastOf(d)>> \o new
      At(t) == CHOOSE i \in DOMAIN all : all[i] = t
  IN /\ tracks' = [tracks EXCEPT ![d] = IF @ = Null /\ new # <<>> THEN new[1] ELSE @]
     /\ track_cnt' = [track_cnt EXCEPT ![d] = @ + Len(new)]
     /\ next' = [t \in Tracks |-> IF t \in Range(Front(all)) THEN all[At(t) + 1]
                                  ELSE next[t]]
     /\ prev' = prev
     /\ owner' = [t \in Tracks |-> IF t \in Range(new) THEN d ELSE owner[t]]
     /\ order' = [order EXCEPT ![d] = @ \o new]

\* cddb_disc_add_track, for each of the tracks new in turn.
Links(d, new) ==
  LET all == <<LastOf(d)>> \o new
      At(t) == CHOOSE i \in DOMAIN all : all[i] = t
  IN /\ tracks' = [tracks EXCEPT ![d] = IF @ = Null /\ new # <<>> THEN new[1] ELSE @]
     /\ track_cnt' = [track_cnt EXCEPT ![d] = @ + Len(new)]
     /\ next' = [t \in Tracks |-> IF t \in Range(Front(all)) THEN all[At(t) + 1]
                                  ELSE next[t]]
     /\ prev' = [t \in Tracks |-> IF t \in Range(new) THEN all[At(t) - 1] ELSE prev[t]]
     /\ owner' = [t \in Tracks |-> IF t \in Range(new) THEN d ELSE owner[t]]
     /\ order' = [order EXCEPT ![d] = @ \o new]

\* The application adds a track once.
CddbDiscAddTrack(d, t) ==
  /\ disc[d] # Null /\ track[t] # Null /\ owner[t] = Null
  /\ Links(d, <<t>>)
  /\ track' = [track EXCEPT ![t].num = track_cnt'[d]]
  /\ origin' = Aged({LastOf(d), t})
  /\ UNCHANGED <<disc, iterator, out, calls>>

\* Mutant: the number of tracks is taken for a track.
CddbDiscGetTrackPast(d, n) ==
  /\ Call /\ disc[d] # Null
  /\ out' = Got(n, IF n > track_cnt[d] THEN Null
                   ELSE After(tracks[d], IF n > 0 THEN n - 1 ELSE 0))
  /\ UNCHANGED <<disc, track, links, iterator, origin>>

\* The loop counts n down to 0; a number below 0 is never compared with anything.
CddbDiscGetTrack(d, n) ==
  /\ Call /\ disc[d] # Null
  /\ out' = Got(n, IF n >= track_cnt[d] THEN Null ELSE After(tracks[d], IF n > 0 THEN n ELSE 0))
  /\ UNCHANGED <<disc, track, links, iterator, origin>>

CddbDiscGetTrackFirst(d) ==
  /\ Call /\ disc[d] # Null
  /\ iterator' = [iterator EXCEPT ![d] = tracks[d]]
  /\ out' = Got(Null, iterator'[d])
  /\ UNCHANGED <<disc, track, links, origin>>

CddbDiscGetTrackNext(d) ==
  /\ Call /\ disc[d] # Null
  /\ iterator' = [iterator EXCEPT ![d] = IF @ = Null THEN Null ELSE next[@]]
  /\ out' = Got(Null, iterator'[d])
  /\ UNCHANGED <<disc, track, links, origin>>

----------------------------------------------------------------------------
(* Setting and appending.                                                  *)

\* cddb_disc_set_discid, _category, _year, _length, _revision, _genre, _title, _artist
\* and _ext_data.
CddbDiscSet(d, f, x) ==
  /\ Call /\ disc[d] # Null
  /\ disc' = [disc EXCEPT ![d][f] = x]
  /\ origin' = IF f = "length" THEN Aged({LastOf(d)}) ELSE origin
  /\ UNCHANGED <<track, links, iterator, out>>

\* cddb_disc_append_title, _artist and _ext_data.
CddbDiscAppend(d, f, text) ==
  /\ Call /\ disc[d] # Null /\ f \in DiscTexts \ {"genre"} /\ text # Null
  /\ disc' = [disc EXCEPT ![d][f] = Extended(@, text)]
  /\ Len(disc'[d][f]) <= MaxWords
  /\ UNCHANGED <<track, links, iterator, out, origin>>

CddbDiscSetCategoryStr(d, name) ==
  /\ Call /\ disc[d] # Null
  /\ disc' = [disc EXCEPT ![d].genre = <<name>>,
                          ![d].category = CategoryOf(name)]
  /\ UNCHANGED <<track, links, iterator, out, origin>>

\* cddb_track_set_title, _artist and _ext_data.
CddbTrackSet(t, f, x) ==
  /\ Call /\ track[t] # Null /\ f \in TrackTexts
  /\ track' = [track EXCEPT ![t][f] = x]
  /\ UNCHANGED <<disc, links, iterator, out, origin>>

\* cddb_track_append_title, _artist and _ext_data.
CddbTrackAppend(t, f, text) ==
  /\ Call /\ track[t] # Null /\ f \in TrackTexts /\ text # Null
  /\ track' = [track EXCEPT ![t][f] = Extended(@, text)]
  /\ Len(track'[t][f]) <= MaxWords
  /\ UNCHANGED <<disc, links, iterator, out, origin>>

CddbTrackSetFrameOffset(t, offset) ==
  /\ Call /\ track[t] # Null
  /\ track' = [track EXCEPT ![t].frame_offset = offset]
  /\ origin' = Aged({t, prev[t]})
  /\ UNCHANGED <<disc, links, iterator, out>>

----------------------------------------------------------------------------
(* The length of a track.                                                  *)

\* Mutant: the length is given even if the end is not behind the start.
LengthFromOffsetsAny(t) ==
  LET start == track[t].frame_offset
  IN IF next[t] # Null THEN Seconds(track[next[t]].frame_offset - start)
     ELSE IF owner[t] # Null THEN disc[owner[t]].length - Seconds(start) ELSE -1

\* Mutant: the offsets are rounded before they are subtracted.
LengthFromOffsetsRounded(t) ==
  LET start == Seconds(track[t].frame_offset)
      end   == IF next[t] # Null THEN Seconds(track[next[t]].frame_offset)
               ELSE IF owner[t] # Null THEN disc[owner[t]].length ELSE -1
  IN IF end > start THEN end - start ELSE -1

\* The time to the next track or to the end of the disc, -1 if there is none.  An
\* offset that is not set counts as -1.
LengthFromOffsets(t) ==
  LET start == track[t].frame_offset
      end   == track[next[t]].frame_offset
      total == disc[owner[t]].length
  IN IF next[t] # Null THEN IF end > start THEN Seconds(end - start) ELSE -1
     ELSE IF owner[t] # Null /\ total > Seconds(start) THEN total - Seconds(start) ELSE -1

\* A length that is computed is kept.
CddbTrackGetLength(t) ==
  /\ track[t] # Null /\ track[t].length = -1
  /\ track' = [track EXCEPT ![t].length = LengthFromOffsets(t)]
  /\ origin' = IF track'[t].length = -1 THEN origin ELSE [origin EXCEPT ![t] = "computed"]
  /\ UNCHANGED <<disc, links, iterator, out, calls>>

\* The first track starts at 150, the others where the one before ends.
OffsetFromLengths(t, length) ==
  IF prev[t] = Null THEN 150
  ELSE IF track[prev[t]].frame_offset = -1 \/ track[prev[t]].length = -1 THEN -1
  ELSE track[prev[t]].frame_offset + track[prev[t]].length * FramesPerSecond

\* A length that is set gives the track an offset if it has none.
CddbTrackSetLength(t, length) ==
  /\ Call /\ track[t] # Null /\ length >= 0
  /\ track' = [track EXCEPT
       ![t].length = length,
       ![t].frame_offset = IF owner[t] # Null /\ @ = -1
                           THEN OffsetFromLengths(t, length) ELSE @]
  /\ origin' = [Aged(IF track'[t].frame_offset = track[t].frame_offset THEN {}
                     ELSE {prev[t]}) EXCEPT ![t] = "given"]
  /\ UNCHANGED <<disc, links, iterator, out>>

----------------------------------------------------------------------------
(* Copies and disc ids.                                                    *)

\* The structures calloc may return, in the order it returns them.
Fresh(k) == {new \in [1..k -> {t \in Tracks : track[t] = Null}] : IsInjective(new)}

CddbTrackCopy(t, u) ==
  /\ Call /\ track[t] # Null /\ track[u] # Null /\ t # u
  /\ track' = [track EXCEPT ![t] = Merged(@, track[u], NewTrack)]
  /\ origin' = [Aged({t, prev[t]}) EXCEPT ![t] = "given"]
  /\ UNCHANGED <<disc, links, iterator, out>>

\* cddb_disc_new, and for each track of e a clone that is added.
CddbDiscClone(d, e) ==
  /\ Call /\ disc[d] = Null /\ disc[e] # Null
  /\ disc' = [disc EXCEPT ![d] = disc[e]]
  /\ LET source == Chain(tracks[e])
     IN \E new \in Fresh(Len(source)) :
          /\ Links(d, new)
          /\ track' = [t \in Tracks |->
               IF t \in Range(new)
               THEN LET i == CHOOSE j \in DOMAIN new : new[j] = t
                    IN [track[source[i]] EXCEPT !.num = i]
               ELSE track[t]]
          /\ origin' = [t \in Tracks |-> IF t \in Range(new) THEN "given" ELSE origin[t]]
  /\ UNCHANGED <<iterator, out>>

\* The destination gets a new track, which joins it, for each that it lacks.
CddbDiscCopy(d, e) ==
  /\ Call /\ d # e /\ disc[d] # Null /\ disc[e] # Null
  /\ disc' = [disc EXCEPT ![d] = Merged(@, disc[e], NewDisc)]
  /\ LET source == Chain(tracks[e])
         had    == Chain(tracks[d])
         lacks  == IF Len(source) > Len(had) THEN Len(source) - Len(had) ELSE 0
     IN \E new \in Fresh(lacks) :
          LET all == had \o new
              Old(i) == IF i <= Len(had) THEN track[all[i]]
                        ELSE [NewTrack EXCEPT !.num = track_cnt[d] + i - Len(had)]
              At(t) == CHOOSE j \in DOMAIN all : all[j] = t
              copied == {all[i] : i \in DOMAIN source}
          IN /\ Links(d, new)
             /\ track' = [t \in Tracks |->
                  IF t \in copied THEN Merged(Old(At(t)), track[source[At(t)]], NewTrack)
                  ELSE track[t]]
             /\ origin' = [t \in Tracks |->
                  IF t \in copied THEN "given" ELSE Aged(Range(had))[t]]
  /\ UNCHANGED <<iterator, out>>

\* disc->length is unsigned: a disc shorter than its first offset wraps around.
PlayingTime(d) == (disc[d].length - Seconds(track[tracks[d]].frame_offset)) % PowerOf2[Width]

\* The parts are put together with |; the walk ends with the iterator at NULL.
CddbDiscCalcDiscid(d) ==
  /\ Call /\ disc[d] # Null
  /\ LET chain == Chain(tracks[d])
         sum   == Checksum([i \in DOMAIN chain |-> track[chain[i]]])
     IN disc' = [disc EXCEPT ![d].discid =
          IF tracks[d] = Null THEN {}
          ELSE Shifted(sum, 3) \cup Shifted(PlayingTime(d), 1) \cup Bits(track_cnt[d])]
  /\ iterator' = [iterator EXCEPT ![d] = Null]
  /\ UNCHANGED <<track, links, out, origin>>

----------------------------------------------------------------------------

Next ==
  \/ \E d \in Discs :
       \/ CddbDiscNew(d) \/ CddbDiscDestroy(d) \/ CddbDiscCalcDiscid(d)
       \/ CddbDiscGetTrackFirst(d) \/ CddbDiscGetTrackNext(d)
       \/ \E n \in Indices : CddbDiscGetTrack(d, n)
       \/ \E f \in DOMAIN DiscValues : \E x \in DiscValues[f] :
            CddbDiscSet(d, f, x) \/ CddbDiscAppend(d, f, x)
       \/ \E x \in DiscValues.genre : CddbDiscSetCategoryStr(d, x[1])
       \/ \E t \in Tracks : CddbDiscAddTrack(d, t)
       \/ \E e \in Discs : CddbDiscClone(d, e) \/ CddbDiscCopy(d, e)
  \/ \E t \in Tracks :
       \/ CddbTrackNew(t) \/ CddbTrackDestroy(t) \/ CddbTrackGetLength(t)
       \/ \E f \in TrackTexts : \E x \in TrackValues[f] :
            CddbTrackSet(t, f, x) \/ CddbTrackAppend(t, f, x)
       \/ \E x \in TrackValues.frame_offset : CddbTrackSetFrameOffset(t, x)
       \/ \E x \in TrackValues.length : CddbTrackSetLength(t, x)
       \/ \E u \in Tracks : CddbTrackClone(t, u) \/ CddbTrackCopy(t, u)

Spec == Init /\ [][Next]_discVars

----------------------------------------------------------------------------
(* What discs and tracks promise.                                          *)

DiscTypeOK ==
  /\ disc \in [Discs -> DiscData \cup {Null}]
  /\ track \in [Tracks -> TrackData \cup {Null}]
  /\ \A t \in Tracks : track[t] # Null => track[t].num \in 1..Cardinality(Tracks) \cup {-1}
  /\ tracks \in [Discs -> TrackPointers] /\ iterator \in [Discs -> TrackPointers]
  /\ track_cnt \in [Discs -> Nat]
  /\ next \in [Tracks -> TrackPointers] /\ prev \in [Tracks -> TrackPointers]
  /\ owner \in [Tracks -> Discs \cup {Null}]
  /\ out.number \in Indices \cup {Null} /\ out.track \in TrackPointers
  /\ calls \in 0..MaxCalls
  /\ origin \in [Tracks -> {"unset", "given", "computed", "old"}]
  /\ order \in [Discs -> Seq(Tracks)]

\* However tracks come to a disc (added, cloned or copied), they are linked in both
\* directions and know their disc, the counter counts them, no track is on two
\* discs, and no iterator stands on a track of another disc or on a freed one.
Chained ==
  /\ \A d \in Discs :
       /\ track_cnt[d] = Len(order[d]) /\ IsInjective(order[d])
       /\ tracks[d] = IF order[d] = <<>> THEN Null ELSE order[d][1]
       /\ \A i \in DOMAIN order[d] :
            /\ next[order[d][i]] = IF i = Len(order[d]) THEN Null ELSE order[d][i + 1]
            /\ prev[order[d][i]] = IF i = 1 THEN Null ELSE order[d][i - 1]
            /\ owner[order[d][i]] = d
            /\ track[order[d][i]] # Null
       /\ iterator[d] \in Range(order[d]) \cup {Null}
  /\ \A t \in Tracks : owner[t] # Null => disc[owner[t]] # Null /\ t \in Range(order[owner[t]])

\* A length that was computed (cddb_track_get_length) is the time to the next track
\* or to the end of the disc, as long as no offset, no length of the disc and no
\* neighbour it was computed from has changed since.
LengthFresh ==
  \A d \in Discs : \A i \in DOMAIN order[d] :
    LET data  == track[order[d][i]]
        apart == track[order[d][i + 1]].frame_offset - data.frame_offset
    IN origin[order[d][i]] = "computed" =>
         IF i = Len(order[d])
         THEN data.length > 0 /\ Seconds(data.frame_offset) + data.length = disc[d].length
         ELSE 0 < apart /\ data.length * FramesPerSecond <= apart
              /\ apart < (data.length + 1) * FramesPerSecond

\* "If there is no track with the given number, then NULL will be returned"
\* (cddb_disc.h): a walk that asks for a number gets the track that has it or none.
TrackOfNumber ==
  out.number # Null /\ out.track # Null =>
    \E d \in Discs : out.number + 1 \in DOMAIN order[d] /\ order[d][out.number + 1] = out.track

cursor ==
  [d \in Discs |-> IF iterator[d] = Null THEN 0
                   ELSE CHOOSE i \in DOMAIN order[d] : order[d][i] = iterator[d]]

Abs == INSTANCE CddbDiscSpec
         WITH disc <- disc, track <- track, order <- order, cursor <- cursor, out <- out

\* The structures and pointers of cddb_disc.c and cddb_track.c implement sequences of
\* tracks with a cursor, and disc ids tell the number of tracks, the playing time
\* and the checksum (CddbDiscSpec), for an application that numbers tracks from 0.
ImplementsDiscs == Abs!DiscSpec

=============================================================================
