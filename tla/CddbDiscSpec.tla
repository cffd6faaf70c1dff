---------------------------- MODULE CddbDiscSpec ----------------------------
(***************************************************************************)
(* What cddb_disc.c and cddb_track.c promise: a disc is a sequence of      *)
(* tracks with one cursor, and every disc and every track has data of its  *)
(* own.  CddbDisc, which has the pointers and counters, implements it.     *)
(***************************************************************************)
EXTENDS CddbDiscData

CONSTANTS
  Discs, Tracks,  \* what the application may hold at once
  Indices         \* the numbers it asks for tracks with

VARIABLES
  disc, track,  \* the data of discs and tracks, Null for those that do not exist
  order,        \* the tracks of each disc
  cursor,       \* the track under the cursor of each disc, 0 for none
  out           \* the number the last walk asked for, if any, and the track it got

specVars == <<disc, track, order, cursor, out>>

Got(n, t) == [number |-> n, track |-> t]

SpecInit ==
  /\ disc = [d \in Discs |-> Null] /\ track = [t \in Tracks |-> Null]
  /\ order = [d \in Discs |-> <<>>] /\ cursor = [d \in Discs |-> 0]
  /\ out = Got(Null, Null)

OnDisc(d) == {order[d][i] : i \in DOMAIN order[d]}
Used      == UNION {OnDisc(d) : d \in Discs}
Exists(d) == disc[d] # Null
Loose(t)  == track[t] # Null /\ t \notin Used

TrackAt(d, i) == IF i \in DOMAIN order[d] THEN order[d][i] ELSE Null

\* Sets the data of some discs and tracks, and nothing else.
Keeps == UNCHANGED <<order, cursor, out>>

SpecDiscNew(d) ==
  /\ ~Exists(d)
  /\ disc' = [disc EXCEPT ![d] = NewDisc]
  /\ UNCHANGED track /\ Keeps

SpecDiscDestroy(d) ==
  /\ Exists(d)
  /\ disc' = [disc EXCEPT ![d] = Null]
  /\ track' = [t \in Tracks |-> IF t \in OnDisc(d) THEN Null ELSE track[t]]
  /\ order' = [order EXCEPT ![d] = <<>>]
  /\ cursor' = [cursor EXCEPT ![d] = 0]
  /\ out' = Got(Null, Null)

SpecTrackNew(t) ==
  /\ track[t] = Null
  /\ track' = [track EXCEPT ![t] = NewTrack]
  /\ UNCHANGED disc /\ Keeps

SpecTrackDestroy(t) ==
  /\ Loose(t)
  /\ track' = [track EXCEPT ![t] = Null]
  /\ UNCHANGED disc /\ Keeps

\* A clone of a track is a loose one with the same data.
SpecTrackClone(t, u) ==
  /\ track[t] = Null /\ track[u] # Null
  /\ track' = [track EXCEPT ![t] = track[u]]
  /\ UNCHANGED disc /\ Keeps

\* A track that joins a disc is its last one and is numbered so.
SpecAddTrack(d, t) ==
  /\ Exists(d) /\ Loose(t)
  /\ order' = [order EXCEPT ![d] = Append(@, t)]
  /\ track' = [track EXCEPT ![t].num = Len(order'[d])]
  /\ UNCHANGED <<disc, cursor, out>>

\* Numbers start at 0: below it and past the last track there is no track.
SpecGetTrack(d, n) ==
  /\ Exists(d)
  /\ out' = Got(n, TrackAt(d, n + 1))
  /\ UNCHANGED <<disc, track, order, cursor>>

SpecFirst(d) ==
  /\ Exists(d)
  /\ cursor' = [cursor EXCEPT ![d] = IF order[d] = <<>> THEN 0 ELSE 1]
  /\ out' = Got(Null, TrackAt(d, 1))
  /\ UNCHANGED <<disc, track, order>>

\* Past the last track there is none, whatever is added behind it.
SpecNext(d) ==
  /\ Exists(d)
  /\ cursor' = [cursor EXCEPT ![d] = IF @ \in 1..(Len(order[d]) - 1) THEN @ + 1 ELSE 0]
  /\ out' = Got(Null, TrackAt(d, cursor'[d]))
  /\ UNCHANGED <<disc, track, order>>

\* Setting or appending to one field of a disc or a track.
SpecSetDisc(d) ==
  /\ Exists(d)
  /\ \E new \in {disc'[d]} : disc' = [disc EXCEPT ![d] = new] /\ new # Null
  /\ UNCHANGED track /\ Keeps

SpecSetTrack(t) ==
  /\ track[t] # Null
  /\ \E new \in {track'[t]} :
       track' = [track EXCEPT ![t] = new] /\ new # Null /\ new.num = track[t].num
  /\ UNCHANGED disc /\ Keeps

SpecTrackCopy(t, u) ==
  /\ track[t] # Null /\ track[u] # Null
  /\ track' = [track EXCEPT ![t] = Merged(@, track[u], NewTrack)]
  /\ UNCHANGED disc /\ Keeps

\* The tracks new joins a disc with, the track at each place taking the data of the
\* source's track at that place.
SpecJoins(d, new, Data(_)) ==
  /\ \A i, j \in DOMAIN new : new[i] = new[j] => i = j
  /\ \A i \in DOMAIN new : track[new[i]] = Null
  /\ order' = [order EXCEPT ![d] = @ \o new]
  /\ track' = [t \in Tracks |->
       IF \E i \in DOMAIN order'[d] : order'[d][i] = t
       THEN Data(CHOOSE i \in DOMAIN order'[d] : order'[d][i] = t) ELSE track[t]]

\* A clone has the data of the disc and clones of its tracks, and no cursor.
SpecDiscClone(d, e) ==
  /\ ~Exists(d) /\ Exists(e)
  /\ disc' = [disc EXCEPT ![d] = disc[e]]
  /\ \E new \in {order'[d]} :
       /\ Len(new) = Len(order[e])
       /\ SpecJoins(d, new, LAMBDA i : [track[order[e][i]] EXCEPT !.num = i])
  /\ UNCHANGED <<cursor, out>>

\* Copying merges the data of the discs and, place by place, of their tracks; the
\* destination gets the tracks it lacks.
SpecDiscCopy(d, e) ==
  /\ d # e /\ Exists(d) /\ Exists(e)
  /\ disc' = [disc EXCEPT ![d] = Merged(@, disc[e], NewDisc)]
  /\ \E new \in {SubSeq(order'[d], Len(order[d]) + 1, Len(order'[d]))} :
       LET Old(i) == IF i <= Len(order[d]) THEN track[order[d][i]]
                     ELSE [NewTrack EXCEPT !.num = i]
       IN /\ Len(order[d]) + Len(new) =
               IF Len(order[e]) > Len(order[d]) THEN Len(order[e]) ELSE Len(order[d])
          /\ SpecJoins(d, new, LAMBDA i :
               IF i <= Len(order[e]) THEN Merged(Old(i), track[order[e][i]], NewTrack)
               ELSE Old(i))
  /\ UNCHANGED <<cursor, out>>

\* From the top: a byte of checksum, two of playing time, one with the number of
\* tracks, as long as they fit.  A walk of the application ends here.
SpecCalcDiscid(d) ==
  LET data == [i \in DOMAIN order[d] |-> track[order[d][i]]]
      time == disc[d].length - Seconds(data[1].frame_offset)
  IN /\ Exists(d)
     /\ \E id \in {disc'[d].discid} :
          /\ disc' = [disc EXCEPT ![d].discid = id]
          /\ IF order[d] = <<>> THEN id = {}
             ELSE time \in 0..(PowerOf2[2 * ByteBits] - 1) /\ Len(data) < PowerOf2[ByteBits] =>
                  /\ Bytes(id, 0, 1) = Len(data)
                  /\ Bytes(id, 1, 2) = time
                  /\ Bytes(id, 3, 1) = Checksum(data)
     /\ cursor' = [cursor EXCEPT ![d] = 0]
     /\ UNCHANGED <<track, order, out>>

SpecStep ==
  \/ \E d \in Discs :
       \/ SpecDiscNew(d) \/ SpecDiscDestroy(d)
       \/ SpecFirst(d) \/ SpecNext(d) \/ (\E n \in Indices : SpecGetTrack(d, n))
       \/ SpecSetDisc(d) \/ SpecCalcDiscid(d)
       \/ \E t \in Tracks : SpecAddTrack(d, t)
       \/ \E e \in Discs : SpecDiscClone(d, e) \/ SpecDiscCopy(d, e)
  \/ \E t \in Tracks :
       \/ SpecTrackNew(t) \/ SpecTrackDestroy(t) \/ SpecSetTrack(t)
       \/ \E u \in Tracks : SpecTrackClone(t, u) \/ SpecTrackCopy(t, u)

DiscSpec == SpecInit /\ [][SpecStep]_specVars

=============================================================================
