--------------------------- MODULE CddbDiscProofs ---------------------------
(***************************************************************************)
(* Proofs about CddbDisc, for any number of discs and tracks and any data: *)
(* however tracks come to a disc, the lists stay linked.                   *)
(***************************************************************************)
EXTENDS CddbDisc, CddbInduction, FiniteSetTheorems

\* A track that is on no disc is linked to no other.
Unlinked == \A t \in Tracks : owner[t] = Null => next[t] = Null /\ prev[t] = Null

DiscIInv == DiscTypeOK /\ Chained /\ Unlinked

\* A sequence behind an element.
LEMMA Behind ==
  ASSUME NEW S, NEW x \in S, NEW t \in Seq(S), NEW all, all = <<x>> \o t
  PROVE  /\ all \in Seq(S) /\ Len(all) = Len(t) + 1 /\ DOMAIN all = 1..(Len(t) + 1)
         /\ all[1] = x
         /\ \A i \in 1..Len(t) : all[i + 1] = t[i]
         /\ \A i \in 2..(Len(t) + 1) : all[i] = t[i - 1]
<1>1. <<x>> \in Seq(S) /\ Len(<<x>>) = 1 /\ <<x>>[1] = x /\ Len(t) \in Nat
  OBVIOUS
<1>2. all \in Seq(S) /\ Len(all) = Len(t) + 1 /\ DOMAIN all = 1..(Len(t) + 1)
  BY <1>1
<1>3. \A i \in 1..(Len(t) + 1) : all[i] = IF i <= 1 THEN <<x>>[i] ELSE t[i - 1]
  BY <1>1
<1>. QED
  BY <1>1, <1>2, <1>3

\* The rest of a sequence, from m + 1 on.
LEMMA RestOf ==
  ASSUME NEW S, NEW all \in Seq(S), NEW m \in Nat, NEW k \in Nat, Len(all) = m + k
  PROVE  /\ SubSeq(all, m + 1, m + k) \in Seq(S) /\ Len(SubSeq(all, m + 1, m + k)) = k
         /\ \A i \in 1..k : SubSeq(all, m + 1, m + k)[i] = all[m + i]
<1> DEFINE r == SubSeq(all, m + 1, m + k)
<1>1. r = [i \in 1..((m + k) - (m + 1) + 1) |-> all[i + (m + 1) - 1]]
  OBVIOUS
<1>2. (m + k) - (m + 1) + 1 = k /\ \A i \in 1..k : i + (m + 1) - 1 = m + i /\ m + i \in 1..Len(all)
  OBVIOUS
<1>3. r = [i \in 1..k |-> all[i + (m + 1) - 1]]
  BY <1>1, <1>2
<1> HIDE DEF r
<1>4. \A i \in 1..k : r[i] = all[m + i] /\ r[i] \in S
  <2>1. \A i \in 1..Len(all) : all[i] \in S
    OBVIOUS
  <2>. QED
    BY <1>2, <1>3, <2>1
<1>5. r \in Seq(S) /\ Len(r) = k
  BY <1>3, <1>4
<1>. QED
  BY <1>4, <1>5 DEF r

\* A sequence of tracks without repetition is no longer than there are tracks.
LEMMA NoMoreThanTracks ==
  ASSUME NEW s \in Seq(Tracks), \A i, j \in 1..Len(s) : s[i] = s[j] => i = j
  PROVE  Len(s) <= Cardinality(Tracks) /\ Cardinality(Tracks) \in Nat
<1>1. Len(s) \in Nat /\ s \in [1..Len(s) -> Tracks]
  OBVIOUS
<1>2. IsFiniteSet(1..Len(s)) /\ Cardinality(1..Len(s)) = Len(s)
  BY <1>1, FS_Interval
<1>3. s \in Injection(1..Len(s), Tracks)
  BY <1>1 DEF Injection, IsInjective
<1>4. Cardinality(Tracks) \in Nat
  BY TracksAssumption, FS_CardinalityType
<1>. QED
  BY <1>2, <1>3, <1>4, FS_Injection, TracksAssumption

\* The tracks of a disc: no more than there are.
LEMMA OrderShape ==
  ASSUME DiscIInv, NEW d \in Discs
  PROVE  /\ order[d] \in Seq(Tracks) /\ Len(order[d]) \in Nat /\ DOMAIN order[d] = 1..Len(order[d])
         /\ \A i \in 1..Len(order[d]) : order[d][i] \in Tracks /\ order[d][i] # Null
         /\ \A i, j \in 1..Len(order[d]) : order[d][i] = order[d][j] => i = j
         /\ Len(order[d]) \in 0..Cardinality(Tracks) /\ Cardinality(Tracks) \in Nat
<1>1. order[d] \in Seq(Tracks)
  BY DEF DiscIInv, DiscTypeOK
<1>2. /\ Len(order[d]) \in Nat /\ DOMAIN order[d] = 1..Len(order[d])
      /\ order[d] \in [1..Len(order[d]) -> Tracks]
  BY <1>1
<1>3. \A i, j \in 1..Len(order[d]) : order[d][i] = order[d][j] => i = j
  BY <1>2 DEF DiscIInv, Chained, IsInjective
<1>4. Len(order[d]) <= Cardinality(Tracks) /\ Cardinality(Tracks) \in Nat
  BY <1>1, <1>3, NoMoreThanTracks
<1>. QED
  BY <1>1, <1>2, <1>3, <1>4, NullAssumption

\* How far a walk along t->next has come after n steps, for t the first track.
LEMMA AfterFirst ==
  ASSUME DiscIInv, NEW d \in Discs, NEW n \in Nat
  PROVE  After(tracks[d], n) = IF n < Len(order[d]) THEN order[d][n + 1] ELSE Null
<1> DEFINE Step(u) == IF u = Null THEN Null ELSE next[u]
           nth[i \in 0..n] == IF i = 0 THEN tracks[d]
                              ELSE IF nth[i - 1] = Null THEN Null ELSE next[nth[i - 1]]
           g == [i \in 0..n |-> IF i < Len(order[d]) THEN order[d][i + 1] ELSE Null]
<1>1. After(tracks[d], n) = nth[n]
  BY DEF After
<1>2. g = [i \in 0..n |-> IF i = 0 THEN tracks[d]
                          ELSE IF g[i - 1] = Null THEN Null ELSE next[g[i - 1]]]
  <2>0. ASSUME NEW i \in 0..n
        PROVE  g[i] = IF i = 0 THEN tracks[d]
                      ELSE IF g[i - 1] = Null THEN Null ELSE next[g[i - 1]]
    <3>1. CASE i = 0
      BY <3>1, OrderShape DEF DiscIInv, Chained
    <3>2. CASE i # 0
      <4>1. i - 1 \in 0..n /\ i - 1 + 1 = i
        BY <3>2
      <4>2. CASE i - 1 < Len(order[d])
        <5>1. g[i - 1] = order[d][i] /\ i \in 1..Len(order[d]) /\ g[i - 1] # Null
          BY <4>1, <4>2, OrderShape
        <5>2. next[order[d][i]] = IF i = Len(order[d]) THEN Null ELSE order[d][i + 1]
          BY <5>1, OrderShape DEF DiscIInv, Chained
        <5>3. i = Len(order[d]) \/ i < Len(order[d])
          BY <5>1, OrderShape
        <5>. QED
          BY <3>2, <5>1, <5>2, <5>3
      <4>3. CASE ~(i - 1 < Len(order[d]))
        <5>1. g[i - 1] = Null /\ g[i] = Null
          BY <4>1, <4>3, OrderShape
        <5>. QED
          BY <3>2, <5>1
      <4>. QED
        BY <4>2, <4>3
    <3>. QED
      BY <3>1, <3>2
  <2>. QED
    BY <2>0
<1>3. nth = [i \in 0..n |-> IF i = 0 THEN tracks[d]
                          ELSE IF nth[i - 1] = Null THEN Null ELSE next[nth[i - 1]]]
  <2> HIDE DEF g
  <2>. QED
    BY <1>2
<1> HIDE DEF nth
<1>4. \A i \in Nat : i <= n => nth[i] = g[i]
  <2> DEFINE S == {i \in Nat : i <= n => nth[i] = g[i]}
  <2>1. 0 \in S
    <3>1. 0 \in 0..n
      OBVIOUS
    <3> HIDE DEF g
    <3>. QED
      BY <1>2, <1>3, <3>1
  <2>2. ASSUME NEW i \in Nat, i \in S PROVE i + 1 \in S
    <3> HIDE DEF g
    <3>1. i + 1 <= n => i + 1 \in 0..n /\ i + 1 - 1 = i /\ i <= n /\ i + 1 # 0
      OBVIOUS
    <3>. QED
      BY <1>2, <1>3, <2>2, <3>1
  <2> HIDE DEF S
  <2>3. Nat \subseteq S
    BY <2>1, <2>2, NatSetInduction
  <2>. QED
    BY <2>3 DEF S
<1>. QED
  BY <1>1, <1>4

\* The loops over t->next visit the tracks of a disc in their order.
LEMMA ChainIsOrder ==
  ASSUME DiscIInv, NEW d \in Discs
  PROVE  Chain(tracks[d]) = order[d]
<1> DEFINE n == Len(order[d])
           visited == {i \in 1..Cardinality(Tracks) : After(tracks[d], i - 1) # Null}
<1>1. n \in 0..Cardinality(Tracks) /\ Cardinality(Tracks) \in Nat /\ n \in Nat
  BY OrderShape
<1>2. \A i \in 1..Cardinality(Tracks) :
        After(tracks[d], i - 1) = IF i - 1 < n THEN order[d][i] ELSE Null
  <2>1. ASSUME NEW i \in 1..Cardinality(Tracks)
        PROVE  After(tracks[d], i - 1) = IF i - 1 < n THEN order[d][i] ELSE Null
    <3>1. i - 1 \in Nat /\ i - 1 + 1 = i
      OBVIOUS
    <3>. QED
      BY <3>1, AfterFirst
  <2>. QED
    BY <2>1
<1>3. \A i \in 1..n : order[d][i] # Null
  BY OrderShape
<1> HIDE DEF n
<1>4. visited = 1..n
  BY <1>1, <1>2, <1>3
<1>5. \A i \in 1..n : After(tracks[d], i - 1) = order[d][i]
  BY <1>1, <1>2
<1>6. order[d] = [i \in 1..n |-> order[d][i]]
  BY OrderShape DEF n
<1>. QED
  BY <1>4, <1>5, <1>6 DEF Chain

\* The part of Chained that is about the pointers, and the part that is about what they
\* point to.
Strung ==
  /\ \A d \in Discs :
       /\ track_cnt[d] = Len(order[d])
       /\ \A i, j \in 1..Len(order[d]) : order[d][i] = order[d][j] => i = j
       /\ tracks[d] = IF order[d] = <<>> THEN Null ELSE order[d][1]
       /\ \A i \in 1..Len(order[d]) :
            /\ next[order[d][i]] = IF i = Len(order[d]) THEN Null ELSE order[d][i + 1]
            /\ prev[order[d][i]] = IF i = 1 THEN Null ELSE order[d][i - 1]
            /\ owner[order[d][i]] = d
  /\ \A t \in Tracks : owner[t] # Null => \E i \in 1..Len(order[owner[t]]) : order[owner[t]][i] = t

Peopled ==
  /\ \A d \in Discs : \A i \in 1..Len(order[d]) : track[order[d][i]] # Null
  /\ \A d \in Discs : iterator[d] # Null => \E i \in 1..Len(order[d]) : order[d][i] = iterator[d]
  /\ \A t \in Tracks : owner[t] # Null => disc[owner[t]] # Null

LinkTypes ==
  /\ tracks \in [Discs -> TrackPointers] /\ track_cnt \in [Discs -> Nat]
  /\ next \in [Tracks -> TrackPointers] /\ prev \in [Tracks -> TrackPointers]
  /\ owner \in [Tracks -> Discs \cup {Null}]
  /\ order \in [Discs -> Seq(Tracks)]

DataTypes ==
  /\ disc \in [Discs -> DiscData \cup {Null}]
  /\ track \in [Tracks -> TrackData \cup {Null}]
  /\ \A t \in Tracks : track[t] # Null => track[t].num \in 1..Cardinality(Tracks) \cup {-1}
  /\ iterator \in [Discs -> TrackPointers]
  /\ out.number \in Indices \cup {Null} /\ out.track \in TrackPointers
  /\ calls \in 0..MaxCalls
  /\ origin \in [Tracks -> {"unset", "given", "computed", "old"}]

\* The values of a function.
LEMMA RangeIs ==
  ASSUME NEW S, NEW f, DOMAIN f = S
  PROVE  Range(f) = {f[x] : x \in S}
  BY DEF Range

\* Chained and DiscTypeOK are their parts.
LEMMA Parts == DiscIInv <=> LinkTypes /\ DataTypes /\ Strung /\ Peopled /\ Unlinked
<1>1. DiscTypeOK <=> LinkTypes /\ DataTypes
  BY DEF DiscTypeOK, LinkTypes, DataTypes
<1>2. ASSUME LinkTypes PROVE Chained <=> Strung /\ Peopled
  <2>1. \A d \in Discs : order[d] \in Seq(Tracks)
    BY <1>2 DEF LinkTypes
  <2>2. \A d \in Discs : DOMAIN order[d] = 1..Len(order[d])
    BY <2>1
  <2>3. \A t \in Tracks : owner[t] # Null => owner[t] \in Discs
    BY <1>2 DEF LinkTypes
  <2>4. \A d \in Discs : IsInjective(order[d]) <=>
                         \A i, j \in 1..Len(order[d]) : order[d][i] = order[d][j] => i = j
    BY <2>2 DEF IsInjective
  <2>5. \A d \in Discs : \A t : t \in Range(order[d]) <=>
                                   \E i \in 1..Len(order[d]) : order[d][i] = t
    BY <2>2 DEF Range
  <2>6. (\A t \in Tracks : owner[t] # Null => disc[owner[t]] # Null /\ t \in Range(order[owner[t]]))
        <=> /\ \A t \in Tracks : owner[t] # Null => disc[owner[t]] # Null
            /\ \A t \in Tracks : owner[t] # Null =>
                 \E i \in 1..Len(order[owner[t]]) : order[owner[t]][i] = t
    BY <2>3, <2>5
  <2>7. \A d \in Discs : iterator[d] \in Range(order[d]) \cup {Null} <=>
          (iterator[d] # Null => \E i \in 1..Len(order[d]) : order[d][i] = iterator[d])
    BY <2>5
  <2>8. ASSUME Chained PROVE Strung /\ Peopled
    BY <2>2, <2>4, <2>6, <2>7, <2>8 DEF Chained, Strung, Peopled
  <2>9. ASSUME Strung, Peopled PROVE Chained
    <3>1. ASSUME NEW d \in Discs
          PROVE  /\ track_cnt[d] = Len(order[d]) /\ IsInjective(order[d])
                 /\ tracks[d] = IF order[d] = <<>> THEN Null ELSE order[d][1]
                 /\ \A i \in DOMAIN order[d] :
                      /\ next[order[d][i]] = IF i = Len(order[d]) THEN Null ELSE order[d][i + 1]
                      /\ prev[order[d][i]] = IF i = 1 THEN Null ELSE order[d][i - 1]
                      /\ owner[order[d][i]] = d
                      /\ track[order[d][i]] # Null
                 /\ iterator[d] \in Range(order[d]) \cup {Null}
      <4>1. /\ track_cnt[d] = Len(order[d]) /\ IsInjective(order[d])
            /\ tracks[d] = IF order[d] = <<>> THEN Null ELSE order[d][1]
        BY <2>4, <2>9 DEF Strung
      <4>2. ASSUME NEW i \in DOMAIN order[d]
            PROVE  /\ next[order[d][i]] = IF i = Len(order[d]) THEN Null ELSE order[d][i + 1]
                   /\ prev[order[d][i]] = IF i = 1 THEN Null ELSE order[d][i - 1]
                   /\ owner[order[d][i]] = d
                   /\ track[order[d][i]] # Null
        <5>1. i \in 1..Len(order[d])
          BY <2>2
        <5>2. /\ next[order[d][i]] = IF i = Len(order[d]) THEN Null ELSE order[d][i + 1]
              /\ prev[order[d][i]] = IF i = 1 THEN Null ELSE order[d][i - 1]
              /\ owner[order[d][i]] = d
          BY <2>9, <5>1 DEF Strung
        <5>3. track[order[d][i]] # Null
          BY <2>9, <5>1 DEF Peopled
        <5>. QED
          BY <5>2, <5>3
      <4>3. iterator[d] \in Range(order[d]) \cup {Null}
        BY <2>7, <2>9 DEF Peopled
      <4>. QED
        BY <4>1, <4>2, <4>3
    <3>. QED
      BY <2>6, <2>9, <3>1 DEF Chained, Strung, Peopled
  <2>. QED
    BY <2>8, <2>9
<1>. QED
  BY <1>1, <1>2 DEF DiscIInv

\* The last track of a disc.
LEMMA LastShape ==
  ASSUME DiscIInv, NEW d \in Discs
  PROVE  LastOf(d) = IF Len(order[d]) = 0 THEN Null ELSE order[d][Len(order[d])]
<1>1. tracks[d] = IF order[d] = <<>> THEN Null ELSE order[d][1]
  BY Parts DEF Strung
<1>2. order[d] \in Seq(Tracks) /\ (order[d] = <<>> <=> Len(order[d]) = 0)
  BY OrderShape
<1>3. CASE Len(order[d]) = 0
  BY <1>1, <1>2, <1>3 DEF LastOf
<1>4. CASE Len(order[d]) # 0
  <2>1. tracks[d] # Null
    <3>1. 1 \in 1..Len(order[d])
      BY <1>4, OrderShape
    <3>. QED
      BY <1>1, <1>2, <1>4, <3>1, OrderShape
  <2>. QED
    BY <1>4, <2>1, ChainIsOrder DEF LastOf, Last
<1>. QED
  BY <1>3, <1>4

\* What adding tracks does to the pointers.
LEMMA LinksShape ==
  ASSUME DiscIInv, NEW d \in Discs, NEW new \in Seq(Tracks),
         \A i, j \in 1..Len(new) : new[i] = new[j] => i = j,
         \A i \in 1..Len(new) : owner[new[i]] = Null,
         Links(d, new)
  PROVE  /\ order' = [order EXCEPT ![d] = order[d] \o new]
         /\ tracks' = [tracks EXCEPT ![d] = IF @ = Null /\ new # <<>> THEN new[1] ELSE @]
         /\ track_cnt' = [track_cnt EXCEPT ![d] = @ + Len(new)]
         /\ \A i \in 1..Len(new) :
              /\ next'[new[i]] = IF i = Len(new) THEN Null ELSE new[i + 1]
              /\ prev'[new[i]] = IF i = 1 THEN LastOf(d) ELSE new[i - 1]
              /\ owner'[new[i]] = d
         /\ \A t \in Tracks : (\A i \in 1..Len(new) : new[i] # t) =>
              /\ next'[t] = IF t = LastOf(d) /\ new # <<>> THEN new[1] ELSE next[t]
              /\ prev'[t] = prev[t]
              /\ owner'[t] = owner[t]
         /\ next' \in [Tracks -> TrackPointers] /\ prev' \in [Tracks -> TrackPointers]
         /\ owner' \in [Tracks -> Discs \cup {Null}]
<1> DEFINE all == <<LastOf(d)>> \o new
           At(t) == CHOOSE i \in DOMAIN all : all[i] = t
           k == Len(new)
<1>1. k \in Nat /\ DOMAIN new = 1..k /\ \A i \in 1..k : new[i] \in Tracks /\ new[i] # Null
  BY NullAssumption
<1>2. LastOf(d) \in TrackPointers /\ \A i \in 1..k : new[i] # LastOf(d)
  <2>1. CASE Len(order[d]) = 0
    BY <1>1, <2>1, LastShape DEF TrackPointers
  <2>2. CASE Len(order[d]) # 0
    <3>1. Len(order[d]) \in 1..Len(order[d])
      BY <2>2, OrderShape
    <3>2. LastOf(d) \in Tracks /\ owner[LastOf(d)] = d /\ d # Null
      BY <2>2, <3>1, LastShape, OrderShape, Parts, NullAssumption DEF Strung
    <3>. QED
      BY <3>2 DEF TrackPointers
  <2>. QED
    BY <2>1, <2>2
<1>3. /\ all \in Seq(TrackPointers) /\ Len(all) = k + 1 /\ DOMAIN all = 1..(k + 1)
      /\ all[1] = LastOf(d) /\ \A i \in 1..k : all[i + 1] = new[i]
      /\ \A i \in 2..(k + 1) : all[i] = new[i - 1]
  <2>1. LastOf(d) \in TrackPointers /\ new \in Seq(TrackPointers)
    BY <1>2 DEF TrackPointers
  <2> DEFINE x == LastOf(d)
  <2>2. all = <<x>> \o new
    OBVIOUS
  <2> HIDE DEF x, all
  <2>. QED
    BY <2>1, <2>2, Behind DEF x
<1>4. \A i, j \in 1..(k + 1) : all[i] = all[j] => i = j
  <2>1. \A i \in 1..(k + 1) : i = 1 \/ (i \in 2..(k + 1) /\ i - 1 \in 1..k)
    BY <1>1
  <2> HIDE DEF all, k
  <2>2. ASSUME NEW i \in 1..(k + 1), NEW j \in 1..(k + 1), all[i] = all[j] PROVE i = j
    <3>1. CASE i = 1 \/ j = 1
      BY <1>2, <1>3, <2>1, <2>2, <3>1
    <3>2. CASE i # 1 /\ j # 1
      <4>1. new[i - 1] = new[j - 1] /\ i - 1 \in 1..k /\ j - 1 \in 1..k
        BY <1>3, <2>1, <2>2, <3>2
      <4>2. i - 1 = j - 1
        BY <4>1 DEF k
      <4>. QED
        BY <1>1, <4>2
    <3>. QED
      BY <3>1, <3>2
  <2>. QED
    BY <2>2
<1>5. \A i \in 1..(k + 1) : At(all[i]) = i
  <2> HIDE DEF all, k
  <2>. QED
    BY <1>3, <1>4
<1>6. /\ Range(Front(all)) = {all[i] : i \in 1..k}
      /\ Range(new) = {new[i] : i \in 1..k}
  <2>1. DOMAIN Front(all) = 1..k /\ \A i \in 1..k : Front(all)[i] = all[i]
    <3> HIDE DEF all, k
    <3>. QED
      BY <1>1, <1>3 DEF Front
  <2>2. Range(Front(all)) = {Front(all)[i] : i \in 1..k}
    <3> DEFINE f == Front(all)
    <3>1. DOMAIN f = 1..k
      BY <2>1
    <3> HIDE DEF all, f, k
    <3>2. Range(f) = {f[i] : i \in 1..k}
      BY <3>1 DEF Range
    <3>. QED
      BY <3>2 DEF f
  <2>3. Range(new) = {new[i] : i \in 1..k}
    BY <1>1, RangeIs
  <2> HIDE DEF all, k
  <2>. QED
    BY <2>1, <2>2, <2>3
<1> HIDE DEF all, k, At
<1>7. /\ order' = [order EXCEPT ![d] = order[d] \o new]
      /\ tracks' = [tracks EXCEPT ![d] = IF @ = Null /\ new # <<>> THEN new[1] ELSE @]
      /\ track_cnt' = [track_cnt EXCEPT ![d] = @ + Len(new)]
      /\ next' = [t \in Tracks |-> IF t \in Range(Front(all)) THEN all[At(t) + 1] ELSE next[t]]
      /\ prev' = [t \in Tracks |-> IF t \in Range(new) THEN all[At(t) - 1] ELSE prev[t]]
      /\ owner' = [t \in Tracks |-> IF t \in Range(new) THEN d ELSE owner[t]]
  BY DEF Links, all, At
<1>8. ASSUME NEW i \in 1..k
      PROVE  /\ next'[new[i]] = IF i = k THEN Null ELSE new[i + 1]
             /\ prev'[new[i]] = IF i = 1 THEN LastOf(d) ELSE new[i - 1]
             /\ owner'[new[i]] = d
  <2>0. i \in Nat /\ i + 1 \in 1..(k + 1) /\ i \in 1..(k + 1) /\ (i # 1 => i \in 2..(k + 1))
    BY <1>1
  <2>1. new[i] \in Range(new) /\ new[i] \in Tracks /\ new[i] = all[i + 1] /\ At(new[i]) = i + 1
    BY <1>1, <1>3, <1>5, <1>6, <2>0
  <2>2. prev'[new[i]] = all[i] /\ owner'[new[i]] = d
    BY <1>7, <2>0, <2>1
  <2>3. CASE i = k
    <3>1. new[i] \notin Range(Front(all))
      <4>1. ASSUME NEW j \in 1..k, all[j] = all[i + 1] PROVE FALSE
        BY <1>1, <1>4, <2>0, <2>3, <4>1
      <4>. QED
        BY <1>6, <2>1, <4>1
    <3>2. next[new[i]] = Null
      BY <2>1 DEF DiscIInv, Unlinked, k
    <3>. QED
      BY <1>3, <1>7, <2>0, <2>1, <2>2, <2>3, <3>1, <3>2
  <2>4. CASE i # k
    <3>1. i + 1 \in 1..k /\ i + 1 + 1 = i + 2
      BY <1>1, <2>0, <2>4
    <3>2. new[i] \in Range(Front(all)) /\ all[i + 2] = new[i + 1]
      BY <1>3, <1>6, <2>1, <3>1
    <3>. QED
      BY <1>3, <1>7, <2>0, <2>1, <2>2, <2>4, <3>1, <3>2
  <2>. QED
    BY <2>3, <2>4
<1>9. ASSUME NEW t \in Tracks, \A i \in 1..k : new[i] # t
      PROVE  /\ next'[t] = IF t = LastOf(d) /\ new # <<>> THEN new[1] ELSE next[t]
             /\ prev'[t] = prev[t] /\ owner'[t] = owner[t]
  <2>1. t \notin Range(new)
    BY <1>6, <1>9
  <2>2. new # <<>> <=> 1 \in 1..k
    BY <1>1 DEF k
  <2>3. t \in Range(Front(all)) <=> t = LastOf(d) /\ new # <<>>
    <3>1. \A i \in 1..k : i = 1 \/ (i \in 2..(k + 1) /\ i - 1 \in 1..k)
      BY <1>1
    <3>. QED
      BY <1>3, <1>6, <1>9, <2>2, <3>1
  <2>4. t = LastOf(d) /\ new # <<>> => all[At(t) + 1] = new[1]
    <3>1. t = LastOf(d) => At(t) = 1
      BY <1>1, <1>3, <1>5
    <3>. QED
      BY <1>3, <2>2, <3>1
  <2>. QED
    BY <1>7, <2>1, <2>3, <2>4
<1>10. /\ next' \in [Tracks -> TrackPointers] /\ prev' \in [Tracks -> TrackPointers]
       /\ owner' \in [Tracks -> Discs \cup {Null}]
  <2>1. \A t \in Tracks : next'[t] \in TrackPointers /\ prev'[t] \in TrackPointers
                          /\ owner'[t] \in Discs \cup {Null}
    <3>1. ASSUME NEW t \in Tracks, \A i \in 1..k : new[i] # t
          PROVE  /\ next'[t] \in TrackPointers /\ prev'[t] \in TrackPointers
                 /\ owner'[t] \in Discs \cup {Null}
      <4>1. new # <<>> => new[1] \in Tracks
        BY <1>1 DEF k
      <4>. QED
        BY <1>9, <3>1, <4>1, Parts DEF LinkTypes, TrackPointers
    <3>2. ASSUME NEW i \in 1..k
          PROVE  /\ next'[new[i]] \in TrackPointers /\ prev'[new[i]] \in TrackPointers
                 /\ owner'[new[i]] \in Discs \cup {Null}
      <4>1. (i # k => i + 1 \in 1..k) /\ (i # 1 => i - 1 \in 1..k)
        BY <1>1
      <4>. QED
        BY <1>1, <1>2, <1>8, <4>1 DEF TrackPointers
    <3>. QED
      BY <3>1, <3>2
  <2>. QED
    BY <1>7, <2>1
<1>. QED
  BY <1>7, <1>8, <1>9, <1>10 DEF k

\* Adding tracks that are on no disc keeps the lists.
LEMMA LinksKeepLists ==
  ASSUME DiscIInv, NEW d \in Discs, NEW new \in Seq(Tracks),
         \A i, j \in 1..Len(new) : new[i] = new[j] => i = j,
         \A i \in 1..Len(new) : owner[new[i]] = Null,
         Links(d, new)
  PROVE  /\ LinkTypes' /\ Strung' /\ Unlinked'
         /\ order'[d] = order[d] \o new
         /\ \A e \in Discs \ {d} : order'[e] = order[e]
         /\ \A t \in Tracks : owner'[t] # Null =>
              owner'[t] = owner[t] \/ (owner'[t] = d /\ \E i \in 1..Len(new) : new[i] = t)
<1> DEFINE m == Len(order[d])
           k == Len(new)
           o == order[d] \o new
           Old(t) == \A i \in 1..k : new[i] # t
<1>1. /\ order' = [order EXCEPT ![d] = o]
      /\ tracks' = [tracks EXCEPT ![d] = IF @ = Null /\ new # <<>> THEN new[1] ELSE @]
      /\ track_cnt' = [track_cnt EXCEPT ![d] = @ + k]
      /\ \A i \in 1..k :
           /\ next'[new[i]] = IF i = k THEN Null ELSE new[i + 1]
           /\ prev'[new[i]] = IF i = 1 THEN LastOf(d) ELSE new[i - 1]
           /\ owner'[new[i]] = d
      /\ \A t \in Tracks : Old(t) =>
           /\ next'[t] = IF t = LastOf(d) /\ new # <<>> THEN new[1] ELSE next[t]
           /\ prev'[t] = prev[t]
           /\ owner'[t] = owner[t]
      /\ next' \in [Tracks -> TrackPointers] /\ prev' \in [Tracks -> TrackPointers]
      /\ owner' \in [Tracks -> Discs \cup {Null}]
  BY LinksShape
<1>2. /\ m \in Nat /\ k \in Nat /\ (new = <<>> <=> k = 0) /\ (order[d] = <<>> <=> m = 0)
      /\ \A i \in 1..k : new[i] \in Tracks /\ new[i] # Null
      /\ \A i \in 1..m : order[d][i] \in Tracks /\ order[d][i] # Null
  BY OrderShape, NullAssumption
<1>3. /\ o \in Seq(Tracks) /\ Len(o) = m + k
      /\ \A i \in 1..m : o[i] = order[d][i]
      /\ \A i \in 1..k : o[m + i] = new[i]
  BY OrderShape
<1>4. \A e \in Discs : \A i \in 1..Len(order[e]) :
        order[e][i] \in Tracks /\ owner[order[e][i]] = e /\ e # Null /\ Old(order[e][i])
  BY OrderShape, NullAssumption, Parts DEF Strung
<1>5. LastOf(d) = IF m = 0 THEN Null ELSE order[d][m]
  BY LastShape
<1>6. /\ order'[d] = o /\ \A e \in Discs \ {d} : order'[e] = order[e]
      /\ track_cnt'[d] = m + k /\ \A e \in Discs \ {d} : track_cnt'[e] = track_cnt[e]
      /\ tracks'[d] = IF m = 0 /\ k # 0 THEN new[1] ELSE tracks[d]
      /\ \A e \in Discs \ {d} : tracks'[e] = tracks[e]
  <2>0. tracks[d] = Null <=> m = 0
    <3>1. m # 0 => 1 \in 1..m
      BY <1>2
    <3>. QED
      BY <1>2, <3>1, Parts DEF Strung
  <2>1. order \in [Discs -> Seq(Tracks)] /\ tracks \in [Discs -> TrackPointers]
        /\ track_cnt \in [Discs -> Nat] /\ track_cnt[d] = m
    BY Parts DEF LinkTypes, Strung
  <2>2. order'[d] = o /\ \A e \in Discs \ {d} : order'[e] = order[e]
    <3> HIDE DEF o
    <3>. QED
      BY <1>1, <2>1
  <2>3. track_cnt'[d] = m + k /\ \A e \in Discs \ {d} : track_cnt'[e] = track_cnt[e]
    <3> HIDE DEF m, k
    <3>. QED
      BY <1>1, <2>1
  <2>4. /\ tracks'[d] = IF m = 0 /\ k # 0 THEN new[1] ELSE tracks[d]
        /\ \A e \in Discs \ {d} : tracks'[e] = tracks[e]
    <3> HIDE DEF m, k
    <3>. QED
      BY <1>1, <1>2, <2>0, <2>1
  <2>. QED
    BY <2>2, <2>3, <2>4
<1>7. \A t \in Tracks : Old(t) \/ \E i \in 1..k : new[i] = t
  OBVIOUS
<1> HIDE DEF m, k, o, Old
<1>8. ASSUME NEW e \in Discs \ {d}
      PROVE  /\ track_cnt'[e] = Len(order'[e])
             /\ \A i, j \in 1..Len(order'[e]) : order'[e][i] = order'[e][j] => i = j
             /\ tracks'[e] = IF order'[e] = <<>> THEN Null ELSE order'[e][1]
             /\ \A i \in 1..Len(order'[e]) :
                  /\ next'[order'[e][i]] = IF i = Len(order'[e]) THEN Null ELSE order'[e][i + 1]
                  /\ prev'[order'[e][i]] = IF i = 1 THEN Null ELSE order'[e][i - 1]
                  /\ owner'[order'[e][i]] = e
  <2>1. ASSUME NEW i \in 1..Len(order[e])
        PROVE  /\ next'[order[e][i]] = next[order[e][i]]
               /\ prev'[order[e][i]] = prev[order[e][i]]
               /\ owner'[order[e][i]] = e
    <3>1. order[e][i] # LastOf(d)
      <4>1. m # 0 => m \in 1..m
        BY <1>2
      <4>. QED
        BY <1>2, <1>4, <1>5, <4>1, NullAssumption DEF m
    <3>. QED
      BY <1>1, <1>4, <3>1
  <2>2. /\ order'[e] = order[e] /\ tracks'[e] = tracks[e] /\ track_cnt'[e] = track_cnt[e]
        /\ e \in Discs
    BY <1>6
  <2>3. /\ track_cnt[e] = Len(order[e])
        /\ \A i, j \in 1..Len(order[e]) : order[e][i] = order[e][j] => i = j
        /\ tracks[e] = IF order[e] = <<>> THEN Null ELSE order[e][1]
        /\ \A i \in 1..Len(order[e]) :
             /\ next[order[e][i]] = IF i = Len(order[e]) THEN Null ELSE order[e][i + 1]
             /\ prev[order[e][i]] = IF i = 1 THEN Null ELSE order[e][i - 1]
    BY <2>2, Parts DEF Strung
  <2>. QED
    BY <2>1, <2>2, <2>3
<1>9. \A i, j \in 1..Len(o) : o[i] = o[j] => i = j
  <2>1. \A i \in 1..(m + k) : i \in 1..m \/ (i - m \in 1..k /\ i = m + (i - m))
    BY <1>2
  <2>2. \A i \in 1..m : Old(order[d][i])
    BY <1>4 DEF m
  <2>3. \A i, j \in 1..m : order[d][i] = order[d][j] => i = j
    BY OrderShape DEF m
  <2>4. ASSUME NEW i \in 1..(m + k), NEW j \in 1..(m + k), o[i] = o[j] PROVE i = j
    <3>1. CASE i \in 1..m /\ j \in 1..m
      BY <1>3, <2>3, <2>4, <3>1
    <3>2. CASE i - m \in 1..k /\ j - m \in 1..k
      <4>1. new[i - m] = new[j - m]
        BY <1>2, <1>3, <2>4, <3>2
      <4>2. i - m = j - m
        BY <3>2, <4>1 DEF k
      <4>. QED
        BY <1>2, <4>2
    <3>3. CASE i \in 1..m /\ j - m \in 1..k
      <4>1. o[j] = new[j - m] /\ o[i] = order[d][i]
        BY <1>2, <1>3, <3>3
      <4>. QED
        BY <2>2, <2>4, <3>3, <4>1 DEF Old
    <3>4. CASE i - m \in 1..k /\ j \in 1..m
      <4>1. o[i] = new[i - m] /\ o[j] = order[d][j]
        BY <1>2, <1>3, <3>4
      <4>. QED
        BY <2>2, <2>4, <3>4, <4>1 DEF Old
    <3>. QED
      BY <2>1, <3>1, <3>2, <3>3, <3>4
  <2>. QED
    BY <1>3, <2>4
<1>10. ASSUME NEW i \in 1..m
       PROVE  /\ next'[o[i]] = IF i = m + k THEN Null ELSE o[i + 1]
              /\ prev'[o[i]] = IF i = 1 THEN Null ELSE o[i - 1]
              /\ owner'[o[i]] = d
  <2>1. o[i] = order[d][i] /\ o[i] \in Tracks /\ Old(o[i]) /\ owner[o[i]] = d
    BY <1>2, <1>3, <1>4 DEF m
  <2>2. /\ next[o[i]] = IF i = m THEN Null ELSE order[d][i + 1]
        /\ prev[o[i]] = IF i = 1 THEN Null ELSE order[d][i - 1]
    BY <2>1, Parts DEF Strung, m
  <2>3. i # 1 => order[d][i - 1] = o[i - 1]
    <3>1. i # 1 => i - 1 \in 1..m
      BY <1>2
    <3>. QED
      BY <1>3, <3>1
  <2>4. CASE i = m
    <3>1. o[i] = LastOf(d)
      BY <1>2, <1>5, <2>1, <2>4
    <3>2. k # 0 => 1 \in 1..k /\ i # m + k /\ new # <<>> /\ o[i + 1] = new[1]
      BY <1>2, <1>3, <2>4
    <3>3. k = 0 => new = <<>> /\ i = m + k
      BY <1>2, <2>4
    <3>. QED
      BY <1>1, <2>1, <2>2, <2>3, <2>4, <3>1, <3>2, <3>3
  <2>5. CASE i # m
    <3>1. i + 1 \in 1..m /\ i # m + k /\ m \in 1..m /\ m # 0
      BY <1>2, <2>5
    <3>2. o[i] # LastOf(d)
      BY <1>5, <2>1, <2>5, <3>1, OrderShape DEF m
    <3>3. order[d][i + 1] = o[i + 1]
      BY <1>3, <3>1
    <3>. QED
      BY <1>1, <2>1, <2>2, <2>3, <2>5, <3>1, <3>2, <3>3
  <2>. QED
    BY <2>4, <2>5
<1>11. ASSUME NEW i \in 1..k
       PROVE  /\ next'[o[m + i]] = IF m + i = m + k THEN Null ELSE o[m + i + 1]
              /\ prev'[o[m + i]] = IF m + i = 1 THEN Null ELSE o[m + i - 1]
              /\ owner'[o[m + i]] = d
  <2>1. o[m + i] = new[i]
    BY <1>3
  <2>2. i # k => i + 1 \in 1..k /\ m + (i + 1) = m + i + 1 /\ m + i # m + k
    BY <1>2
  <2>3. i # 1 => i - 1 \in 1..k /\ m + (i - 1) = m + i - 1 /\ m + i # 1
    BY <1>2
  <2>4. i = 1 => IF m = 0 THEN m + i = 1 ELSE m \in 1..m /\ m + i - 1 = m /\ m + i # 1
    BY <1>2
  <2>5. i # k => o[m + i + 1] = new[i + 1]
    BY <1>3, <2>2
  <2>6. i # 1 => o[m + i - 1] = new[i - 1]
    BY <1>3, <2>3
  <2>7. i = 1 /\ m # 0 => o[m + i - 1] = order[d][m]
    BY <1>3, <2>4
  <2>. QED
    BY <1>1, <1>5, <2>1, <2>2, <2>3, <2>4, <2>5, <2>6, <2>7
<1>12. /\ track_cnt'[d] = Len(order'[d])
       /\ \A i, j \in 1..Len(order'[d]) : order'[d][i] = order'[d][j] => i = j
       /\ tracks'[d] = IF order'[d] = <<>> THEN Null ELSE order'[d][1]
       /\ \A i \in 1..Len(order'[d]) :
            /\ next'[order'[d][i]] = IF i = Len(order'[d]) THEN Null ELSE order'[d][i + 1]
            /\ prev'[order'[d][i]] = IF i = 1 THEN Null ELSE order'[d][i - 1]
            /\ owner'[order'[d][i]] = d
  <2>1. \A i \in 1..(m + k) : i \in 1..m \/ \E j \in 1..k : i = m + j
    <3>1. \A i \in 1..(m + k) : i \in 1..m \/ (i - m \in 1..k /\ i = m + (i - m))
      BY <1>2
    <3>. QED
      BY <3>1
  <2>2. \A i \in 1..(m + k) :
          /\ next'[o[i]] = IF i = m + k THEN Null ELSE o[i + 1]
          /\ prev'[o[i]] = IF i = 1 THEN Null ELSE o[i - 1]
          /\ owner'[o[i]] = d
    <3>1. ASSUME NEW i \in 1..(m + k)
          PROVE  /\ next'[o[i]] = IF i = m + k THEN Null ELSE o[i + 1]
                 /\ prev'[o[i]] = IF i = 1 THEN Null ELSE o[i - 1]
                 /\ owner'[o[i]] = d
      <4>1. CASE i \in 1..m
        BY <1>10, <4>1
      <4>2. CASE \E j \in 1..k : i = m + j
        <5>1. PICK j \in 1..k : i = m + j
          BY <4>2
        <5>2. /\ next'[o[m + j]] = IF m + j = m + k THEN Null ELSE o[m + j + 1]
              /\ prev'[o[m + j]] = IF m + j = 1 THEN Null ELSE o[m + j - 1]
              /\ owner'[o[m + j]] = d
          BY <1>11
        <5>3. o[i] = o[m + j] /\ o[i + 1] = o[m + j + 1] /\ o[i - 1] = o[m + j - 1]
              /\ (i = 1 <=> m + j = 1) /\ (i = m + k <=> m + j = m + k)
          BY <1>2, <5>1, SMT
        <5>. QED
          BY <5>1, <5>2, <5>3, Zenon
      <4>. QED
        BY <2>1, <4>1, <4>2
    <3>. QED
      BY <3>1
  <2>3. tracks'[d] = IF o = <<>> THEN Null ELSE o[1]
    <3>1. o = <<>> <=> m + k = 0
      BY <1>3
    <3>2. CASE m = 0
      <4>1. k # 0 => o[m + 1] = new[1] /\ m + 1 = 1
        BY <1>2, <1>3, <3>2
      <4>2. tracks[d] = Null
        BY <1>2, <3>2, Parts DEF Strung
      <4>. QED
        BY <1>2, <1>6, <3>1, <3>2, <4>1, <4>2
    <3>3. CASE m # 0
      <4>1. o[1] = order[d][1] /\ m + k # 0
        BY <1>2, <1>3, <3>3
      <4>2. tracks[d] = order[d][1]
        BY <1>2, <3>3, Parts DEF Strung
      <4>. QED
        BY <1>6, <3>1, <3>3, <4>1, <4>2
    <3>. QED
      BY <3>2, <3>3
  <2>. QED
    BY <1>3, <1>6, <1>9, <2>2, <2>3
<1>13. \A t \in Tracks : owner'[t] # Null =>
         owner'[t] = owner[t] \/ (owner'[t] = d /\ \E i \in 1..k : new[i] = t)
  BY <1>1, <1>7
<1>14. \A t \in Tracks : owner'[t] # Null =>
         \E i \in 1..Len(order'[owner'[t]]) : order'[owner'[t]][i] = t
  <2>1. \A t \in Tracks : owner[t] # Null =>
          owner[t] \in Discs /\ \E i \in 1..Len(order[owner[t]]) : order[owner[t]][i] = t
    BY Parts DEF Strung, LinkTypes
  <2>2. \A i \in 1..m : i \in 1..Len(o)
    BY <1>2, <1>3
  <2>3. \A i \in 1..k : m + i \in 1..Len(o)
    BY <1>2, <1>3
  <2>4. ASSUME NEW t \in Tracks, owner'[t] # Null
        PROVE  \E i \in 1..Len(order'[owner'[t]]) : order'[owner'[t]][i] = t
    <3>1. CASE owner'[t] = owner[t] /\ owner[t] # d
      BY <1>6, <2>1, <2>4, <3>1
    <3>2. CASE owner'[t] = owner[t] /\ owner[t] = d
      <4>1. PICK i \in 1..m : order[d][i] = t
        BY <2>1, <2>4, <3>2 DEF m
      <4>. QED
        BY <1>3, <1>6, <2>2, <3>2, <4>1
    <3>3. CASE owner'[t] = d /\ \E i \in 1..k : new[i] = t
      <4>1. PICK i \in 1..k : new[i] = t
        BY <3>3
      <4>. QED
        BY <1>3, <1>6, <2>3, <3>3, <4>1
    <3>. QED
      BY <1>13, <2>4, <3>1, <3>2, <3>3
  <2>. QED
    BY <2>4
<1>15. Strung'
  BY <1>8, <1>12, <1>14 DEF Strung
<1>16. Unlinked'
  <2>1. ASSUME NEW t \in Tracks, owner'[t] = Null PROVE next'[t] = Null /\ prev'[t] = Null
    <3>1. Old(t)
      BY <1>1, <1>7, <2>1, NullAssumption
    <3>2. owner[t] = Null /\ t # LastOf(d)
      <4>1. m # 0 => owner[order[d][m]] = d /\ d # Null
        <5>1. m # 0 => m \in 1..m
          BY <1>2
        <5>. QED
          BY <1>4, <5>1 DEF m
      <4>. QED
        BY <1>1, <1>5, <2>1, <3>1, <4>1, NullAssumption
    <3>. QED
      BY <1>1, <3>1, <3>2 DEF DiscIInv, Unlinked
  <2>. QED
    BY <2>1 DEF Unlinked
<1>17. LinkTypes'
  <2>1. order' \in [Discs -> Seq(Tracks)] /\ track_cnt' \in [Discs -> Nat]
    BY <1>1, <1>2, <1>3, Parts DEF LinkTypes
  <2>2. tracks' \in [Discs -> TrackPointers]
    <3>1. new # <<>> => new[1] \in TrackPointers
      BY <1>2 DEF TrackPointers
    <3>. QED
      BY <1>1, <3>1, Parts DEF LinkTypes
  <2>. QED
    BY <1>1, <2>1, <2>2 DEF LinkTypes
<1>. QED
  BY <1>6, <1>13, <1>15, <1>16, <1>17 DEF o, k

----------------------------------------------------------------------------
(* The data.                                                               *)

\* A new disc and a new track hold data.
LEMMA NewTypes ==
  /\ NewDisc \in DiscData /\ NewTrack \in TrackData /\ Width \in Nat
  /\ NewTrack.num = -1 /\ DiscIds = SUBSET (0..(Width - 1))
<1>1. {} \in DiscIds /\ "invalid" \in Categories
  BY DEF DiscIds, Categories
<1>2. Width \in Nat
  BY ByteBitsAssumption DEF Width
<1>. QED
  BY <1>1, <1>2 DEF NewDisc, NewTrack, DiscData, TrackData, Texts, DiscIds

\* What the application sets a field to is data of that field.
LEMMA ValueTypes ==
  /\ DOMAIN DiscValues =
       {"discid", "category", "year", "length", "revision", "genre", "title", "artist", "ext_data"}
  /\ DiscValues.discid \subseteq DiscIds /\ DiscValues.category \subseteq Categories
  /\ DiscValues.year \subseteq Nat /\ DiscValues.length \subseteq Nat
  /\ DiscValues.revision \subseteq Nat
  /\ DiscValues.genre \subseteq Seq(STRING) \ {<<>>} /\ DiscValues.title \subseteq Texts
  /\ DiscValues.artist \subseteq Texts /\ DiscValues.ext_data \subseteq Texts
  /\ TrackValues.frame_offset \subseteq Nat \cup {-1} /\ TrackValues.length \subseteq Int
  /\ TrackValues.title \subseteq Texts /\ TrackValues.artist \subseteq Texts
  /\ TrackValues.ext_data \subseteq Texts
<1>1. DiscValues \in
        [ discid : SUBSET DiscIds, category : SUBSET Categories, year : SUBSET Nat,
          length : SUBSET Nat, revision : SUBSET Nat, genre : SUBSET (Seq(STRING) \ {<<>>}),
          title : SUBSET Texts, artist : SUBSET Texts, ext_data : SUBSET Texts ]
  BY ValuesAssumption
<1>2. TrackValues \in
        [ frame_offset : SUBSET (Nat \cup {-1}), length : SUBSET Int,
          title : SUBSET Texts, artist : SUBSET Texts, ext_data : SUBSET Texts ]
  BY ValuesAssumption
<1>. QED
  BY <1>1, <1>2

\* Setting a field of a disc leaves data.
LEMMA DiscSetType ==
  ASSUME NEW r \in DiscData, NEW f \in DOMAIN DiscValues, NEW x \in DiscValues[f]
  PROVE  [r EXCEPT ![f] = x] \in DiscData
<1>1. CASE f \in {"discid", "category", "year", "length", "revision"}
  BY <1>1, ValueTypes DEF DiscData
<1>2. CASE f = "genre"
  BY <1>2, ValueTypes DEF DiscData, Texts
<1>3. CASE f \in {"title", "artist", "ext_data"}
  BY <1>3, ValueTypes DEF DiscData
<1>. QED
  BY <1>1, <1>2, <1>3, ValueTypes

\* Setting a text of a disc or of a track leaves data.
LEMMA TextSetType ==
  ASSUME NEW x \in Texts
  PROVE  /\ \A r \in DiscData : \A f \in DiscTexts : [r EXCEPT ![f] = x] \in DiscData
         /\ \A r \in TrackData : \A f \in TrackTexts :
              [r EXCEPT ![f] = x] \in TrackData /\ [r EXCEPT ![f] = x].num = r.num
<1>1. ASSUME NEW r \in DiscData, NEW f \in DiscTexts PROVE [r EXCEPT ![f] = x] \in DiscData
  BY DEF DiscData, DiscTexts
<1>2. ASSUME NEW r \in TrackData, NEW f \in TrackTexts
      PROVE  [r EXCEPT ![f] = x] \in TrackData /\ [r EXCEPT ![f] = x].num = r.num
  BY DEF TrackData, TrackTexts
<1>. QED
  BY <1>1, <1>2

\* A text with another one behind it is a text.
LEMMA ExtendedType ==
  ASSUME NEW x \in Texts, NEW y \in Texts, y # Null
  PROVE  Extended(x, y) \in Texts
  BY DEF Extended, Texts

\* What is merged is data.
LEMMA MergedTypes ==
  /\ \A x, y \in DiscData : Merged(x, y, NewDisc) \in DiscData
  /\ \A x, y \in TrackData :
       /\ Merged(x, y, NewTrack) \in TrackData
       /\ Merged(x, y, NewTrack).num \in {x.num, y.num}
<1>1. ASSUME NEW x \in DiscData, NEW y \in DiscData PROVE Merged(x, y, NewDisc) \in DiscData
  <2>1. Merged(x, y, NewDisc) =
          [ discid   |-> IF y.discid = {} THEN x.discid ELSE y.discid,
            category |-> IF y.category = "invalid" THEN x.category ELSE y.category,
            year     |-> IF y.year = 0 THEN x.year ELSE y.year,
            length   |-> IF y.length = 0 THEN x.length ELSE y.length,
            revision |-> IF y.revision = 0 THEN x.revision ELSE y.revision,
            genre    |-> IF y.genre = Null THEN x.genre ELSE y.genre,
            title    |-> IF y.title = Null THEN x.title ELSE y.title,
            artist   |-> IF y.artist = Null THEN x.artist ELSE y.artist,
            ext_data |-> IF y.ext_data = Null THEN x.ext_data ELSE y.ext_data ]
    BY DEF Merged, NewDisc, DiscData
  <2>. QED
    BY <2>1 DEF DiscData
<1>2. ASSUME NEW x \in TrackData, NEW y \in TrackData
      PROVE  /\ Merged(x, y, NewTrack) \in TrackData
             /\ Merged(x, y, NewTrack).num \in {x.num, y.num}
  <2>1. Merged(x, y, NewTrack) =
          [ num          |-> IF y.num = -1 THEN x.num ELSE y.num,
            frame_offset |-> IF y.frame_offset = -1 THEN x.frame_offset ELSE y.frame_offset,
            length       |-> IF y.length = -1 THEN x.length ELSE y.length,
            title        |-> IF y.title = Null THEN x.title ELSE y.title,
            artist       |-> IF y.artist = Null THEN x.artist ELSE y.artist,
            ext_data     |-> IF y.ext_data = Null THEN x.ext_data ELSE y.ext_data ]
    BY DEF Merged, NewTrack, TrackData
  <2>. QED
    BY <2>1 DEF TrackData
<1>. QED
  BY <1>1, <1>2

\* The seconds of a number of frames.
LEMMA SecondsType ==
  ASSUME NEW n \in Int, n >= -1
  PROVE  /\ Seconds(n) \in Nat
         /\ Seconds(n) * 75 <= n + 1 /\ n < (Seconds(n) + 1) * 75
         /\ n >= 0 => Seconds(n) = n \div 75
  BY DEF Seconds, FramesPerSecond

----------------------------------------------------------------------------
(* What a call may take for granted.                                       *)

\* The neighbours and the disc of a track exist.
LEMMA Neighbours ==
  ASSUME DiscIInv, NEW t \in Tracks
  PROVE  /\ next[t] # Null => next[t] \in Tracks /\ track[next[t]] \in TrackData
         /\ prev[t] # Null => prev[t] \in Tracks /\ track[prev[t]] \in TrackData
         /\ owner[t] # Null => /\ owner[t] \in Discs /\ disc[owner[t]] \in DiscData
                               /\ track[t] \in TrackData
<1>1. owner[t] = Null => next[t] = Null /\ prev[t] = Null
  BY DEF DiscIInv, Unlinked
<1>2. CASE owner[t] # Null
  <2> DEFINE d == owner[t]
  <2>1. d \in Discs /\ disc[d] # Null
    BY <1>2, Parts DEF LinkTypes, Peopled
  <2>2. PICK i \in 1..Len(order[d]) : order[d][i] = t
    BY <1>2, Parts DEF Strung
  <2>3. /\ next[t] = IF i = Len(order[d]) THEN Null ELSE order[d][i + 1]
        /\ prev[t] = IF i = 1 THEN Null ELSE order[d][i - 1]
    <3> HIDE DEF d
    <3>1. /\ next[order[d][i]] = IF i = Len(order[d]) THEN Null ELSE order[d][i + 1]
          /\ prev[order[d][i]] = IF i = 1 THEN Null ELSE order[d][i - 1]
      BY <2>1, Parts DEF Strung
    <3>. QED
      BY <2>2, <3>1 DEF d
  <2>4. /\ i # Len(order[d]) => i + 1 \in 1..Len(order[d])
        /\ i # 1 => i - 1 \in 1..Len(order[d])
    BY <2>1, <2>2, OrderShape
  <2>5. \A j \in 1..Len(order[d]) : order[d][j] \in Tracks /\ track[order[d][j]] # Null
    BY <2>1, OrderShape, Parts DEF Peopled
  <2> HIDE DEF d
  <2>6. /\ disc[d] \in DiscData
        /\ \A u \in Tracks : track[u] # Null => track[u] \in TrackData
    BY <2>1, Parts DEF DataTypes
  <2>. QED
    BY <2>1, <2>2, <2>3, <2>4, <2>5, <2>6 DEF d
<1>. QED
  BY <1>1, <1>2

\* A length that is computed and an offset that is computed are numbers or not set.
LEMMA ComputedTypes ==
  ASSUME DiscIInv, NEW t \in Tracks, track[t] # Null
  PROVE  /\ LengthFromOffsets(t) \in Nat \cup {-1}
         /\ \A length \in Int : OffsetFromLengths(t, length) \in Nat \cup {-1}
<1>0. track[t] \in TrackData
  BY Parts DEF DataTypes
<1>1. LengthFromOffsets(t) \in Nat \cup {-1}
  <2> DEFINE start == track[t].frame_offset
             end   == track[next[t]].frame_offset
             total == disc[owner[t]].length
  <2>1. start \in Int /\ start >= -1 /\ Seconds(start) \in Nat
    <3>1. start \in Int /\ start >= -1
      BY <1>0 DEF TrackData
    <3> HIDE DEF start
    <3>. QED
      BY <3>1, SecondsType
  <2>2. next[t] # Null => end \in Int
    BY Neighbours DEF TrackData
  <2>3. owner[t] # Null => total \in Nat
    BY Neighbours DEF DiscData
  <2>4. LengthFromOffsets(t) =
          IF next[t] # Null THEN IF end > start THEN Seconds(end - start) ELSE -1
          ELSE IF owner[t] # Null /\ total > Seconds(start) THEN total - Seconds(start) ELSE -1
    BY DEF LengthFromOffsets
  <2> HIDE DEF start, end, total
  <2>5. next[t] # Null /\ end > start => Seconds(end - start) \in Nat
    <3>1. next[t] # Null /\ end > start => end - start \in Int /\ end - start >= -1
      BY <2>1, <2>2
    <3>. QED
      BY <3>1, SecondsType
  <2>6. owner[t] # Null /\ total > Seconds(start) => total - Seconds(start) \in Nat
    BY <2>1, <2>3
  <2>. QED
    BY <2>4, <2>5, <2>6
<1>2. ASSUME NEW length \in Int PROVE OffsetFromLengths(t, length) \in Nat \cup {-1}
  <2>1. prev[t] # Null => /\ track[prev[t]].frame_offset \in Nat \cup {-1}
                          /\ track[prev[t]].length \in Nat \cup {-1}
    BY Neighbours DEF TrackData
  <2>. QED
    BY <2>1 DEF OffsetFromLengths, FramesPerSecond
<1>. QED
  BY <1>1, <1>2

\* Ageing keeps the types of the history.
LEMMA AgedType ==
  ASSUME DiscIInv, NEW changed
  PROVE  Aged(changed) \in [Tracks -> {"unset", "given", "computed", "old"}]
  BY Parts DEF DataTypes, Aged

\* A call within the bound.
LEMMA CallType ==
  ASSUME DiscIInv, Call
  PROVE  calls' \in 0..MaxCalls
  BY BoundAssumption, Parts DEF DataTypes, Call

\* A step that leaves the pointers, the structures that exist and the iterators keeps the
\* lists.
LEMMA KeepsLists ==
  ASSUME DiscIInv, UNCHANGED links, DataTypes',
         \A e \in Discs : disc[e] # Null => disc'[e] # Null,
         \A t \in Tracks : owner[t] # Null /\ track[t] # Null => track'[t] # Null,
         \A e \in Discs : iterator'[e] # iterator[e] =>
           iterator'[e] = Null \/ \E i \in 1..Len(order[e]) : order[e][i] = iterator'[e]
  PROVE  DiscIInv'
<1>1. LinkTypes'
  BY Parts DEF LinkTypes, links
<1>2. Strung'
  BY Parts DEF Strung, links
<1>3. Unlinked'
  BY DEF DiscIInv, Unlinked, links
<1>4. Peopled'
  <2>1. \A d \in Discs : \A i \in 1..Len(order[d]) :
          order[d][i] \in Tracks /\ owner[order[d][i]] = d /\ d # Null /\ track[order[d][i]] # Null
    BY OrderShape, NullAssumption, Parts DEF Strung, Peopled
  <2>2. order' = order /\ owner' = owner
    BY DEF links
  <2>3. \A d \in Discs : \A i \in 1..Len(order[d]) : track'[order[d][i]] # Null
    BY <2>1
  <2>4. \A d \in Discs : iterator'[d] # Null => \E i \in 1..Len(order[d]) : order[d][i] = iterator'[d]
    BY Parts DEF Peopled
  <2>5. \A t \in Tracks : owner[t] # Null => disc'[owner[t]] # Null
    BY Parts DEF Peopled, LinkTypes
  <2>. QED
    BY <2>2, <2>3, <2>4, <2>5 DEF Peopled
<1>5. DiscIInv' <=> LinkTypes' /\ DataTypes' /\ Strung' /\ Peopled' /\ Unlinked'
  BY Parts, PTL
<1>. QED
  BY <1>1, <1>2, <1>3, <1>4, <1>5

----------------------------------------------------------------------------
(* The steps that leave the pointers.                                      *)

\* What DataTypes says one by one.
LEMMA DataShape ==
  ASSUME DiscIInv
  PROVE  /\ \A d \in Discs : disc[d] # Null => disc[d] \in DiscData
         /\ \A t \in Tracks : track[t] # Null =>
              track[t] \in TrackData /\ track[t].num \in 1..Cardinality(Tracks) \cup {-1}
         /\ Null \notin DiscData \cup TrackData
         /\ disc \in [Discs -> DiscData \cup {Null}]
         /\ track \in [Tracks -> TrackData \cup {Null}]
         /\ origin \in [Tracks -> {"unset", "given", "computed", "old"}]
  BY Parts, NullIsNoData DEF DataTypes

\* A change of the data of one disc.
LEMMA DiscChange ==
  ASSUME DiscIInv, NEW d \in Discs, NEW r \in DiscData, disc' = [disc EXCEPT ![d] = r],
         UNCHANGED <<track, links, out>>,
         iterator' = iterator \/ iterator' = [iterator EXCEPT ![d] = Null],
         calls' \in 0..MaxCalls,
         origin' \in [Tracks -> {"unset", "given", "computed", "old"}]
  PROVE  DiscIInv'
<1>1. disc' \in [Discs -> DiscData \cup {Null}] /\ \A e \in Discs : disc[e] # Null => disc'[e] # Null
  BY DataShape
<1>2. iterator' \in [Discs -> TrackPointers]
  BY Parts DEF DataTypes, TrackPointers
<1>3. DataTypes'
  BY <1>1, <1>2, Parts DEF DataTypes
<1>4. \A e \in Discs : iterator'[e] # iterator[e] => iterator'[e] = Null
  BY Parts DEF DataTypes
<1>. QED
  BY <1>1, <1>3, <1>4, KeepsLists

\* A change of the data of one track.
LEMMA TrackChange ==
  ASSUME DiscIInv, NEW t \in Tracks, NEW r \in TrackData,
         r.num \in 1..Cardinality(Tracks) \cup {-1},
         track' = [track EXCEPT ![t] = r],
         UNCHANGED <<disc, links, iterator, out>>, calls' \in 0..MaxCalls,
         origin' \in [Tracks -> {"unset", "given", "computed", "old"}]
  PROVE  DiscIInv'
<1>1. /\ track' \in [Tracks -> TrackData \cup {Null}]
      /\ \A u \in Tracks : track'[u] = IF u = t THEN r ELSE track[u]
  BY DataShape
<1>2. \A u \in Tracks : track'[u] # Null => track'[u].num \in 1..Cardinality(Tracks) \cup {-1}
  BY <1>1, DataShape
<1>3. DataTypes'
  BY <1>1, <1>2, Parts DEF DataTypes
<1>4. \A u \in Tracks : track[u] # Null => track'[u] # Null
  BY <1>1, DataShape
<1>. QED
  BY <1>3, <1>4, KeepsLists

\* A walk.
LEMMA Walk ==
  ASSUME DiscIInv, NEW d \in Discs, UNCHANGED <<disc, track, links, origin>>,
         calls' \in 0..MaxCalls,
         NEW n \in Indices \cup {Null}, NEW t, out' = Got(n, t),
         t = Null \/ \E i \in 1..Len(order[d]) : order[d][i] = t,
         iterator' = iterator \/ iterator' = [iterator EXCEPT ![d] = t]
  PROVE  DiscIInv'
<1>1. t \in TrackPointers
  BY OrderShape DEF TrackPointers
<1>2. iterator' \in [Discs -> TrackPointers] /\ \A e \in Discs \ {d} : iterator'[e] = iterator[e]
      /\ iterator'[d] \in {iterator[d], t}
  BY <1>1, Parts DEF DataTypes
<1>3. out'.number \in Indices \cup {Null} /\ out'.track \in TrackPointers
  BY <1>1 DEF Got
<1>4. DataTypes'
  BY <1>2, <1>3, Parts DEF DataTypes
<1>5. \A e \in Discs : iterator'[e] # iterator[e] =>
        iterator'[e] = Null \/ \E i \in 1..Len(order[e]) : order[e][i] = iterator'[e]
  BY <1>2
<1>. QED
  BY <1>4, <1>5, KeepsLists

\* Building a disc, setting its fields and computing its disc id keep lists and types.
LEMMA DiscSteps ==
  ASSUME DiscIInv, NEW d \in Discs
  PROVE  /\ CddbDiscNew(d) => DiscIInv'
         /\ \A f \in DOMAIN DiscValues : \A x \in DiscValues[f] :
              /\ CddbDiscSet(d, f, x) => DiscIInv'
              /\ CddbDiscAppend(d, f, x) => DiscIInv'
         /\ \A x \in DiscValues.genre : CddbDiscSetCategoryStr(d, x[1]) => DiscIInv'
         /\ CddbDiscCalcDiscid(d) => DiscIInv'
<1>1. ASSUME CddbDiscNew(d) PROVE DiscIInv'
  <2>1. /\ disc' = [disc EXCEPT ![d] = NewDisc] /\ NewDisc \in DiscData
        /\ UNCHANGED <<track, links, iterator, out, calls, origin>>
    BY <1>1, NewTypes DEF CddbDiscNew
  <2>. QED
    BY <2>1, DiscChange, Parts DEF DataTypes
<1>2. ASSUME NEW f \in DOMAIN DiscValues, NEW x \in DiscValues[f], CddbDiscSet(d, f, x)
      PROVE  DiscIInv'
  <2> DEFINE r == [disc[d] EXCEPT ![f] = x]
  <2>1. disc[d] \in DiscData /\ r \in DiscData
    BY <1>2, DataShape, DiscSetType DEF CddbDiscSet
  <2>2. disc' = [disc EXCEPT ![d] = r]
    BY <1>2 DEF CddbDiscSet
  <2>3. origin' \in [Tracks -> {"unset", "given", "computed", "old"}]
    BY <1>2, AgedType, DataShape DEF CddbDiscSet
  <2>4. calls' \in 0..MaxCalls /\ UNCHANGED <<track, links, iterator, out>>
    BY <1>2, CallType DEF CddbDiscSet
  <2> HIDE DEF r
  <2>. QED
    BY <2>1, <2>2, <2>3, <2>4, DiscChange
<1>3. ASSUME NEW f \in DOMAIN DiscValues, NEW x \in DiscValues[f], CddbDiscAppend(d, f, x)
      PROVE  DiscIInv'
  <2> DEFINE y == Extended(disc[d][f], x)
             r == [disc[d] EXCEPT ![f] = y]
  <2>1. disc[d] \in DiscData /\ f \in DiscTexts /\ f \in {"title", "artist", "ext_data"} /\ x # Null
    BY <1>3, DataShape DEF CddbDiscAppend, DiscTexts
  <2>2. x \in Texts /\ disc[d][f] \in Texts
    BY <2>1, ValueTypes DEF DiscData
  <2>3. y \in Texts
    BY <2>1, <2>2, ExtendedType
  <2>4. disc' = [disc EXCEPT ![d] = r]
    BY <1>3 DEF CddbDiscAppend
  <2> HIDE DEF y
  <2>5. r \in DiscData
    BY <2>1, <2>3, TextSetType
  <2>6. origin' = origin /\ calls' \in 0..MaxCalls /\ UNCHANGED <<track, links, iterator, out>>
    BY <1>3, CallType DEF CddbDiscAppend
  <2> HIDE DEF r
  <2>. QED
    BY <2>4, <2>5, <2>6, DataShape, DiscChange
<1>4. ASSUME NEW x \in DiscValues.genre, CddbDiscSetCategoryStr(d, x[1]) PROVE DiscIInv'
  <2> DEFINE category == CategoryOf(x[1])
             r == [disc[d] EXCEPT !.genre = <<x[1]>>, !.category = category]
  <2>1. x \in Seq(STRING) /\ x # <<>> /\ disc[d] \in DiscData
    BY <1>4, ValueTypes, DataShape DEF CddbDiscSetCategoryStr
  <2>2. x[1] \in STRING /\ <<x[1]>> \in Texts /\ category \in Categories
    <3>1. x[1] \in STRING
      BY <2>1
    <3>2. <<x[1]>> \in Texts
      BY <3>1 DEF Texts
    <3>. QED
      BY <3>1, <3>2 DEF CategoryOf, Categories
  <2>3. disc' = [disc EXCEPT ![d] = r]
    BY <1>4 DEF CddbDiscSetCategoryStr
  <2> HIDE DEF category
  <2>4. r \in DiscData
    BY <2>1, <2>2 DEF DiscData
  <2>5. origin' = origin /\ calls' \in 0..MaxCalls /\ UNCHANGED <<track, links, iterator, out>>
    BY <1>4, CallType DEF CddbDiscSetCategoryStr
  <2> HIDE DEF r
  <2>. QED
    BY <2>3, <2>4, <2>5, DataShape, DiscChange
<1>5. ASSUME CddbDiscCalcDiscid(d) PROVE DiscIInv'
  <2> DEFINE chain == Chain(tracks[d])
             sum   == Checksum([i \in DOMAIN chain |-> track[chain[i]]])
             id    == IF tracks[d] = Null THEN {}
                      ELSE Shifted(sum, 3) \cup Shifted(PlayingTime(d), 1) \cup Bits(track_cnt[d])
             r     == [disc[d] EXCEPT !.discid = id]
  <2>1. disc' = [disc EXCEPT ![d] = r] /\ disc[d] \in DiscData
    BY <1>5, DataShape DEF CddbDiscCalcDiscid
  <2>2. id \in DiscIds
    BY DEF DiscIds, Shifted, Bits
  <2> HIDE DEF id
  <2>3. r \in DiscData
    BY <2>1, <2>2 DEF DiscData
  <2>4. /\ iterator' = [iterator EXCEPT ![d] = Null] /\ calls' \in 0..MaxCalls
        /\ UNCHANGED <<track, links, out, origin>>
    BY <1>5, CallType DEF CddbDiscCalcDiscid
  <2> HIDE DEF r
  <2>. QED
    BY <2>1, <2>3, <2>4, DataShape, DiscChange
<1>. QED
  BY <1>1, <1>2, <1>3, <1>4, <1>5

\* A walk over the tracks leaves the iterator on one of them.
LEMMA WalkSteps ==
  ASSUME DiscIInv, NEW d \in Discs
  PROVE  /\ \A n \in Indices : CddbDiscGetTrack(d, n) => DiscIInv'
         /\ CddbDiscGetTrackFirst(d) => DiscIInv'
         /\ CddbDiscGetTrackNext(d) => DiscIInv'
<1>1. ASSUME NEW n \in Indices, CddbDiscGetTrack(d, n) PROVE DiscIInv'
  <2> DEFINE k == IF n > 0 THEN n ELSE 0
             t == IF n >= track_cnt[d] THEN Null ELSE After(tracks[d], k)
  <2>1. k \in Nat
    BY IndicesAssumption
  <2>2. t = Null \/ \E i \in 1..Len(order[d]) : order[d][i] = t
    <3> HIDE DEF k
    <3>1. After(tracks[d], k) = IF k < Len(order[d]) THEN order[d][k + 1] ELSE Null
      BY <2>1, AfterFirst
    <3>2. k < Len(order[d]) => k + 1 \in 1..Len(order[d])
      BY <2>1, OrderShape
    <3>. QED
      BY <3>1, <3>2
  <2>3. /\ out' = Got(n, t) /\ UNCHANGED <<disc, track, links, iterator, origin>>
        /\ calls' \in 0..MaxCalls
    BY <1>1, CallType DEF CddbDiscGetTrack
  <2> HIDE DEF t
  <2>. QED
    BY <2>2, <2>3, Walk
<1>2. ASSUME CddbDiscGetTrackFirst(d) PROVE DiscIInv'
  <2>1. tracks[d] = Null \/ \E i \in 1..Len(order[d]) : order[d][i] = tracks[d]
    <3>1. order[d] # <<>> => 1 \in 1..Len(order[d])
      BY OrderShape
    <3>. QED
      BY <3>1, Parts DEF Strung
  <2>2. /\ iterator' = [iterator EXCEPT ![d] = tracks[d]] /\ out' = Got(Null, tracks[d])
        /\ UNCHANGED <<disc, track, links, origin>> /\ calls' \in 0..MaxCalls
    BY <1>2, CallType, Parts DEF CddbDiscGetTrackFirst, DataTypes
  <2>. QED
    BY <2>1, <2>2, Walk
<1>3. ASSUME CddbDiscGetTrackNext(d) PROVE DiscIInv'
  <2> DEFINE t == IF iterator[d] = Null THEN Null ELSE next[iterator[d]]
  <2>1. t = Null \/ \E i \in 1..Len(order[d]) : order[d][i] = t
    <3>1. CASE iterator[d] # Null
      <4>1. PICK i \in 1..Len(order[d]) : order[d][i] = iterator[d]
        BY <3>1, Parts DEF Peopled
      <4>2. next[order[d][i]] = IF i = Len(order[d]) THEN Null ELSE order[d][i + 1]
        BY Parts DEF Strung
      <4>3. i # Len(order[d]) => i + 1 \in 1..Len(order[d])
        BY OrderShape
      <4>. QED
        BY <3>1, <4>1, <4>2, <4>3
    <3>. QED
      BY <3>1
  <2>2. /\ iterator' = [iterator EXCEPT ![d] = t] /\ out' = Got(Null, t)
        /\ UNCHANGED <<disc, track, links, origin>> /\ calls' \in 0..MaxCalls
    BY <1>3, CallType, Parts DEF CddbDiscGetTrackNext, DataTypes
  <2> HIDE DEF t
  <2>. QED
    BY <2>1, <2>2, Walk
<1>. QED
  BY <1>1, <1>2, <1>3

\* Building, freeing and copying a track and setting its fields keep lists and types.
LEMMA TrackSteps ==
  ASSUME DiscIInv, NEW t \in Tracks
  PROVE  /\ CddbTrackNew(t) => DiscIInv'
         /\ CddbTrackDestroy(t) => DiscIInv'
         /\ \A f \in TrackTexts : \A x \in TrackValues[f] :
              /\ CddbTrackSet(t, f, x) => DiscIInv'
              /\ CddbTrackAppend(t, f, x) => DiscIInv'
         /\ \A x \in TrackValues.frame_offset : CddbTrackSetFrameOffset(t, x) => DiscIInv'
<1>1. ASSUME CddbTrackNew(t) PROVE DiscIInv'
  <2>1. /\ track' = [track EXCEPT ![t] = NewTrack] /\ NewTrack \in TrackData
        /\ NewTrack.num \in 1..Cardinality(Tracks) \cup {-1}
        /\ UNCHANGED <<disc, links, iterator, out, calls>>
        /\ origin' \in [Tracks -> {"unset", "given", "computed", "old"}]
    BY <1>1, NewTypes, DataShape DEF CddbTrackNew
  <2>. QED
    BY <2>1, TrackChange, Parts DEF DataTypes
<1>2. ASSUME CddbTrackDestroy(t) PROVE DiscIInv'
  <2>1. /\ track' = [track EXCEPT ![t] = Null] /\ owner[t] = Null /\ calls' \in 0..MaxCalls
        /\ UNCHANGED <<disc, links, iterator, out, origin>>
    BY <1>2, CallType DEF CddbTrackDestroy
  <2>2. /\ track' \in [Tracks -> TrackData \cup {Null}]
        /\ \A u \in Tracks : track'[u] = IF u = t THEN Null ELSE track[u]
    BY <2>1, DataShape
  <2>3. \A u \in Tracks : track'[u] # Null => track'[u].num \in 1..Cardinality(Tracks) \cup {-1}
    BY <2>2, DataShape
  <2>4. DataTypes'
    BY <2>1, <2>2, <2>3, Parts DEF DataTypes
  <2>5. \A u \in Tracks : owner[u] # Null /\ track[u] # Null => track'[u] # Null
    BY <2>1, <2>2
  <2>. QED
    BY <2>1, <2>4, <2>5, KeepsLists
<1>3. ASSUME NEW f \in TrackTexts, NEW x \in TrackValues[f], CddbTrackSet(t, f, x) PROVE DiscIInv'
  <2> DEFINE r == [track[t] EXCEPT ![f] = x]
  <2>1. x \in Texts
    BY ValueTypes DEF TrackTexts
  <2>2. track[t] \in TrackData /\ track[t].num \in 1..Cardinality(Tracks) \cup {-1}
    BY <1>3, DataShape DEF CddbTrackSet
  <2>3. r \in TrackData /\ r.num = track[t].num
    BY <2>1, <2>2, TextSetType
  <2>4. /\ track' = [track EXCEPT ![t] = r] /\ origin' = origin /\ calls' \in 0..MaxCalls
        /\ UNCHANGED <<disc, links, iterator, out>>
    BY <1>3, CallType DEF CddbTrackSet
  <2> HIDE DEF r
  <2>. QED
    BY <2>2, <2>3, <2>4, DataShape, TrackChange
<1>4. ASSUME NEW f \in TrackTexts, NEW x \in TrackValues[f], CddbTrackAppend(t, f, x)
      PROVE  DiscIInv'
  <2> DEFINE y == Extended(track[t][f], x)
             r == [track[t] EXCEPT ![f] = y]
  <2>1. x \in Texts /\ x # Null
    BY <1>4, ValueTypes DEF TrackTexts, CddbTrackAppend
  <2>2. /\ track[t] \in TrackData /\ track[t].num \in 1..Cardinality(Tracks) \cup {-1}
        /\ track[t][f] \in Texts
    BY <1>4, DataShape DEF CddbTrackAppend, TrackData, TrackTexts
  <2>3. y \in Texts
    BY <2>1, <2>2, ExtendedType
  <2>4. track' = [track EXCEPT ![t] = r]
    BY <1>4 DEF CddbTrackAppend
  <2> HIDE DEF y
  <2>5. r \in TrackData /\ r.num = track[t].num
    BY <2>2, <2>3, TextSetType
  <2>6. origin' = origin /\ calls' \in 0..MaxCalls /\ UNCHANGED <<disc, links, iterator, out>>
    BY <1>4, CallType DEF CddbTrackAppend
  <2> HIDE DEF r
  <2>. QED
    BY <2>2, <2>4, <2>5, <2>6, DataShape, TrackChange
<1>5. ASSUME NEW x \in TrackValues.frame_offset, CddbTrackSetFrameOffset(t, x) PROVE DiscIInv'
  <2> DEFINE r == [track[t] EXCEPT !.frame_offset = x]
  <2>1. x \in Nat \cup {-1}
    BY ValueTypes
  <2>2. track[t] \in TrackData /\ track[t].num \in 1..Cardinality(Tracks) \cup {-1}
    BY <1>5, DataShape DEF CddbTrackSetFrameOffset
  <2>3. r \in TrackData /\ r.num = track[t].num
    BY <2>1, <2>2 DEF TrackData
  <2>4. /\ track' = [track EXCEPT ![t] = r] /\ calls' \in 0..MaxCalls
        /\ UNCHANGED <<disc, links, iterator, out>>
        /\ origin' \in [Tracks -> {"unset", "given", "computed", "old"}]
    BY <1>5, CallType, AgedType DEF CddbTrackSetFrameOffset
  <2> HIDE DEF r
  <2>. QED
    BY <2>2, <2>3, <2>4, TrackChange
<1>. QED
  BY <1>1, <1>2, <1>3, <1>4, <1>5

\* Computing and setting the length of a track keep lists and types.
LEMMA LengthSteps ==
  ASSUME DiscIInv, NEW t \in Tracks
  PROVE  /\ CddbTrackGetLength(t) => DiscIInv'
         /\ \A x \in TrackValues.length : CddbTrackSetLength(t, x) => DiscIInv'
         /\ \A u \in Tracks : CddbTrackClone(t, u) => DiscIInv'
         /\ \A u \in Tracks : CddbTrackCopy(t, u) => DiscIInv'
<1>1. ASSUME CddbTrackGetLength(t) PROVE DiscIInv'
  <2> DEFINE r == [track[t] EXCEPT !.length = LengthFromOffsets(t)]
  <2>1. track[t] \in TrackData /\ track[t].num \in 1..Cardinality(Tracks) \cup {-1} /\ track[t] # Null
    BY <1>1, DataShape DEF CddbTrackGetLength
  <2>2. r \in TrackData /\ r.num = track[t].num
    BY <2>1, ComputedTypes DEF TrackData
  <2>3. /\ track' = [track EXCEPT ![t] = r] /\ UNCHANGED <<disc, links, iterator, out, calls>>
        /\ origin' \in [Tracks -> {"unset", "given", "computed", "old"}]
    BY <1>1, DataShape DEF CddbTrackGetLength
  <2> HIDE DEF r
  <2>. QED
    BY <2>1, <2>2, <2>3, TrackChange, Parts DEF DataTypes
<1>2. ASSUME NEW x \in TrackValues.length, CddbTrackSetLength(t, x) PROVE DiscIInv'
  <2> DEFINE z == IF owner[t] # Null /\ track[t].frame_offset = -1
                  THEN OffsetFromLengths(t, x) ELSE track[t].frame_offset
             r == [track[t] EXCEPT !.length = x, !.frame_offset = z]
  <2>1. /\ track[t] \in TrackData /\ track[t].num \in 1..Cardinality(Tracks) \cup {-1}
        /\ track[t] # Null /\ x \in Nat
    BY <1>2, DataShape, ValueTypes DEF CddbTrackSetLength
  <2>2. z \in Nat \cup {-1}
    BY <2>1, ComputedTypes DEF TrackData
  <2>3. track' = [track EXCEPT ![t] = r]
    BY <1>2, <2>1, DataShape DEF CddbTrackSetLength, TrackData
  <2> HIDE DEF z
  <2>4. r \in TrackData /\ r.num = track[t].num
    BY <2>1, <2>2 DEF TrackData
  <2>5. /\ calls' \in 0..MaxCalls /\ UNCHANGED <<disc, links, iterator, out>>
        /\ origin' \in [Tracks -> {"unset", "given", "computed", "old"}]
    <3>1. PICK changed : origin' = [Aged(changed) EXCEPT ![t] = "given"]
      BY <1>2 DEF CddbTrackSetLength
    <3>2. Aged(changed) \in [Tracks -> {"unset", "given", "computed", "old"}]
      BY AgedType
    <3>. QED
      BY <1>2, <3>1, <3>2, CallType DEF CddbTrackSetLength
  <2> HIDE DEF r
  <2>. QED
    BY <2>1, <2>3, <2>4, <2>5, TrackChange
<1>3. ASSUME NEW u \in Tracks, CddbTrackClone(t, u) PROVE DiscIInv'
  <2>1. track[u] \in TrackData /\ track[u].num \in 1..Cardinality(Tracks) \cup {-1}
    BY <1>3, DataShape DEF CddbTrackClone
  <2>2. /\ track' = [track EXCEPT ![t] = track[u]] /\ calls' \in 0..MaxCalls
        /\ UNCHANGED <<disc, links, iterator, out>>
        /\ origin' \in [Tracks -> {"unset", "given", "computed", "old"}]
    BY <1>3, CallType, DataShape DEF CddbTrackClone
  <2>. QED
    BY <2>1, <2>2, TrackChange
<1>4. ASSUME NEW u \in Tracks, CddbTrackCopy(t, u) PROVE DiscIInv'
  <2> DEFINE r == Merged(track[t], track[u], NewTrack)
  <2>1. /\ track[t] \in TrackData /\ track[t].num \in 1..Cardinality(Tracks) \cup {-1}
        /\ track[u] \in TrackData /\ track[u].num \in 1..Cardinality(Tracks) \cup {-1}
    BY <1>4, DataShape DEF CddbTrackCopy
  <2>2. r \in TrackData /\ r.num \in {track[t].num, track[u].num}
    BY <2>1, MergedTypes
  <2>3. /\ track' = [track EXCEPT ![t] = r] /\ calls' \in 0..MaxCalls
        /\ UNCHANGED <<disc, links, iterator, out>>
    BY <1>4, CallType DEF CddbTrackCopy
  <2>4. origin' \in [Tracks -> {"unset", "given", "computed", "old"}]
    <3>1. Aged({t, prev[t]}) \in [Tracks -> {"unset", "given", "computed", "old"}]
      BY AgedType
    <3>. QED
      BY <1>4, <3>1 DEF CddbTrackCopy
  <2> HIDE DEF r
  <2>. QED
    BY <2>1, <2>2, <2>3, <2>4, TrackChange
<1>. QED
  BY <1>1, <1>2, <1>3, <1>4

----------------------------------------------------------------------------
(* The steps that change the pointers.                                     *)

\* Where the structures of calloc come from.
LEMMA FreshShape ==
  ASSUME DiscIInv, NEW k \in Nat, NEW new \in Fresh(k)
  PROVE  /\ new \in Seq(Tracks) /\ Len(new) = k /\ DOMAIN new = 1..k
         /\ \A i, j \in 1..Len(new) : new[i] = new[j] => i = j
         /\ \A i \in 1..Len(new) : new[i] \in Tracks /\ track[new[i]] = Null /\ owner[new[i]] = Null
<1>1. new \in [1..k -> {t \in Tracks : track[t] = Null}] /\ IsInjective(new)
  BY DEF Fresh
<1>2. new \in Seq(Tracks) /\ Len(new) = k /\ DOMAIN new = 1..k
  BY <1>1
<1>3. \A i, j \in 1..k : new[i] = new[j] => i = j
  BY <1>1, <1>2 DEF IsInjective
<1>4. \A i \in 1..k : new[i] \in Tracks /\ track[new[i]] = Null
  BY <1>1
<1>5. \A t \in Tracks : track[t] = Null => owner[t] = Null
  <2>1. \A t \in Tracks : owner[t] # Null => track[t] # Null
    BY Neighbours, DataShape
  <2>. QED
    BY <2>1
<1>. QED
  BY <1>2, <1>3, <1>4, <1>5

\* Tracks that join a disc keep the invariant.
LEMMA JoinKeeps ==
  ASSUME DiscIInv, NEW d \in Discs, NEW new \in Seq(Tracks),
         \A i, j \in 1..Len(new) : new[i] = new[j] => i = j,
         \A i \in 1..Len(new) : owner[new[i]] = Null,
         Links(d, new),
         DataTypes', UNCHANGED iterator, disc'[d] # Null,
         \A e \in Discs : disc[e] # Null => disc'[e] # Null,
         \A t \in Tracks : track[t] # Null => track'[t] # Null,
         \A i \in 1..Len(new) : track'[new[i]] # Null
  PROVE  DiscIInv'
<1>1. /\ LinkTypes' /\ Strung' /\ Unlinked'
      /\ order'[d] = order[d] \o new
      /\ \A e \in Discs \ {d} : order'[e] = order[e]
      /\ \A t \in Tracks : owner'[t] # Null => owner'[t] = owner[t] \/ owner'[t] = d
  BY LinksKeepLists
<1>2. /\ order[d] \in Seq(Tracks) /\ Len(order'[d]) = Len(order[d]) + Len(new)
      /\ \A i \in 1..Len(order[d]) : order'[d][i] = order[d][i] /\ i \in 1..Len(order'[d])
      /\ \A i \in 1..Len(order'[d]) :
           i \in 1..Len(order[d]) \/ (i - Len(order[d]) \in 1..Len(new)
                                      /\ order'[d][i] = new[i - Len(order[d])])
  BY <1>1, OrderShape
<1>3. \A e \in Discs : \A i \in 1..Len(order[e]) : order[e][i] \in Tracks /\ track[order[e][i]] # Null
  BY OrderShape, Parts DEF Peopled
<1>4. \A e \in Discs : \A i \in 1..Len(order'[e]) : track'[order'[e][i]] # Null
  <2>1. ASSUME NEW i \in 1..Len(order'[d]) PROVE track'[order'[d][i]] # Null
    <3>1. CASE i \in 1..Len(order[d])
      BY <1>2, <1>3, <3>1
    <3>2. CASE i \notin 1..Len(order[d])
      <4>1. i - Len(order[d]) \in 1..Len(new) /\ order'[d][i] = new[i - Len(order[d])]
        BY <1>2, <3>2
      <4>. QED
        BY <4>1
    <3>. QED
      BY <3>1, <3>2
  <2>2. ASSUME NEW e \in Discs \ {d}, NEW i \in 1..Len(order'[e]) PROVE track'[order'[e][i]] # Null
    BY <1>1, <1>3
  <2>. QED
    BY <2>1, <2>2
<1>5. \A e \in Discs : iterator'[e] # Null => \E i \in 1..Len(order'[e]) : order'[e][i] = iterator'[e]
  BY <1>1, <1>2, Parts DEF Peopled
<1>6. \A t \in Tracks : owner'[t] # Null => disc'[owner'[t]] # Null
  <2>1. ASSUME NEW t \in Tracks, owner'[t] # Null, owner'[t] # d PROVE disc'[owner'[t]] # Null
    <3>1. owner'[t] = owner[t]
      BY <1>1, <2>1
    <3>2. owner[t] \in Discs /\ disc[owner[t]] # Null
      BY <2>1, <3>1, Parts DEF Peopled, LinkTypes
    <3>. QED
      BY <3>1, <3>2
  <2>. QED
    BY <2>1
<1>7. Peopled'
  BY <1>4, <1>5, <1>6 DEF Peopled
<1>8. DiscIInv' <=> LinkTypes' /\ DataTypes' /\ Strung' /\ Peopled' /\ Unlinked'
  BY Parts, PTL
<1>. QED
  BY <1>1, <1>7, <1>8

\* The application adds a track.
LEMMA AddStep ==
  ASSUME DiscIInv, NEW d \in Discs, NEW t \in Tracks, CddbDiscAddTrack(d, t)
  PROVE  /\ DiscIInv'
         /\ order' = [order EXCEPT ![d] = Append(order[d], t)]
         /\ track' = [track EXCEPT ![t] = [track[t] EXCEPT !.num = Len(order[d]) + 1]]
<1> DEFINE new == <<t>>
           r == [track[t] EXCEPT !.num = Len(order[d]) + 1]
<1>1. /\ disc[d] # Null /\ track[t] # Null /\ owner[t] = Null /\ Links(d, new)
      /\ track' = [track EXCEPT ![t].num = track_cnt'[d]]
      /\ origin' = Aged({LastOf(d), t}) /\ UNCHANGED <<disc, iterator, out, calls>>
  BY DEF CddbDiscAddTrack
<1>2. /\ new \in Seq(Tracks) /\ Len(new) = 1 /\ new[1] = t
      /\ \A i, j \in 1..Len(new) : new[i] = new[j] => i = j
      /\ \A i \in 1..Len(new) : owner[new[i]] = Null /\ new[i] = t
  BY <1>1
<1>3. /\ order' = [order EXCEPT ![d] = order[d] \o new] /\ LinkTypes' /\ Strung'
      /\ order'[d] = order[d] \o new
  <2> HIDE DEF new
  <2>. QED
    BY <1>1, <1>2, LinksShape, LinksKeepLists
<1>4. /\ order[d] \o new = Append(order[d], t) /\ Len(order'[d]) = Len(order[d]) + 1
      /\ Len(order[d]) \in Nat
  BY <1>2, <1>3, OrderShape
<1>5. track_cnt'[d] = Len(order[d]) + 1 /\ Len(order[d]) + 1 <= Cardinality(Tracks)
  <2>1. order'[d] \in Seq(Tracks) /\ \A i, j \in 1..Len(order'[d]) : order'[d][i] = order'[d][j] => i = j
    BY <1>3 DEF LinkTypes, Strung
  <2>2. Len(order'[d]) <= Cardinality(Tracks)
    BY <2>1, NoMoreThanTracks
  <2>. QED
    BY <1>3, <1>4, <2>2 DEF Strung
<1>6. track' = [track EXCEPT ![t] = r] /\ track[t] \in TrackData
  BY <1>1, <1>5, DataShape
<1>7. r \in TrackData /\ r.num \in 1..Cardinality(Tracks)
  <2> DEFINE k == Len(order[d]) + 1
  <2>1. k \in Nat /\ k \in 1..Cardinality(Tracks)
    BY <1>4, <1>5, OrderShape
  <2>2. r = [track[t] EXCEPT !.num = k]
    OBVIOUS
  <2> HIDE DEF k, r
  <2>. QED
    BY <1>6, <2>1, <2>2 DEF TrackData
<1> HIDE DEF r
<1>8. /\ track' \in [Tracks -> TrackData \cup {Null}]
      /\ \A u \in Tracks : track'[u] = IF u = t THEN r ELSE track[u]
  BY <1>6, <1>7, DataShape
<1>9. DataTypes'
  <2>1. \A u \in Tracks : track'[u] # Null => track'[u].num \in 1..Cardinality(Tracks) \cup {-1}
    BY <1>7, <1>8, DataShape
  <2>2. origin' \in [Tracks -> {"unset", "given", "computed", "old"}]
    BY <1>1, AgedType
  <2>. QED
    BY <1>1, <1>8, <2>1, <2>2, Parts DEF DataTypes
<1>10. /\ \A u \in Tracks : track[u] # Null => track'[u] # Null
       /\ \A i \in 1..Len(new) : track'[new[i]] # Null
  BY <1>2, <1>7, <1>8, DataShape
<1>11. DiscIInv'
  <2> HIDE DEF new
  <2>. QED
    BY <1>1, <1>2, <1>9, <1>10, JoinKeeps
<1>. QED
  BY <1>3, <1>4, <1>6, <1>11 DEF r

\* A disc and its tracks go.
LEMMA DestroyStep ==
  ASSUME DiscIInv, NEW d \in Discs, CddbDiscDestroy(d)
  PROVE  /\ DiscIInv'
         /\ track' = [t \in Tracks |-> IF \E i \in 1..Len(order[d]) : order[d][i] = t
                                       THEN Null ELSE track[t]]
<1> DEFINE freed == {order[d][i] : i \in 1..Len(order[d])}
<1>1. Range(Chain(tracks[d])) = freed
  BY ChainIsOrder, OrderShape, RangeIs
<1>2. /\ track' = [t \in Tracks |-> IF t \in freed THEN Null ELSE track[t]]
      /\ origin' = [t \in Tracks |-> IF t \in freed THEN "unset" ELSE origin[t]]
      /\ next' = [t \in Tracks |-> IF t \in freed THEN Null ELSE next[t]]
      /\ prev' = [t \in Tracks |-> IF t \in freed THEN Null ELSE prev[t]]
      /\ owner' = [t \in Tracks |-> IF t \in freed THEN Null ELSE owner[t]]
  BY <1>1 DEF CddbDiscDestroy
<1>3. /\ order' = [order EXCEPT ![d] = <<>>] /\ disc' = [disc EXCEPT ![d] = Null]
      /\ tracks' = [tracks EXCEPT ![d] = Null] /\ track_cnt' = [track_cnt EXCEPT ![d] = 0]
      /\ iterator' = [iterator EXCEPT ![d] = Null] /\ out' = Got(Null, Null)
      /\ calls' \in 0..MaxCalls
  BY CallType DEF CddbDiscDestroy
<1>4. \A t \in Tracks : t \in freed <=> owner[t] = d
  BY OrderShape, NullAssumption, Parts DEF Strung
<1>5. <<>> \in Seq(Tracks) /\ Len(<<>>) = 0 /\ 1..0 = {}
  OBVIOUS
<1> HIDE DEF freed
<1>6. LinkTypes'
  BY <1>2, <1>3, <1>5, Parts DEF LinkTypes, TrackPointers
<1>7. DataTypes'
  <2>1. track' \in [Tracks -> TrackData \cup {Null}] /\ disc' \in [Discs -> DiscData \cup {Null}]
        /\ origin' \in [Tracks -> {"unset", "given", "computed", "old"}]
        /\ iterator' \in [Discs -> TrackPointers]
    BY <1>2, <1>3, DataShape, Parts DEF DataTypes, TrackPointers
  <2>2. \A t \in Tracks : track'[t] # Null => track'[t].num \in 1..Cardinality(Tracks) \cup {-1}
    BY <1>2, DataShape
  <2>3. out'.number \in Indices \cup {Null} /\ out'.track \in TrackPointers
    BY <1>3 DEF Got, TrackPointers
  <2>. QED
    BY <1>3, <2>1, <2>2, <2>3 DEF DataTypes
<1>8. ASSUME NEW e \in Discs \ {d}
      PROVE  /\ order'[e] = order[e] /\ tracks'[e] = tracks[e] /\ track_cnt'[e] = track_cnt[e]
             /\ iterator'[e] = iterator[e] /\ disc'[e] = disc[e]
             /\ \A i \in 1..Len(order[e]) :
                  /\ next'[order[e][i]] = next[order[e][i]] /\ prev'[order[e][i]] = prev[order[e][i]]
                  /\ owner'[order[e][i]] = e /\ track'[order[e][i]] = track[order[e][i]]
  <2>1. \A i \in 1..Len(order[e]) :
          order[e][i] \in Tracks /\ owner[order[e][i]] = e /\ order[e][i] \notin freed
    BY <1>4, OrderShape, Parts DEF Strung
  <2>2. /\ order'[e] = order[e] /\ tracks'[e] = tracks[e] /\ track_cnt'[e] = track_cnt[e]
        /\ iterator'[e] = iterator[e] /\ disc'[e] = disc[e]
    BY <1>3, Parts DEF LinkTypes, DataTypes
  <2>. QED
    BY <1>2, <2>1, <2>2
<1>9. /\ order'[d] = <<>> /\ tracks'[d] = Null /\ track_cnt'[d] = 0 /\ iterator'[d] = Null
  BY <1>3, Parts DEF LinkTypes, DataTypes
<1>10. \A t \in Tracks : owner'[t] # Null => owner'[t] = owner[t] /\ owner[t] \in Discs \ {d}
  BY <1>2, <1>4, Parts DEF LinkTypes
<1>11. Strung'
  <2>1. ASSUME NEW e \in Discs
        PROVE  /\ track_cnt'[e] = Len(order'[e])
               /\ \A i, j \in 1..Len(order'[e]) : order'[e][i] = order'[e][j] => i = j
               /\ tracks'[e] = IF order'[e] = <<>> THEN Null ELSE order'[e][1]
               /\ \A i \in 1..Len(order'[e]) :
                    /\ next'[order'[e][i]] = IF i = Len(order'[e]) THEN Null ELSE order'[e][i + 1]
                    /\ prev'[order'[e][i]] = IF i = 1 THEN Null ELSE order'[e][i - 1]
                    /\ owner'[order'[e][i]] = e
    <3>1. CASE e = d
      BY <1>5, <1>9, <3>1
    <3>2. CASE e # d
      <4>1. /\ track_cnt[e] = Len(order[e])
            /\ \A i, j \in 1..Len(order[e]) : order[e][i] = order[e][j] => i = j
            /\ tracks[e] = IF order[e] = <<>> THEN Null ELSE order[e][1]
            /\ \A i \in 1..Len(order[e]) :
                 /\ next[order[e][i]] = IF i = Len(order[e]) THEN Null ELSE order[e][i + 1]
                 /\ prev[order[e][i]] = IF i = 1 THEN Null ELSE order[e][i - 1]
        BY Parts DEF Strung
      <4>. QED
        BY <1>8, <3>2, <4>1
    <3>. QED
      BY <3>1, <3>2
  <2>2. \A t \in Tracks : owner'[t] # Null =>
          \E i \in 1..Len(order'[owner'[t]]) : order'[owner'[t]][i] = t
    BY <1>8, <1>10, Parts DEF Strung
  <2>. QED
    BY <2>1, <2>2 DEF Strung
<1>12. Peopled'
  <2>1. \A e \in Discs : \A i \in 1..Len(order'[e]) : track'[order'[e][i]] # Null
    BY <1>5, <1>8, <1>9, Parts DEF Peopled
  <2>2. \A e \in Discs : iterator'[e] # Null => \E i \in 1..Len(order'[e]) : order'[e][i] = iterator'[e]
    BY <1>8, <1>9, Parts DEF Peopled
  <2>3. \A t \in Tracks : owner'[t] # Null => disc'[owner'[t]] # Null
    BY <1>8, <1>10, Parts DEF Peopled
  <2>. QED
    BY <2>1, <2>2, <2>3 DEF Peopled
<1>13. Unlinked'
  BY <1>2, Parts DEF Unlinked
<1>14. DiscIInv' <=> LinkTypes' /\ DataTypes' /\ Strung' /\ Peopled' /\ Unlinked'
  BY Parts, PTL
<1>. QED
  BY <1>2, <1>6, <1>7, <1>11, <1>12, <1>13, <1>14 DEF freed

\* Cloning a disc: each new track is a clone of the one in its place.
LEMMA CloneStep ==
  ASSUME DiscIInv, NEW d \in Discs, NEW e \in Discs, CddbDiscClone(d, e)
  PROVE  /\ DiscIInv'
         /\ order[d] = <<>> /\ disc[d] = Null /\ disc[e] \in DiscData
         /\ \E new \in Seq(Tracks) :
              /\ Len(new) = Len(order[e])
              /\ \A i, j \in 1..Len(new) : new[i] = new[j] => i = j
              /\ \A i \in 1..Len(new) : track[new[i]] = Null /\ new[i] \in Tracks
              /\ order' = [order EXCEPT ![d] = new]
              /\ \A i \in 1..Len(new) : track'[new[i]] = [track[order[e][i]] EXCEPT !.num = i]
              /\ \A t \in Tracks : (\A i \in 1..Len(new) : new[i] # t) => track'[t] = track[t]
              /\ track' \in [Tracks -> TrackData \cup {Null}]
              /\ \A i \in 1..Len(new) : origin'[new[i]] = "given"
              /\ \A t \in Tracks : (\A i \in 1..Len(new) : new[i] # t) => origin'[t] = origin[t]
<1> DEFINE source == Chain(tracks[e])
           n == Len(source)
<1>1. /\ disc[d] = Null /\ disc[e] \in DiscData /\ disc' = [disc EXCEPT ![d] = disc[e]]
      /\ UNCHANGED <<iterator, out>> /\ calls' \in 0..MaxCalls
  BY CallType, DataShape DEF CddbDiscClone
<1>2. source = order[e] /\ n \in Nat /\ n <= Cardinality(Tracks) /\ DOMAIN source = 1..n
      /\ Cardinality(Tracks) \in Nat
  BY ChainIsOrder, OrderShape
<1>3. PICK new \in Fresh(n) :
        /\ Links(d, new)
        /\ track' = [t \in Tracks |->
             IF t \in Range(new)
             THEN LET i == CHOOSE j \in DOMAIN new : new[j] = t
                  IN [track[source[i]] EXCEPT !.num = i]
             ELSE track[t]]
        /\ origin' = [t \in Tracks |-> IF t \in Range(new) THEN "given" ELSE origin[t]]
  BY DEF CddbDiscClone
<1> HIDE DEF n, source
<1>4. /\ new \in Seq(Tracks) /\ Len(new) = n /\ DOMAIN new = 1..n
      /\ \A i, j \in 1..Len(new) : new[i] = new[j] => i = j
      /\ \A i \in 1..Len(new) : new[i] \in Tracks /\ track[new[i]] = Null /\ owner[new[i]] = Null
  BY <1>2, FreshShape
<1>5. Range(new) = {new[i] : i \in 1..n}
  BY <1>4, RangeIs
<1>6. \A i \in 1..n : (CHOOSE j \in DOMAIN new : new[j] = new[i]) = i
  BY <1>4
<1>7. \A i \in 1..n : source[i] \in Tracks /\ track[source[i]] \in TrackData
  BY <1>2, OrderShape, DataShape, Parts DEF Peopled, n
<1>8. \A i \in 1..n : /\ track'[new[i]] = [track[source[i]] EXCEPT !.num = i]
                      /\ origin'[new[i]] = "given"
  <2>1. ASSUME NEW i \in 1..n
        PROVE  /\ track'[new[i]] = [track[source[i]] EXCEPT !.num = i]
               /\ origin'[new[i]] = "given"
    <3>1. new[i] \in Tracks /\ new[i] \in Range(new)
      BY <1>4, <1>5
    <3>2. (CHOOSE j \in DOMAIN new : new[j] = new[i]) = i
      BY <1>6
    <3>3. origin'[new[i]] = "given"
      BY <1>3, <3>1
    <3>4. track'[new[i]] = LET k == CHOOSE j \in DOMAIN new : new[j] = new[i]
                           IN [track[source[k]] EXCEPT !.num = k]
      BY <1>3, <3>1
    <3>. QED
      BY <3>2, <3>3, <3>4
  <2>. QED
    BY <2>1
<1>9. \A t \in Tracks : (\A i \in 1..n : new[i] # t) => track'[t] = track[t] /\ origin'[t] = origin[t]
  BY <1>3, <1>5
<1>10. \A i \in 1..n : track'[new[i]] \in TrackData /\ track'[new[i]].num \in 1..Cardinality(Tracks)
  <2>1. ASSUME NEW i \in 1..n
        PROVE  track'[new[i]] \in TrackData /\ track'[new[i]].num \in 1..Cardinality(Tracks)
    <3>1. i \in 1..Cardinality(Tracks)
      BY <1>2
    <3>2. track'[new[i]] = [track[source[i]] EXCEPT !.num = i] /\ track[source[i]] \in TrackData
      BY <1>7, <1>8
    <3>. QED
      BY <3>1, <3>2 DEF TrackData
  <2>. QED
    BY <2>1
<1>11. order[d] = <<>>
  <2>1. Len(order[d]) # 0 => 1 \in 1..Len(order[d])
    BY OrderShape
  <2>2. 1 \in 1..Len(order[d]) => disc[d] # Null
    BY OrderShape, NullAssumption, Parts DEF Strung, Peopled
  <2>. QED
    BY <1>1, <2>1, <2>2, OrderShape
<1>12. order' = [order EXCEPT ![d] = new]
  <2>1. order' = [order EXCEPT ![d] = order[d] \o new]
    BY <1>3, <1>4, LinksShape
  <2>2. <<>> \o new = new
    BY <1>4
  <2>. QED
    BY <1>11, <2>1, <2>2
<1>13. /\ track' \in [Tracks -> TrackData \cup {Null}]
       /\ origin' \in [Tracks -> {"unset", "given", "computed", "old"}]
       /\ \A t \in Tracks : track'[t] # Null => track'[t].num \in 1..Cardinality(Tracks) \cup {-1}
  <2>1. ASSUME NEW t \in Tracks
        PROVE  /\ track'[t] \in TrackData \cup {Null}
               /\ origin'[t] \in {"unset", "given", "computed", "old"}
               /\ track'[t] # Null => track'[t].num \in 1..Cardinality(Tracks) \cup {-1}
    <3>1. CASE \A i \in 1..n : new[i] # t
      BY <1>9, <3>1, DataShape
    <3>2. CASE \E i \in 1..n : new[i] = t
      BY <1>8, <1>10, <3>2
    <3>. QED
      BY <3>1, <3>2
  <2>2. track' = [t \in Tracks |-> track'[t]] /\ origin' = [t \in Tracks |-> origin'[t]]
    BY <1>3
  <2>. QED
    BY <2>1, <2>2
<1>14. DataTypes'
  <2>1. disc' \in [Discs -> DiscData \cup {Null}]
    BY <1>1, DataShape
  <2>. QED
    BY <1>1, <1>13, <2>1, Parts DEF DataTypes
<1>15. \A t \in Tracks : track[t] # Null => track'[t] # Null
  BY <1>4, <1>9
<1>16. /\ disc'[d] # Null /\ \A x \in Discs : disc[x] # Null => disc'[x] # Null
       /\ \A i \in 1..Len(new) : track'[new[i]] # Null
  BY <1>1, <1>4, <1>10, DataShape
<1>17. DiscIInv'
  BY <1>1, <1>3, <1>4, <1>14, <1>15, <1>16, JoinKeeps
<1>18. /\ Len(new) = Len(order[e])
       /\ \A i \in 1..Len(new) : track'[new[i]] = [track[order[e][i]] EXCEPT !.num = i]
       /\ \A i \in 1..Len(new) : origin'[new[i]] = "given"
       /\ \A t \in Tracks : (\A i \in 1..Len(new) : new[i] # t) => track'[t] = track[t]
       /\ \A t \in Tracks : (\A i \in 1..Len(new) : new[i] # t) => origin'[t] = origin[t]
  BY <1>2, <1>4, <1>8, <1>9 DEF n
<1>. QED
  BY <1>1, <1>4, <1>11, <1>12, <1>13, <1>17, <1>18

\* Copying a disc: the destination gets the tracks it lacks, and each track of the source
\* is copied into the one in its place.
LEMMA CopyStep ==
  ASSUME DiscIInv, NEW d \in Discs, NEW e \in Discs, CddbDiscCopy(d, e)
  PROVE  /\ DiscIInv'
         /\ \E new \in Seq(Tracks) :
              LET all == order[d] \o new
                  Old(i) == IF i <= Len(order[d]) THEN track[order[d][i]]
                            ELSE [NewTrack EXCEPT !.num = i]
              IN /\ Len(new) = IF Len(order[e]) > Len(order[d]) THEN Len(order[e]) - Len(order[d])
                                ELSE 0
                 /\ \A i, j \in 1..Len(new) : new[i] = new[j] => i = j
                 /\ \A i \in 1..Len(new) : track[new[i]] = Null /\ new[i] \in Tracks
                 /\ order' = [order EXCEPT ![d] = all]
                 /\ \A i \in 1..Len(order[e]) :
                      /\ track'[all[i]] = Merged(Old(i), track[order[e][i]], NewTrack)
                      /\ origin'[all[i]] = "given"
                 /\ \A t \in Tracks : (\A i \in 1..Len(order[e]) : all[i] # t) =>
                      /\ track'[t] = track[t]
                      /\ origin'[t] = Aged(Range(order[d]))[t]
                 /\ track' \in [Tracks -> TrackData \cup {Null}]
<1> DEFINE had == Chain(tracks[d])
           source == Chain(tracks[e])
           m == Len(had)
           n == Len(source)
           k == IF n > m THEN n - m ELSE 0
           Old(i) == IF i <= m THEN track[had[i]] ELSE [NewTrack EXCEPT !.num = i]
<1>1. /\ d # e /\ disc[d] \in DiscData /\ disc[e] \in DiscData
      /\ disc' = [disc EXCEPT ![d] = Merged(disc[d], disc[e], NewDisc)]
      /\ UNCHANGED <<iterator, out>> /\ calls' \in 0..MaxCalls
  BY CallType, DataShape DEF CddbDiscCopy
<1>2. /\ had = order[d] /\ source = order[e]
      /\ m \in Nat /\ n \in Nat /\ k \in Nat /\ track_cnt[d] = m
      /\ DOMAIN source = 1..n /\ Cardinality(Tracks) \in Nat
  BY ChainIsOrder, OrderShape, Parts DEF Strung
<1>3. PICK new \in Fresh(k) :
        LET all == had \o new
            Was(i) == IF i <= Len(had) THEN track[all[i]]
                      ELSE [NewTrack EXCEPT !.num = track_cnt[d] + i - Len(had)]
            At(t) == CHOOSE j \in DOMAIN all : all[j] = t
            copied == {all[i] : i \in DOMAIN source}
        IN /\ Links(d, new)
           /\ track' = [t \in Tracks |->
                IF t \in copied THEN Merged(Was(At(t)), track[source[At(t)]], NewTrack)
                ELSE track[t]]
           /\ origin' = [t \in Tracks |-> IF t \in copied THEN "given" ELSE Aged(Range(had))[t]]
  BY DEF CddbDiscCopy
<1> DEFINE all == had \o new
           At(t) == CHOOSE j \in DOMAIN all : all[j] = t
           Was(i) == IF i <= m THEN track[all[i]] ELSE [NewTrack EXCEPT !.num = track_cnt[d] + i - m]
           copied == {all[i] : i \in DOMAIN source}
<1>4. /\ Links(d, new)
      /\ track' = [t \in Tracks |->
           IF t \in copied THEN Merged(Was(At(t)), track[source[At(t)]], NewTrack) ELSE track[t]]
      /\ origin' = [t \in Tracks |-> IF t \in copied THEN "given" ELSE Aged(Range(had))[t]]
  BY <1>3
<1> HIDE DEF had, source
<1>5. /\ new \in Seq(Tracks) /\ Len(new) = k /\ DOMAIN new = 1..k
      /\ \A i, j \in 1..Len(new) : new[i] = new[j] => i = j
      /\ \A i \in 1..Len(new) : new[i] \in Tracks /\ track[new[i]] = Null /\ owner[new[i]] = Null
  <2> HIDE DEF k
  <2>. QED
    BY <1>2, FreshShape
<1>6. /\ order' = [order EXCEPT ![d] = all] /\ order'[d] = all /\ LinkTypes' /\ Strung'
  <2>1. order' = [order EXCEPT ![d] = order[d] \o new] /\ LinkTypes' /\ Strung'
    <3> HIDE DEF k
    <3>. QED
      BY <1>4, <1>5, LinksShape, LinksKeepLists
  <2>2. order'[d] = order[d] \o new
    BY <2>1, Parts DEF LinkTypes
  <2>. QED
    BY <1>2, <2>1, <2>2
<1>7. /\ all \in Seq(Tracks) /\ Len(all) = m + k /\ DOMAIN all = 1..(m + k)
      /\ \A i \in 1..m : all[i] = had[i]
      /\ \A i \in 1..k : all[m + i] = new[i]
      /\ \A i \in 1..(m + k) : i \in 1..m \/ (i - m \in 1..k /\ all[i] = new[i - m])
  <2>1. had \in Seq(Tracks) /\ m \in Nat /\ k \in Nat
    BY <1>2, OrderShape
  <2> HIDE DEF k
  <2>. QED
    BY <1>5, <2>1
<1>8. /\ \A i, j \in 1..(m + k) : all[i] = all[j] => i = j
      /\ m + k <= Cardinality(Tracks)
  <2>1. \A i, j \in 1..Len(order'[d]) : order'[d][i] = order'[d][j] => i = j
    BY <1>6 DEF Strung
  <2> HIDE DEF all, m, k
  <2>. QED
    BY <1>6, <1>7, <2>1, NoMoreThanTracks
<1>9. \A i \in 1..n : i \in 1..(m + k) /\ (i \notin 1..m => i - m \in 1..k)
  <2> HIDE DEF m, n
  <2>. QED
    BY <1>2
<1>10. copied = {all[i] : i \in 1..n}
  BY <1>2
<1> HIDE DEF all, k, m, n, copied
<1>11. \A i \in 1..(m + k) : At(all[i]) = i
  BY <1>7, <1>8
<1>12. ASSUME NEW i \in 1..n
       PROVE  /\ Was(i) = Old(i) /\ Old(i) \in TrackData
              /\ Old(i).num \in 1..Cardinality(Tracks) \cup {-1}
  <2>1. CASE i \in 1..m
    <3>1. i <= m /\ all[i] = had[i] /\ had[i] \in Tracks /\ track[had[i]] # Null
      BY <1>2, <1>7, <2>1, OrderShape, Parts DEF Peopled, m
    <3>. QED
      BY <3>1, DataShape
  <2>2. CASE i \notin 1..m
    <3>1. ~(i <= m) /\ track_cnt[d] + i - m = i /\ i \in 1..Cardinality(Tracks) /\ i \in Nat
      BY <1>2, <1>8, <1>9, <2>2
    <3>2. [NewTrack EXCEPT !.num = i] \in TrackData /\ [NewTrack EXCEPT !.num = i].num = i
      BY <3>1, NewTypes DEF TrackData
    <3>. QED
      BY <3>1, <3>2
  <2>. QED
    BY <2>1, <2>2
<1> HIDE DEF At, Was, Old
<1>13. ASSUME NEW i \in 1..n
       PROVE  /\ all[i] \in Tracks /\ origin'[all[i]] = "given"
              /\ track'[all[i]] = Merged(Old(i), track[source[i]], NewTrack)
              /\ track'[all[i]] \in TrackData
              /\ track'[all[i]].num \in 1..Cardinality(Tracks) \cup {-1}
  <2>1. all[i] \in Tracks /\ all[i] \in copied /\ At(all[i]) = i
    BY <1>7, <1>9, <1>10, <1>11
  <2>2. /\ origin'[all[i]] = "given"
        /\ track'[all[i]] = Merged(Old(i), track[source[i]], NewTrack)
    BY <1>4, <1>12, <2>1
  <2>3. track[source[i]] \in TrackData /\ track[source[i]].num \in 1..Cardinality(Tracks) \cup {-1}
    BY <1>2, OrderShape, DataShape, Parts DEF Peopled, n
  <2>4. /\ Merged(Old(i), track[source[i]], NewTrack) \in TrackData
        /\ Merged(Old(i), track[source[i]], NewTrack).num \in {Old(i).num, track[source[i]].num}
    BY <1>12, <2>3, MergedTypes
  <2>. QED
    BY <1>12, <2>1, <2>2, <2>3, <2>4
<1>14. \A t \in Tracks : (\A i \in 1..n : all[i] # t) =>
         track'[t] = track[t] /\ origin'[t] = Aged(Range(had))[t]
  BY <1>4, <1>10
<1>15. /\ track' \in [Tracks -> TrackData \cup {Null}]
       /\ origin' \in [Tracks -> {"unset", "given", "computed", "old"}]
       /\ \A t \in Tracks : track'[t] # Null => track'[t].num \in 1..Cardinality(Tracks) \cup {-1}
  <2>1. ASSUME NEW t \in Tracks
        PROVE  /\ track'[t] \in TrackData \cup {Null}
               /\ origin'[t] \in {"unset", "given", "computed", "old"}
               /\ track'[t] # Null => track'[t].num \in 1..Cardinality(Tracks) \cup {-1}
    <3>1. CASE \A i \in 1..n : all[i] # t
      <4>1. Aged(Range(had)) \in [Tracks -> {"unset", "given", "computed", "old"}]
        BY AgedType
      <4>. QED
        BY <1>14, <3>1, <4>1, DataShape
    <3>2. CASE \E i \in 1..n : all[i] = t
      <4>1. PICK i \in 1..n : all[i] = t
        BY <3>2
      <4>2. /\ track'[all[i]] \in TrackData /\ origin'[all[i]] = "given"
            /\ track'[all[i]].num \in 1..Cardinality(Tracks) \cup {-1}
        BY <1>13
      <4>. QED
        BY <4>1, <4>2
    <3>. QED
      BY <3>1, <3>2
  <2>2. track' = [t \in Tracks |-> track'[t]] /\ origin' = [t \in Tracks |-> origin'[t]]
    BY <1>4
  <2>. QED
    BY <2>1, <2>2
<1>16. DataTypes'
  <2>1. disc' \in [Discs -> DiscData \cup {Null}]
    BY <1>1, DataShape, MergedTypes
  <2>. QED
    BY <1>1, <1>15, <2>1, Parts DEF DataTypes
<1>17. \A t \in Tracks : track[t] # Null => track'[t] # Null
  <2>1. ASSUME NEW t \in Tracks, track[t] # Null PROVE track'[t] # Null
    <3>1. CASE \A i \in 1..n : all[i] # t
      BY <1>14, <2>1, <3>1
    <3>2. CASE \E i \in 1..n : all[i] = t
      <4>1. PICK i \in 1..n : all[i] = t
        BY <3>2
      <4>2. track'[all[i]] \in TrackData
        BY <1>13
      <4>. QED
        BY <4>1, <4>2, DataShape
    <3>. QED
      BY <3>1, <3>2
  <2>. QED
    BY <2>1
<1>18. \A i \in 1..Len(new) : track'[new[i]] # Null
  <2>1. \A i \in 1..k : m + i \in 1..n /\ all[m + i] = new[i]
    BY <1>2, <1>7 DEF k
  <2>2. \A i \in 1..n : track'[all[i]] # Null
    BY <1>13, DataShape
  <2>. QED
    BY <1>5, <2>1, <2>2
<1>19. disc'[d] # Null /\ \A x \in Discs : disc[x] # Null => disc'[x] # Null
  BY <1>1, DataShape, MergedTypes
<1>20. DiscIInv'
  BY <1>1, <1>4, <1>5, <1>16, <1>17, <1>18, <1>19, JoinKeeps
<1>21. Len(new) = IF Len(order[e]) > Len(order[d]) THEN Len(order[e]) - Len(order[d]) ELSE 0
  BY <1>2, <1>5 DEF k, m, n
<1>22. all = order[d] \o new
  BY <1>2 DEF all
<1>23. ASSUME NEW i \in 1..Len(order[e])
       PROVE  /\ origin'[all[i]] = "given"
              /\ track'[all[i]] = Merged(IF i <= Len(order[d]) THEN track[order[d][i]]
                                          ELSE [NewTrack EXCEPT !.num = i],
                                          track[order[e][i]], NewTrack)
  BY <1>2, <1>13 DEF n, m, Old
<1>24. \A t \in Tracks : (\A i \in 1..Len(order[e]) : all[i] # t) =>
         track'[t] = track[t] /\ origin'[t] = Aged(Range(order[d]))[t]
  BY <1>2, <1>14 DEF n
<1> HIDE DEF m, n
<1>. QED
  BY <1>5, <1>6, <1>15, <1>20, <1>21, <1>22, <1>23, <1>24

----------------------------------------------------------------------------
(* The invariant.                                                          *)

\* In the beginning there are no lists.
LEMMA DiscInit == Init => DiscIInv
<1>. SUFFICES ASSUME Init PROVE DiscIInv
  OBVIOUS
<1>1. <<>> \in Seq(Tracks) /\ Len(<<>>) = 0 /\ 1..0 = {}
  OBVIOUS
<1>2. LinkTypes
  BY <1>1 DEF Init, LinkTypes, TrackPointers
<1>3. DataTypes
  BY BoundAssumption DEF Init, DataTypes, Got, TrackPointers
<1>4. Strung /\ Peopled /\ Unlinked
  BY <1>1 DEF Init, Strung, Peopled, Unlinked
<1>. QED
  BY <1>2, <1>3, <1>4, Parts

\* Every call keeps lists and types.
LEMMA DiscStep ==
  ASSUME DiscIInv, [Next]_discVars
  PROVE  DiscIInv'
<1>1. ASSUME NEW d \in Discs,
             \/ CddbDiscNew(d) \/ CddbDiscDestroy(d) \/ CddbDiscCalcDiscid(d)
             \/ CddbDiscGetTrackFirst(d) \/ CddbDiscGetTrackNext(d)
             \/ \E n \in Indices : CddbDiscGetTrack(d, n)
             \/ \E f \in DOMAIN DiscValues : \E x \in DiscValues[f] :
                  CddbDiscSet(d, f, x) \/ CddbDiscAppend(d, f, x)
             \/ \E x \in DiscValues.genre : CddbDiscSetCategoryStr(d, x[1])
             \/ \E t \in Tracks : CddbDiscAddTrack(d, t)
             \/ \E e \in Discs : CddbDiscClone(d, e) \/ CddbDiscCopy(d, e)
      PROVE  DiscIInv'
  <2>1. CASE CddbDiscDestroy(d)
    BY <2>1, DestroyStep
  <2>2. CASE \/ CddbDiscGetTrackFirst(d) \/ CddbDiscGetTrackNext(d)
             \/ \E n \in Indices : CddbDiscGetTrack(d, n)
    BY <2>2, WalkSteps
  <2>3. CASE \/ CddbDiscNew(d) \/ CddbDiscCalcDiscid(d)
             \/ \E f \in DOMAIN DiscValues : \E x \in DiscValues[f] :
                  CddbDiscSet(d, f, x) \/ CddbDiscAppend(d, f, x)
             \/ \E x \in DiscValues.genre : CddbDiscSetCategoryStr(d, x[1])
    BY <2>3, DiscSteps
  <2>4. CASE \E t \in Tracks : CddbDiscAddTrack(d, t)
    BY <2>4, AddStep
  <2>5. CASE \E e \in Discs : CddbDiscClone(d, e)
    BY <2>5, CloneStep
  <2>6. CASE \E e \in Discs : CddbDiscCopy(d, e)
    BY <2>6, CopyStep
  <2>. QED
    BY <1>1, <2>1, <2>2, <2>3, <2>4, <2>5, <2>6
<1>2. ASSUME NEW t \in Tracks,
             \/ CddbTrackNew(t) \/ CddbTrackDestroy(t) \/ CddbTrackGetLength(t)
             \/ \E f \in TrackTexts : \E x \in TrackValues[f] :
                  CddbTrackSet(t, f, x) \/ CddbTrackAppend(t, f, x)
             \/ \E x \in TrackValues.frame_offset : CddbTrackSetFrameOffset(t, x)
             \/ \E x \in TrackValues.length : CddbTrackSetLength(t, x)
             \/ \E u \in Tracks : CddbTrackClone(t, u) \/ CddbTrackCopy(t, u)
      PROVE  DiscIInv'
  BY <1>2, TrackSteps, LengthSteps
<1>3. ASSUME UNCHANGED discVars PROVE DiscIInv'
  BY <1>3 DEF discVars, links, DiscIInv, DiscTypeOK, Chained, Unlinked
<1>. QED
  BY <1>1, <1>2, <1>3 DEF Next

\* Lists and types are kept for good.
LEMMA DiscAlways == Spec => []DiscIInv
<1>1. DiscIInv /\ [Next]_discVars => DiscIInv'
  BY DiscStep
<1>. QED
  BY <1>1, DiscInit, PTL DEF Spec

\* Whatever is built, set, cloned and copied, the data of discs and tracks keep their
\* types (the getters and setters of cddb_disc.c and cddb_track.c).
THEOREM DiscTypes == Spec => []DiscTypeOK
<1>1. DiscIInv => DiscTypeOK
  BY DEF DiscIInv
<1>. QED
  BY <1>1, DiscAlways, PTL

\* However tracks come to a disc, they are linked in both directions, counted and owned,
\* and no iterator is left behind (cddb_disc_add_track, _clone, _copy, _destroy).
THEOREM ListsStayChained == Spec => []Chained
<1>1. DiscIInv => Chained
  BY DEF DiscIInv
<1>. QED
  BY <1>1, DiscAlways, PTL

----------------------------------------------------------------------------
(* Computed lengths.                                                       *)

\* What LengthFresh says of one place of a disc.
FreshAt(d, i) ==
  origin[order[d][i]] = "computed" =>
    IF i = Len(order[d])
    THEN /\ track[order[d][i]].length > 0
         /\ Seconds(track[order[d][i]].frame_offset) + track[order[d][i]].length = disc[d].length
    ELSE LET apart == track[order[d][i + 1]].frame_offset - track[order[d][i]].frame_offset
         IN /\ 0 < apart /\ track[order[d][i]].length * FramesPerSecond <= apart
            /\ apart < (track[order[d][i]].length + 1) * FramesPerSecond

FreshPlaces == \A d \in Discs : \A i \in 1..Len(order[d]) : FreshAt(d, i)

\* LengthFresh place by place.
LEMMA FreshByPlace == DiscIInv => (LengthFresh <=> FreshPlaces)
<1>1. DiscIInv => \A d \in Discs : DOMAIN order[d] = 1..Len(order[d])
  BY OrderShape
<1>. QED
  BY <1>1 DEF LengthFresh, FreshPlaces, FreshAt

\* A place stays fresh if what its length was computed from stays.
LEMMA StaysFresh ==
  ASSUME NEW d \in Discs, NEW i \in 1..Len(order[d]), FreshAt(d, i),
         order'[d][i] = order[d][i],
         i = Len(order'[d]) <=> i = Len(order[d]),
         i # Len(order[d]) =>
           /\ order'[d][i + 1] = order[d][i + 1]
           /\ track'[order[d][i + 1]].frame_offset = track[order[d][i + 1]].frame_offset,
         i = Len(order[d]) => disc'[d].length = disc[d].length,
         origin[order[d][i]] = "computed",
         track'[order[d][i]].length = track[order[d][i]].length,
         track'[order[d][i]].frame_offset = track[order[d][i]].frame_offset
  PROVE  FreshAt(d, i)'
<1>1. CASE i = Len(order[d])
  BY <1>1 DEF FreshAt
<1>2. CASE i # Len(order[d])
  BY <1>2 DEF FreshAt
<1>. QED
  BY <1>1, <1>2

\* What lies behind a place and in front of it.
LEMMA Places ==
  ASSUME DiscIInv, NEW d \in Discs, NEW i \in 1..Len(order[d])
  PROVE  /\ order[d][i] \in Tracks /\ owner[order[d][i]] = d /\ d # Null
         /\ track[order[d][i]] # Null /\ track[order[d][i]] \in TrackData
         /\ next[order[d][i]] = IF i = Len(order[d]) THEN Null ELSE order[d][i + 1]
         /\ i # Len(order[d]) =>
              /\ i + 1 \in 1..Len(order[d]) /\ order[d][i + 1] \in Tracks
              /\ order[d][i + 1] # order[d][i]
              /\ owner[order[d][i + 1]] = d /\ prev[order[d][i + 1]] = order[d][i]
              /\ track[order[d][i + 1]] \in TrackData
         /\ i = Len(order[d]) => LastOf(d) = order[d][i]
<1>1. \A j \in 1..Len(order[d]) :
        /\ order[d][j] \in Tracks /\ owner[order[d][j]] = d /\ track[order[d][j]] # Null
        /\ track[order[d][j]] \in TrackData
        /\ next[order[d][j]] = IF j = Len(order[d]) THEN Null ELSE order[d][j + 1]
        /\ prev[order[d][j]] = IF j = 1 THEN Null ELSE order[d][j - 1]
  BY OrderShape, DataShape, Parts DEF Strung, Peopled
<1>2. i # Len(order[d]) => i + 1 \in 1..Len(order[d]) /\ i + 1 # 1 /\ i + 1 - 1 = i
  BY OrderShape
<1>3. i # Len(order[d]) => order[d][i + 1] # order[d][i]
  BY <1>2, OrderShape
<1>4. i = Len(order[d]) => LastOf(d) = order[d][i]
  BY LastShape
<1>5. d # Null
  BY NullAssumption
<1>. QED
  BY <1>1, <1>2, <1>3, <1>4, <1>5

\* A step that leaves the tracks of the discs, and ages the lengths that it outdates,
\* keeps the others fresh.
LEMMA KeepsFresh ==
  ASSUME DiscIInv, DiscIInv', LengthFresh, order' = order,
         \A t \in Tracks : owner[t] # Null /\ origin'[t] = "computed" =>
           /\ origin[t] = "computed"
           /\ track'[t].length = track[t].length
           /\ track'[t].frame_offset = track[t].frame_offset,
         \A t \in Tracks : owner[t] # Null /\ prev[t] # Null /\ origin'[prev[t]] = "computed" =>
           track'[t].frame_offset = track[t].frame_offset,
         \A d \in Discs : LastOf(d) # Null /\ origin'[LastOf(d)] = "computed" =>
           disc'[d].length = disc[d].length
  PROVE  LengthFresh'
<1>1. ASSUME NEW d \in Discs, NEW i \in 1..Len(order[d])
      PROVE  FreshAt(d, i)'
  <2>1. CASE origin'[order[d][i]] # "computed"
    BY <2>1 DEF FreshAt
  <2>2. CASE origin'[order[d][i]] = "computed"
    <3>1. /\ order[d][i] \in Tracks /\ owner[order[d][i]] = d /\ d # Null
          /\ i # Len(order[d]) => /\ order[d][i + 1] \in Tracks /\ owner[order[d][i + 1]] = d
                                  /\ prev[order[d][i + 1]] = order[d][i]
          /\ i = Len(order[d]) => LastOf(d) = order[d][i]
      BY Places
    <3>2. order[d][i] # Null
      BY <3>1, NullAssumption
    <3>3. /\ origin[order[d][i]] = "computed"
          /\ track'[order[d][i]].length = track[order[d][i]].length
          /\ track'[order[d][i]].frame_offset = track[order[d][i]].frame_offset
      BY <2>2, <3>1
    <3>4. i # Len(order[d]) =>
            track'[order[d][i + 1]].frame_offset = track[order[d][i + 1]].frame_offset
      BY <2>2, <3>1, <3>2
    <3>5. i = Len(order[d]) => disc'[d].length = disc[d].length
      BY <2>2, <3>1, <3>2
    <3>6. FreshAt(d, i)
      BY FreshByPlace DEF FreshPlaces
    <3>. QED
      BY <3>3, <3>4, <3>5, <3>6, StaysFresh
  <2>. QED
    BY <2>1, <2>2
<1>2. FreshPlaces'
  BY <1>1 DEF FreshPlaces
<1>. QED
  BY <1>2, FreshByPlace, PTL

\* What is not aged is as it was.
LEMMA AgedIs ==
  ASSUME NEW changed, NEW t \in Tracks, Aged(changed)[t] = "computed"
  PROVE  origin[t] = "computed" /\ t \notin changed
  BY DEF Aged

\* A change of one disc, which ages the length of its last track if it changes its own.
LEMMA FreshDiscChange ==
  ASSUME DiscIInv, DiscIInv', LengthFresh, NEW d \in Discs, UNCHANGED <<track, links>>,
         \A e \in Discs \ {d} : disc'[e] = disc[e],
         \A t \in Tracks : origin'[t] = "computed" => origin[t] = "computed",
         \/ disc'[d].length = disc[d].length
         \/ LastOf(d) = Null
         \/ origin'[LastOf(d)] # "computed"
  PROVE  LengthFresh'
<1>1. order' = order /\ track' = track
  BY DEF links
<1>2. \A e \in Discs : LastOf(e) # Null /\ origin'[LastOf(e)] = "computed" =>
        disc'[e].length = disc[e].length
  OBVIOUS
<1>. QED
  BY <1>1, <1>2, KeepsFresh

\* A change of one track, which ages its length and the length of the track in front of it
\* if it changes its offset.
LEMMA FreshTrackChange ==
  ASSUME DiscIInv, DiscIInv', LengthFresh, NEW t \in Tracks, UNCHANGED <<disc, links>>,
         \A u \in Tracks \ {t} : track'[u] = track[u],
         \A u \in Tracks : owner[u] # Null /\ origin'[u] = "computed" => origin[u] = "computed",
         \/ owner[t] = Null
         \/ /\ track'[t].frame_offset = track[t].frame_offset
            /\ track'[t].length = track[t].length \/ origin'[t] # "computed"
         \/ /\ origin'[t] # "computed"
            /\ prev[t] # Null => origin'[prev[t]] # "computed"
  PROVE  LengthFresh'
<1>1. order' = order /\ disc' = disc
  BY DEF links
<1>2. \A u \in Tracks : owner[u] # Null /\ origin'[u] = "computed" =>
        /\ origin[u] = "computed"
        /\ track'[u].length = track[u].length
        /\ track'[u].frame_offset = track[u].frame_offset
  OBVIOUS
<1>3. \A u \in Tracks : owner[u] # Null /\ prev[u] # Null /\ origin'[prev[u]] = "computed" =>
        track'[u].frame_offset = track[u].frame_offset
  OBVIOUS
<1>. QED
  BY <1>1, <1>2, <1>3, KeepsFresh

\* A structure that is not there is on no disc and has no tracks.
LEMMA NotThere ==
  ASSUME DiscIInv
  PROVE  /\ \A t \in Tracks : track[t] = Null => owner[t] = Null
         /\ \A d \in Discs : disc[d] = Null => Len(order[d]) = 0 /\ LastOf(d) = Null
<1>1. \A t \in Tracks : owner[t] # Null => track[t] # Null
  BY Neighbours, DataShape
<1>2. ASSUME NEW d \in Discs, disc[d] = Null PROVE Len(order[d]) = 0 /\ LastOf(d) = Null
  <2>1. Len(order[d]) # 0 => 1 \in 1..Len(order[d])
    BY OrderShape
  <2>2. 1 \in 1..Len(order[d]) => disc[d] # Null
    BY OrderShape, NullAssumption, Parts DEF Strung, Peopled
  <2>. QED
    BY <1>2, <2>1, <2>2, LastShape
<1>. QED
  BY <1>1, <1>2

\* The calls that change a disc keep lengths fresh.
LEMMA FreshDiscSteps ==
  ASSUME DiscIInv, DiscIInv', LengthFresh, NEW d \in Discs
  PROVE  /\ CddbDiscNew(d) => LengthFresh'
         /\ \A f \in DOMAIN DiscValues : \A x \in DiscValues[f] :
              /\ CddbDiscSet(d, f, x) => LengthFresh'
              /\ CddbDiscAppend(d, f, x) => LengthFresh'
         /\ \A x : CddbDiscSetCategoryStr(d, x) => LengthFresh'
         /\ CddbDiscCalcDiscid(d) => LengthFresh'
<1>0. disc \in [Discs -> DiscData \cup {Null}] /\ (disc[d] # Null => disc[d] \in DiscData)
  BY DataShape
<1>1. ASSUME CddbDiscNew(d) PROVE LengthFresh'
  <2>1. LastOf(d) = Null /\ UNCHANGED <<track, links, origin>>
        /\ \A e \in Discs \ {d} : disc'[e] = disc[e]
    BY <1>0, <1>1, NotThere DEF CddbDiscNew
  <2>. QED
    BY <2>1, FreshDiscChange
<1>2. ASSUME NEW f \in DOMAIN DiscValues, NEW x \in DiscValues[f], CddbDiscSet(d, f, x)
      PROVE  LengthFresh'
  <2>1. UNCHANGED <<track, links>> /\ \A e \in Discs \ {d} : disc'[e] = disc[e]
    BY <1>0, <1>2 DEF CddbDiscSet
  <2>2. CASE f = "length"
    <3>1. origin' = Aged({LastOf(d)})
      BY <1>2, <2>2 DEF CddbDiscSet
    <3>2. \A t \in Tracks : origin'[t] = "computed" => origin[t] = "computed"
      BY <3>1, AgedIs
    <3>3. LastOf(d) # Null => LastOf(d) \in Tracks
      BY OrderShape, LastShape
    <3>4. LastOf(d) # Null => origin'[LastOf(d)] # "computed"
      BY <3>1, <3>3, AgedIs
    <3>. QED
      BY <2>1, <3>2, <3>4, FreshDiscChange
  <2>3. CASE f # "length"
    <3>1. origin' = origin /\ disc'[d].length = disc[d].length
      BY <1>0, <1>2, <2>3 DEF CddbDiscSet, DiscData
    <3>. QED
      BY <2>1, <3>1, FreshDiscChange
  <2>. QED
    BY <2>2, <2>3
<1>3. ASSUME NEW f \in DOMAIN DiscValues, NEW x \in DiscValues[f], CddbDiscAppend(d, f, x)
      PROVE  LengthFresh'
  <2>1. /\ UNCHANGED <<track, links, origin>> /\ \A e \in Discs \ {d} : disc'[e] = disc[e]
        /\ disc'[d].length = disc[d].length
    <3>1. f # "length"
      BY <1>3 DEF CddbDiscAppend, DiscTexts
    <3>. QED
      BY <1>0, <1>3, <3>1 DEF CddbDiscAppend, DiscData
  <2>. QED
    BY <2>1, FreshDiscChange
<1>4. ASSUME NEW x, CddbDiscSetCategoryStr(d, x) PROVE LengthFresh'
  <2>1. /\ UNCHANGED <<track, links, origin>> /\ \A e \in Discs \ {d} : disc'[e] = disc[e]
        /\ disc'[d].length = disc[d].length
    BY <1>0, <1>4 DEF CddbDiscSetCategoryStr, DiscData
  <2>. QED
    BY <2>1, FreshDiscChange
<1>5. ASSUME CddbDiscCalcDiscid(d) PROVE LengthFresh'
  <2>1. PICK id : disc' = [disc EXCEPT ![d].discid = id]
    BY <1>5 DEF CddbDiscCalcDiscid
  <2>2. /\ UNCHANGED <<track, links, origin>> /\ \A e \in Discs \ {d} : disc'[e] = disc[e]
        /\ disc'[d].length = disc[d].length
    BY <1>0, <1>5, <2>1 DEF CddbDiscCalcDiscid, DiscData
  <2>. QED
    BY <2>2, FreshDiscChange
<1>. QED
  BY <1>1, <1>2, <1>3, <1>4, <1>5

\* The calls that make or change a track, other than those that give it a length, keep
\* lengths fresh.
LEMMA FreshTrackSteps ==
  ASSUME DiscIInv, DiscIInv', LengthFresh, NEW t \in Tracks
  PROVE  /\ CddbTrackNew(t) => LengthFresh'
         /\ CddbTrackDestroy(t) => LengthFresh'
         /\ \A u \in Tracks : CddbTrackClone(t, u) => LengthFresh'
         /\ \A f, x : CddbTrackSet(t, f, x) => LengthFresh'
         /\ \A f, x : CddbTrackAppend(t, f, x) => LengthFresh'
         /\ \A x : CddbTrackSetFrameOffset(t, x) => LengthFresh'
         /\ \A u \in Tracks : CddbTrackCopy(t, u) => LengthFresh'
<1>0. /\ track \in [Tracks -> TrackData \cup {Null}] /\ (track[t] # Null => track[t] \in TrackData)
      /\ origin \in [Tracks -> {"unset", "given", "computed", "old"}]
      /\ prev[t] # Null => prev[t] \in Tracks
  BY DataShape, Neighbours
<1>1. ASSUME CddbTrackNew(t) \/ CddbTrackDestroy(t) \/ \E u \in Tracks : CddbTrackClone(t, u)
      PROVE  LengthFresh'
  <2>1. owner[t] = Null
    BY <1>1, NotThere DEF CddbTrackNew, CddbTrackDestroy, CddbTrackClone
  <2>2. /\ UNCHANGED <<disc, links>> /\ \A u \in Tracks \ {t} : track'[u] = track[u]
        /\ \A u \in Tracks : origin'[u] = "computed" => origin[u] = "computed"
    BY <1>0, <1>1 DEF CddbTrackNew, CddbTrackDestroy, CddbTrackClone
  <2>. QED
    BY <2>1, <2>2, FreshTrackChange
<1>2. ASSUME NEW f, NEW x, CddbTrackSet(t, f, x) \/ CddbTrackAppend(t, f, x) PROVE LengthFresh'
  <2>1. PICK y : track' = [track EXCEPT ![t][f] = y] /\ f \in TrackTexts
    BY <1>2 DEF CddbTrackSet, CddbTrackAppend
  <2>2. /\ UNCHANGED <<disc, links, origin>> /\ \A u \in Tracks \ {t} : track'[u] = track[u]
        /\ track[t] \in TrackData
    BY <1>0, <1>2, <2>1 DEF CddbTrackSet, CddbTrackAppend
  <2>3. /\ track'[t].frame_offset = track[t].frame_offset
        /\ track'[t].length = track[t].length
    BY <1>0, <2>1, <2>2 DEF TrackTexts, TrackData
  <2>. QED
    BY <2>2, <2>3, FreshTrackChange
<1>3. ASSUME \/ \E x : CddbTrackSetFrameOffset(t, x)
             \/ \E u \in Tracks : CddbTrackCopy(t, u)
      PROVE  LengthFresh'
  <2>1. \/ origin' = Aged({t, prev[t]})
        \/ origin' = [Aged({t, prev[t]}) EXCEPT ![t] = "given"]
    BY <1>3 DEF CddbTrackSetFrameOffset, CddbTrackCopy
  <2>2. Aged({t, prev[t]}) \in [Tracks -> {"unset", "given", "computed", "old"}]
    BY AgedType
  <2>3. \A u \in Tracks : origin'[u] = "computed" => Aged({t, prev[t]})[u] = "computed"
    BY <2>1, <2>2
  <2>4. \A u \in Tracks : origin'[u] = "computed" => origin[u] = "computed" /\ u \notin {t, prev[t]}
    BY <2>3, AgedIs
  <2>5. UNCHANGED <<disc, links>> /\ \A u \in Tracks \ {t} : track'[u] = track[u]
    BY <1>0, <1>3 DEF CddbTrackSetFrameOffset, CddbTrackCopy
  <2>6. origin'[t] # "computed" /\ (prev[t] # Null => origin'[prev[t]] # "computed")
    BY <1>0, <2>4
  <2>. QED
    BY <2>4, <2>5, <2>6, FreshTrackChange
<1>. QED
  BY <1>1, <1>2, <1>3

\* The length that cddb_track_get_length computes is the time to the next track or to the
\* end of the disc.
LEMMA ComputedIsFresh ==
  ASSUME DiscIInv, NEW d \in Discs, NEW i \in 1..Len(order[d]),
         LengthFromOffsets(order[d][i]) # -1
  PROVE  LET t == order[d][i]
             n == LengthFromOffsets(t)
             apart == track[order[d][i + 1]].frame_offset - track[t].frame_offset
         IN IF i = Len(order[d])
            THEN n > 0 /\ Seconds(track[t].frame_offset) + n = disc[d].length
            ELSE 0 < apart /\ n * FramesPerSecond <= apart /\ apart < (n + 1) * FramesPerSecond
<1> DEFINE t == order[d][i]
           start == track[t].frame_offset
           end   == track[order[d][i + 1]].frame_offset
           total == disc[d].length
           n == LengthFromOffsets(t)
<1>1. start \in Int /\ start >= -1
  BY Places DEF TrackData
<1>2. Seconds(start) \in Nat
  <2> HIDE DEF start
  <2>. QED
    BY <1>1, SecondsType
<1>3. CASE i = Len(order[d])
  <2>1. next[t] = Null /\ owner[t] = d /\ d # Null
    BY <1>3, Places
  <2>2. n = IF total > Seconds(start) THEN total - Seconds(start) ELSE -1
    BY <2>1 DEF LengthFromOffsets
  <2>3. total \in Nat
    BY <2>1, Neighbours, Places DEF DiscData
  <2>4. n > 0 /\ Seconds(start) + n = total
    <3>1. n # -1
      OBVIOUS
    <3> HIDE DEF n, start, total
    <3>. QED
      BY <1>2, <2>2, <2>3, <3>1
  <2>. QED
    BY <1>3, <2>4
<1>4. CASE i # Len(order[d])
  <2>1. next[t] = order[d][i + 1] /\ next[t] # Null /\ end \in Int
    BY <1>4, Places, NullAssumption DEF TrackData
  <2>2. n = IF end > start THEN Seconds(end - start) ELSE -1
    BY <2>1 DEF LengthFromOffsets
  <2>3. 0 < end - start /\ n * 75 <= end - start /\ end - start < (n + 1) * 75
    <3>1. n # -1
      OBVIOUS
    <3> HIDE DEF n, start, end
    <3>2. end > start /\ n = Seconds(end - start) /\ end - start \in Nat
      BY <1>1, <2>1, <2>2, <3>1
    <3>3. \A m \in Nat : Seconds(m) * 75 <= m /\ m < (Seconds(m) + 1) * 75
      BY DEF Seconds, FramesPerSecond
    <3>4. Seconds(end - start) * 75 <= end - start /\ end - start < (Seconds(end - start) + 1) * 75
      BY <3>2, <3>3
    <3>5. 0 < end - start
      BY <1>1, <2>1, <3>2
    <3>. QED
      BY <3>2, <3>4, <3>5
  <2>. QED
    BY <1>4, <2>3 DEF FramesPerSecond
<1>. QED
  BY <1>3, <1>4

\* The calls that give a track a length keep lengths fresh.
LEMMA FreshLengthSteps ==
  ASSUME DiscIInv, DiscIInv', LengthFresh, NEW t \in Tracks
  PROVE  /\ CddbTrackGetLength(t) => LengthFresh'
         /\ \A x : CddbTrackSetLength(t, x) => LengthFresh'
<1>0. /\ track \in [Tracks -> TrackData \cup {Null}] /\ (track[t] # Null => track[t] \in TrackData)
      /\ origin \in [Tracks -> {"unset", "given", "computed", "old"}]
      /\ prev[t] # Null => prev[t] \in Tracks
  BY DataShape, Neighbours
<1>1. ASSUME CddbTrackGetLength(t) PROVE LengthFresh'
  <2> DEFINE n == LengthFromOffsets(t)
  <2>1. /\ track[t] # Null /\ track[t].length = -1 /\ track[t] \in TrackData
        /\ track' = [track EXCEPT ![t].length = n]
        /\ origin' = IF track'[t].length = -1 THEN origin ELSE [origin EXCEPT ![t] = "computed"]
        /\ UNCHANGED <<disc, links>>
    BY <1>0, <1>1 DEF CddbTrackGetLength
  <2> HIDE DEF n
  <2>2. /\ \A u \in Tracks \ {t} : track'[u] = track[u]
        /\ track'[t].length = n /\ track'[t].frame_offset = track[t].frame_offset
    BY <1>0, <2>1 DEF TrackData
  <2>3. CASE n = -1
    BY <2>1, <2>2, <2>3, FreshTrackChange
  <2>4. CASE n # -1
    <3>1. /\ origin'[t] = "computed" /\ \A u \in Tracks \ {t} : origin'[u] = origin[u]
          /\ order' = order /\ disc' = disc
      BY <1>0, <2>1, <2>2, <2>4 DEF links
    <3>2. ASSUME NEW d \in Discs, NEW i \in 1..Len(order[d]) PROVE FreshAt(d, i)'
      <4>1. /\ order[d][i] \in Tracks
            /\ i # Len(order[d]) => /\ order[d][i + 1] \in Tracks
                                    /\ order[d][i + 1] # order[d][i]
        BY Places
      <4>2. i # Len(order[d]) =>
              track'[order[d][i + 1]].frame_offset = track[order[d][i + 1]].frame_offset
        BY <2>2, <4>1
      <4>3. CASE order[d][i] = t
        <5>1. LengthFromOffsets(order[d][i]) # -1
          BY <2>4, <4>3 DEF n
        <5>2. CASE i = Len(order[d])
          <6>1. n > 0 /\ Seconds(track[t].frame_offset) + n = disc[d].length
            BY <4>3, <5>1, <5>2, ComputedIsFresh DEF n
          <6>. QED
            BY <2>2, <3>1, <4>3, <5>2, <6>1 DEF FreshAt
        <5>3. CASE i # Len(order[d])
          <6> DEFINE apart == track[order[d][i + 1]].frame_offset - track[t].frame_offset
          <6>1. 0 < apart /\ n * FramesPerSecond <= apart /\ apart < (n + 1) * FramesPerSecond
            BY <4>3, <5>1, <5>3, ComputedIsFresh DEF n
          <6>2. apart = track'[order[d][i + 1]].frame_offset - track'[t].frame_offset
            BY <2>2, <4>2, <5>3
          <6>. QED
            BY <2>2, <3>1, <4>3, <5>3, <6>1, <6>2 DEF FreshAt
        <5>. QED
          BY <5>2, <5>3
      <4>4. CASE order[d][i] # t /\ origin[order[d][i]] = "computed"
        <5>1. FreshAt(d, i)
          BY FreshByPlace DEF FreshPlaces
        <5>2. track'[order[d][i]] = track[order[d][i]]
          BY <2>2, <4>1, <4>4
        <5>. QED
          BY <3>1, <4>2, <4>4, <5>1, <5>2, StaysFresh
      <4>5. CASE order[d][i] # t /\ origin[order[d][i]] # "computed"
        BY <3>1, <4>1, <4>5 DEF FreshAt
      <4>. QED
        BY <4>3, <4>4, <4>5
    <3>3. FreshPlaces'
      BY <3>1, <3>2 DEF FreshPlaces
    <3>. QED
      BY <3>3, FreshByPlace, PTL
  <2>. QED
    BY <2>3, <2>4
<1>2. ASSUME NEW x, CddbTrackSetLength(t, x) PROVE LengthFresh'
  <2> DEFINE same == track'[t].frame_offset = track[t].frame_offset
             changed == IF same THEN {} ELSE {prev[t]}
  <2>1. UNCHANGED <<disc, links>> /\ origin' = [Aged(changed) EXCEPT ![t] = "given"]
    BY <1>2 DEF CddbTrackSetLength
  <2>2. \A u \in Tracks \ {t} : track'[u] = track[u]
    BY <1>0, <1>2 DEF CddbTrackSetLength
  <2>3. Aged(changed) \in [Tracks -> {"unset", "given", "computed", "old"}]
    BY AgedType
  <2>4. \A u \in Tracks : origin'[u] = "computed" =>
          u # t /\ origin[u] = "computed" /\ u \notin changed
    <3>1. \A u \in Tracks : origin'[u] = "computed" => u # t /\ Aged(changed)[u] = "computed"
      BY <2>1, <2>3
    <3> HIDE DEF changed
    <3>. QED
      BY <3>1, AgedIs
  <2>5. CASE same
    BY <2>1, <2>2, <2>4, <2>5, FreshTrackChange
  <2>6. CASE ~same
    <3>1. origin'[t] # "computed" /\ (prev[t] # Null => origin'[prev[t]] # "computed")
      BY <1>0, <2>4, <2>6
    <3>. QED
      BY <2>1, <2>2, <2>4, <3>1, FreshTrackChange
  <2>. QED
    BY <2>5, <2>6
<1>. QED
  BY <1>1, <1>2

\* A call that changes the tracks of one disc leaves the lengths of the others fresh.
LEMMA FreshElsewhere ==
  ASSUME DiscIInv, DiscIInv', LengthFresh, NEW d \in Discs,
         \A e \in Discs \ {d} : order'[e] = order[e] /\ disc'[e] = disc[e],
         \A e \in Discs \ {d} : \A i \in 1..Len(order[e]) :
           /\ track'[order[e][i]] = track[order[e][i]]
           /\ origin'[order[e][i]] = "computed" => origin[order[e][i]] = "computed",
         \A i \in 1..Len(order'[d]) : FreshAt(d, i)'
  PROVE  LengthFresh'
<1>1. ASSUME NEW e \in Discs \ {d}, NEW i \in 1..Len(order[e]) PROVE FreshAt(e, i)'
  <2>1. CASE origin'[order[e][i]] # "computed"
    BY <2>1 DEF FreshAt
  <2>2. CASE origin'[order[e][i]] = "computed"
    <3>1. i # Len(order[e]) => i + 1 \in 1..Len(order[e])
      BY Places
    <3>2. i # Len(order[e]) => track'[order[e][i + 1]] = track[order[e][i + 1]]
      BY <3>1
    <3>3. FreshAt(e, i)
      BY FreshByPlace DEF FreshPlaces
    <3>. QED
      BY <2>2, <3>2, <3>3, StaysFresh
  <2>. QED
    BY <2>1, <2>2
<1>2. FreshPlaces'
  BY <1>1 DEF FreshPlaces
<1>. QED
  BY <1>2, FreshByPlace, PTL

\* Adding a track to a disc, which ages the length of the one that was the last, keeps
\* lengths fresh.
LEMMA FreshAddStep ==
  ASSUME DiscIInv, LengthFresh, NEW d \in Discs, NEW t \in Tracks, CddbDiscAddTrack(d, t)
  PROVE  LengthFresh'
<1>1. /\ DiscIInv' /\ order' = [order EXCEPT ![d] = Append(order[d], t)]
      /\ track' = [track EXCEPT ![t] = [track[t] EXCEPT !.num = Len(order[d]) + 1]]
  BY AddStep
<1>2. owner[t] = Null /\ track[t] \in TrackData /\ origin' = Aged({LastOf(d), t}) /\ disc' = disc
  BY DataShape DEF CddbDiscAddTrack
<1>3. \A u \in Tracks : origin'[u] = "computed" =>
        origin[u] = "computed" /\ u # t /\ u # LastOf(d)
  BY <1>2, AgedIs
<1>4. \A e \in Discs : \A i \in 1..Len(order[e]) :
        /\ order[e][i] \in Tracks /\ order[e][i] # t
        /\ track'[order[e][i]] = track[order[e][i]]
  BY <1>1, <1>2, DataShape, Places
<1>5. ASSUME NEW i \in 1..Len(order'[d]) PROVE FreshAt(d, i)'
  <2>1. /\ order'[d] = Append(order[d], t) /\ Len(order'[d]) = Len(order[d]) + 1
        /\ Len(order[d]) \in Nat
        /\ \A j \in 1..Len(order[d]) : order'[d][j] = order[d][j]
        /\ order'[d][Len(order[d]) + 1] = t
    BY <1>1, OrderShape, Parts DEF LinkTypes
  <2>2. CASE i \in 1..Len(order[d]) /\ i # Len(order[d]) /\ origin'[order[d][i]] = "computed"
    <3>1. /\ i + 1 \in 1..Len(order[d]) /\ order'[d][i] = order[d][i]
          /\ order'[d][i + 1] = order[d][i + 1]
          /\ i # Len(order'[d])
      BY <2>1, <2>2
    <3>2. /\ origin[order[d][i]] = "computed"
          /\ track'[order[d][i]] = track[order[d][i]]
          /\ track'[order[d][i + 1]] = track[order[d][i + 1]]
      BY <1>3, <1>4, <2>2, <3>1
    <3>3. FreshAt(d, i)
      BY <2>2, FreshByPlace DEF FreshPlaces
    <3>. QED
      BY <2>2, <3>1, <3>2, <3>3, StaysFresh
  <2>3. CASE i \in 1..Len(order[d]) /\ i = Len(order[d])
    <3>1. order'[d][i] = LastOf(d) /\ order'[d][i] \in Tracks
      BY <1>4, <2>1, <2>3, Places
    <3>. QED
      BY <1>3, <3>1 DEF FreshAt
  <2>4. CASE i \in 1..Len(order[d]) /\ origin'[order[d][i]] # "computed"
    BY <2>1, <2>4 DEF FreshAt
  <2>5. CASE i = Len(order[d]) + 1
    BY <1>3, <2>1, <2>5 DEF FreshAt
  <2>6. i \in 1..Len(order[d]) \/ i = Len(order[d]) + 1
    BY <2>1
  <2>. QED
    BY <2>2, <2>3, <2>4, <2>5, <2>6
<1>6. \A e \in Discs \ {d} : order'[e] = order[e] /\ disc'[e] = disc[e]
  BY <1>1, <1>2, Parts DEF LinkTypes
<1>7. \A e \in Discs : \A i \in 1..Len(order[e]) :
        origin'[order[e][i]] = "computed" => origin[order[e][i]] = "computed"
  BY <1>3, <1>4
<1>. QED
  BY <1>1, <1>4, <1>5, <1>6, <1>7, FreshElsewhere

\* Destroying, cloning and copying a disc keep lengths fresh.
LEMMA FreshWholeSteps ==
  ASSUME DiscIInv, LengthFresh, NEW d \in Discs
  PROVE  /\ CddbDiscDestroy(d) => LengthFresh'
         /\ \A e \in Discs : CddbDiscClone(d, e) => LengthFresh'
         /\ \A e \in Discs : CddbDiscCopy(d, e) => LengthFresh'
<1>0. /\ disc \in [Discs -> DiscData \cup {Null}] /\ order \in [Discs -> Seq(Tracks)]
      /\ \A e \in Discs : \A i \in 1..Len(order[e]) :
           order[e][i] \in Tracks /\ owner[order[e][i]] = e /\ track[order[e][i]] # Null
  BY Places, Parts DEF LinkTypes, DataTypes
<1>1. ASSUME CddbDiscDestroy(d) PROVE LengthFresh'
  <2>1. /\ DiscIInv'
        /\ track' = [t \in Tracks |-> IF \E i \in 1..Len(order[d]) : order[d][i] = t
                                      THEN Null ELSE track[t]]
    BY <1>1, DestroyStep
  <2>2. /\ order' = [order EXCEPT ![d] = <<>>] /\ disc' = [disc EXCEPT ![d] = Null]
        /\ order'[d] = <<>>
    BY <1>0, <1>1 DEF CddbDiscDestroy
  <2>3. \A t \in Tracks : origin'[t] = "computed" => origin[t] = "computed"
    BY <1>1 DEF CddbDiscDestroy
  <2>4. ASSUME NEW e \in Discs \ {d}, NEW i \in 1..Len(order[e])
        PROVE  /\ track'[order[e][i]] = track[order[e][i]]
               /\ origin'[order[e][i]] = "computed" => origin[order[e][i]] = "computed"
    <3>1. ~ \E j \in 1..Len(order[d]) : order[d][j] = order[e][i]
      BY <1>0
    <3>. QED
      BY <1>0, <2>1, <2>3, <3>1
  <2>5. \A i \in 1..Len(order'[d]) : FreshAt(d, i)'
    <3>1. 1..Len(order'[d]) = {}
      BY <2>2
    <3>. QED
      BY <3>1
  <2>6. \A e \in Discs \ {d} : order'[e] = order[e] /\ disc'[e] = disc[e]
    BY <1>0, <2>2
  <2>. QED
    BY <2>1, <2>4, <2>5, <2>6, FreshElsewhere
<1>2. ASSUME NEW e \in Discs, CddbDiscClone(d, e) PROVE LengthFresh'
  <2>1. DiscIInv' /\ order[d] = <<>>
    BY <1>2, CloneStep
  <2>2. PICK new \in Seq(Tracks) :
          /\ \A i \in 1..Len(new) : track[new[i]] = Null /\ new[i] \in Tracks
          /\ order' = [order EXCEPT ![d] = new]
          /\ \A t \in Tracks : (\A i \in 1..Len(new) : new[i] # t) => track'[t] = track[t]
          /\ \A i \in 1..Len(new) : origin'[new[i]] = "given"
          /\ \A t \in Tracks : (\A i \in 1..Len(new) : new[i] # t) => origin'[t] = origin[t]
    BY <1>2, CloneStep
  <2>3. order'[d] = new /\ \A x \in Discs \ {d} : order'[x] = order[x] /\ disc'[x] = disc[x]
    BY <1>0, <1>2, <2>2 DEF CddbDiscClone
  <2>4. ASSUME NEW x \in Discs \ {d}, NEW i \in 1..Len(order[x])
        PROVE  track'[order[x][i]] = track[order[x][i]] /\ origin'[order[x][i]] = origin[order[x][i]]
    <3>1. order[x][i] \in Tracks /\ \A j \in 1..Len(new) : new[j] # order[x][i]
      BY <1>0, <2>2
    <3>. QED
      BY <2>2, <3>1
  <2>5. \A i \in 1..Len(order'[d]) : FreshAt(d, i)'
    BY <2>2, <2>3 DEF FreshAt
  <2>. QED
    BY <2>1, <2>3, <2>4, <2>5, FreshElsewhere
<1>3. ASSUME NEW e \in Discs, CddbDiscCopy(d, e) PROVE LengthFresh'
  <2>1. DiscIInv'
    BY <1>3, CopyStep
  <2>2. PICK new \in Seq(Tracks) :
          LET all == order[d] \o new
              Old(i) == IF i <= Len(order[d]) THEN track[order[d][i]]
                        ELSE [NewTrack EXCEPT !.num = i]
          IN /\ Len(new) = IF Len(order[e]) > Len(order[d]) THEN Len(order[e]) - Len(order[d])
                            ELSE 0
             /\ \A i, j \in 1..Len(new) : new[i] = new[j] => i = j
             /\ \A i \in 1..Len(new) : track[new[i]] = Null /\ new[i] \in Tracks
             /\ order' = [order EXCEPT ![d] = all]
             /\ \A i \in 1..Len(order[e]) :
                  /\ track'[all[i]] = Merged(Old(i), track[order[e][i]], NewTrack)
                  /\ origin'[all[i]] = "given"
             /\ \A t \in Tracks : (\A i \in 1..Len(order[e]) : all[i] # t) =>
                  /\ track'[t] = track[t]
                  /\ origin'[t] = Aged(Range(order[d]))[t]
             /\ track' \in [Tracks -> TrackData \cup {Null}]
    BY <1>3, CopyStep
  <2> DEFINE all == order[d] \o new
             n == Len(order[e])
             m == Len(order[d])
             k == Len(new)
  <2>3. order'[d] = all /\ \A x \in Discs \ {d} : order'[x] = order[x] /\ disc'[x] = disc[x]
    BY <1>0, <1>3, <2>2 DEF CddbDiscCopy
  <2>4. /\ m \in Nat /\ n \in Nat /\ k \in Nat /\ Len(all) = m + k
        /\ \A i \in 1..m : all[i] = order[d][i]
        /\ \A i \in 1..k : all[m + i] = new[i]
    BY <1>0
  <2>5. /\ k = IF n > m THEN n - m ELSE 0
        /\ \A i \in 1..k : track[new[i]] = Null /\ new[i] \in Tracks
        /\ \A i \in 1..n : origin'[all[i]] = "given"
        /\ \A t \in Tracks : (\A i \in 1..n : all[i] # t) =>
             track'[t] = track[t] /\ origin'[t] = Aged(Range(order[d]))[t]
    BY <2>2
  <2> HIDE DEF all, n, m, k
  <2>6. \A i \in 1..Len(all) : i \in 1..m \/ (i - m \in 1..k /\ m + (i - m) = i)
    BY <2>4
  <2>7. \A i \in 1..n : i \in 1..Len(all)
    BY <2>4, <2>5
  <2>8. \A i \in 1..Len(all) : i \in 1..n \/ i \in 1..m
    BY <2>4, <2>5
  <2>9. \A i \in 1..Len(all) :
           \/ i \in 1..m /\ all[i] = order[d][i]
           \/ i - m \in 1..k /\ all[i] = new[i - m]
    <3>1. \A i \in 1..Len(all) : i - m \in 1..k => all[i] = new[i - m]
      BY <2>4, <2>6
    <3>. QED
      BY <2>4, <2>6, <3>1
  <2>10. ASSUME NEW x \in Discs \ {d}, NEW i \in 1..Len(order[x])
        PROVE  /\ track'[order[x][i]] = track[order[x][i]]
               /\ origin'[order[x][i]] = "computed" => origin[order[x][i]] = "computed"
    <3>1. \A j \in 1..Len(all) : all[j] # order[x][i]
      <4>1. \A j \in 1..m : order[d][j] # order[x][i]
        BY <1>0 DEF m
      <4>2. \A j \in 1..k : new[j] # order[x][i]
        BY <1>0, <2>5
      <4>. QED
        BY <2>9, <4>1, <4>2
    <3>2. /\ track'[order[x][i]] = track[order[x][i]] /\ order[x][i] \in Tracks
          /\ origin'[order[x][i]] = Aged(Range(order[d]))[order[x][i]]
      BY <1>0, <2>7, <2>5, <3>1
    <3>. QED
      BY <3>2, AgedIs
  <2>11. ASSUME NEW i \in 1..Len(order'[d]) PROVE origin'[order'[d][i]] # "computed"
    <3>0. i \in 1..Len(all) /\ order'[d][i] = all[i]
      BY <2>3
    <3>1. CASE \E j \in 1..n : all[j] = all[i]
      BY <2>5, <3>0, <3>1
    <3>2. CASE ~ \E j \in 1..n : all[j] = all[i]
      <4>1. i \in 1..m /\ all[i] = order[d][i]
        BY <2>4, <2>8, <3>0, <3>2
      <4>2. all[i] \in Range(order[d]) /\ all[i] \in Tracks
        BY <4>1, OrderShape, RangeIs DEF m
      <4>3. origin'[all[i]] = Aged(Range(order[d]))[all[i]]
        BY <2>5, <3>2, <4>2
      <4>. QED
        BY <3>0, <4>2, <4>3, AgedIs
    <3>. QED
      BY <3>1, <3>2
  <2>12. \A i \in 1..Len(order'[d]) : FreshAt(d, i)'
    BY <2>11 DEF FreshAt
  <2>. QED
    BY <2>1, <2>3, <2>10, <2>12, FreshElsewhere
<1>. QED
  BY <1>1, <1>2, <1>3

\* No length is computed in the beginning.
LEMMA FreshInit == Init => LengthFresh
  BY DEF Init, LengthFresh

\* A step of the application keeps lengths fresh.
LEMMA FreshStep ==
  ASSUME DiscIInv, DiscIInv', LengthFresh, [Next]_discVars
  PROVE  LengthFresh'
<1>1. ASSUME NEW d \in Discs,
             \/ CddbDiscNew(d) \/ CddbDiscDestroy(d) \/ CddbDiscCalcDiscid(d)
             \/ CddbDiscGetTrackFirst(d) \/ CddbDiscGetTrackNext(d)
             \/ \E n \in Indices : CddbDiscGetTrack(d, n)
             \/ \E f \in DOMAIN DiscValues : \E x \in DiscValues[f] :
                  CddbDiscSet(d, f, x) \/ CddbDiscAppend(d, f, x)
             \/ \E x \in DiscValues.genre : CddbDiscSetCategoryStr(d, x[1])
             \/ \E t \in Tracks : CddbDiscAddTrack(d, t)
             \/ \E e \in Discs : CddbDiscClone(d, e) \/ CddbDiscCopy(d, e)
      PROVE  LengthFresh'
  <2>1. CASE CddbDiscNew(d) \/ CddbDiscCalcDiscid(d)
    BY <2>1, FreshDiscSteps
  <2>2. CASE \E f \in DOMAIN DiscValues : \E x \in DiscValues[f] :
               CddbDiscSet(d, f, x) \/ CddbDiscAppend(d, f, x)
    BY <2>2, FreshDiscSteps
  <2>3. CASE \E x \in DiscValues.genre : CddbDiscSetCategoryStr(d, x[1])
    BY <2>3, FreshDiscSteps
  <2>4. CASE \/ CddbDiscGetTrackFirst(d) \/ CddbDiscGetTrackNext(d)
             \/ \E n \in Indices : CddbDiscGetTrack(d, n)
    <3>1. UNCHANGED <<disc, track, links, origin>>
      BY <2>4 DEF CddbDiscGetTrackFirst, CddbDiscGetTrackNext, CddbDiscGetTrack
    <3>. QED
      BY <3>1, FreshDiscChange
  <2>5. CASE \E t \in Tracks : CddbDiscAddTrack(d, t)
    BY <2>5, FreshAddStep
  <2>6. CASE CddbDiscDestroy(d) \/ \E e \in Discs : CddbDiscClone(d, e) \/ CddbDiscCopy(d, e)
    BY <2>6, FreshWholeSteps
  <2>. QED
    BY <1>1, <2>1, <2>2, <2>3, <2>4, <2>5, <2>6
<1>2. ASSUME NEW t \in Tracks,
             \/ CddbTrackNew(t) \/ CddbTrackDestroy(t) \/ CddbTrackGetLength(t)
             \/ \E f \in TrackTexts : \E x \in TrackValues[f] :
                  CddbTrackSet(t, f, x) \/ CddbTrackAppend(t, f, x)
             \/ \E x \in TrackValues.frame_offset : CddbTrackSetFrameOffset(t, x)
             \/ \E x \in TrackValues.length : CddbTrackSetLength(t, x)
             \/ \E u \in Tracks : CddbTrackClone(t, u) \/ CddbTrackCopy(t, u)
      PROVE  LengthFresh'
  BY <1>2, FreshTrackSteps, FreshLengthSteps
<1>3. ASSUME UNCHANGED discVars PROVE LengthFresh'
  BY <1>3 DEF discVars, links, LengthFresh
<1>. QED
  BY <1>1, <1>2, <1>3 DEF Next

\* A length that cddb_track_get_length computed stays the time to the next track or to the
\* end of the disc until something it was computed from changes, by whichever call.
THEOREM LengthsStayFresh == Spec => []LengthFresh
<1>1. DiscIInv /\ DiscIInv' /\ LengthFresh /\ [Next]_discVars => LengthFresh'
  BY FreshStep
<1>. QED
  BY <1>1, FreshInit, DiscAlways, PTL DEF Spec

----------------------------------------------------------------------------
(* The abstract discs.                                                     *)

\* The data of the abstract discs are those of the structures.
LEMMA AbsData ==
  /\ Abs!NewDisc = NewDisc /\ Abs!NewTrack = NewTrack
  /\ \A x, y, z : Abs!Merged(x, y, z) = Merged(x, y, z)
  /\ \A n, t : Abs!Got(n, t) = Got(n, t)
  BY DEF Abs!NewDisc, NewDisc, Abs!NewTrack, NewTrack, Abs!Merged, Merged, Abs!Got, Got

\* Frames, disc ids and sums of digits are those of the structures.
LEMMA AbsNumbers ==
  /\ \A n : Abs!Seconds(n) = Seconds(n)
  /\ Abs!PowerOf2 = PowerOf2
  /\ Abs!DigitSum = DigitSum
<1>1. \A n : Abs!Seconds(n) = Seconds(n)
  BY DEF Abs!Seconds, Seconds, Abs!FramesPerSecond, FramesPerSecond
<1>2. Abs!PowerOf2 = PowerOf2
  BY DEF Abs!PowerOf2, PowerOf2
<1>3. Abs!DigitSum = DigitSum
  BY DEF Abs!DigitSum, DigitSum
<1>. QED
  BY <1>1, <1>2, <1>3

\* A checksum of the structures is one of the abstract discs.
LEMMA AbsChecksum == \A data : Abs!Checksum(data) = Checksum(data)
  BY AbsNumbers DEF Abs!Checksum, Checksum

\* Where the cursor of a disc stands.
CursorShape ==
  /\ cursor \in [Discs -> Nat]
  /\ \A d \in Discs : iterator[d] = Null => cursor[d] = 0
  /\ \A d \in Discs : \A i \in 1..Len(order[d]) : order[d][i] = iterator[d] => cursor[d] = i

\* The cursor stands on the track of the iterator.
LEMMA CursorIs == DiscIInv => CursorShape
<1>. SUFFICES ASSUME DiscIInv PROVE CursorShape
  OBVIOUS
<1>1. ASSUME NEW d \in Discs
      PROVE  /\ cursor[d] \in Nat
             /\ iterator[d] = Null => cursor[d] = 0
             /\ \A i \in 1..Len(order[d]) : order[d][i] = iterator[d] => cursor[d] = i
  <2>1. /\ \A i \in 1..Len(order[d]) : order[d][i] # Null
        /\ \A i, j \in 1..Len(order[d]) : order[d][i] = order[d][j] => i = j
        /\ DOMAIN order[d] = 1..Len(order[d])
    BY OrderShape
  <2>2. cursor[d] = IF iterator[d] = Null THEN 0
                    ELSE CHOOSE i \in DOMAIN order[d] : order[d][i] = iterator[d]
    BY DEF cursor
  <2>3. CASE iterator[d] = Null
    BY <2>1, <2>2, <2>3
  <2>4. CASE iterator[d] # Null
    <3>1. PICK i \in 1..Len(order[d]) : order[d][i] = iterator[d]
      BY <2>4, Parts DEF Peopled
    <3>2. (CHOOSE j \in DOMAIN order[d] : order[d][j] = iterator[d]) = i
      BY <2>1, <3>1
    <3>3. cursor[d] = i /\ i \in Nat
      BY <2>2, <2>4, <3>2
    <3>. QED
      BY <2>1, <2>4, <3>1, <3>3
  <2>. QED
    BY <2>3, <2>4
<1>. QED
  BY <1>1 DEF CursorShape, cursor

\* A disc with the same tracks and the same iterator has the same cursor.
LEMMA CursorSame ==
  ASSUME DiscIInv, CursorShape, CursorShape', NEW e \in Discs,
         iterator'[e] = iterator[e], order'[e] = order[e]
  PROVE  cursor'[e] = cursor[e]
<1>1. CASE iterator[e] = Null
  BY <1>1 DEF CursorShape
<1>2. CASE iterator[e] # Null
  <2>1. PICK i \in 1..Len(order[e]) : order[e][i] = iterator[e]
    BY <1>2, Parts DEF Peopled
  <2>. QED
    BY <2>1 DEF CursorShape
<1>. QED
  BY <1>1, <1>2

\* Adding tracks behind the others leaves the cursors.
LEMMA CursorStays ==
  ASSUME DiscIInv, CursorShape, CursorShape',
         \A d \in Discs : iterator'[d] = iterator[d],
         \A d \in Discs : \A i \in 1..Len(order[d]) :
           i \in 1..Len(order'[d]) /\ order'[d][i] = order[d][i]
  PROVE  cursor' = cursor
<1>1. ASSUME NEW d \in Discs PROVE cursor'[d] = cursor[d]
  <2>1. CASE iterator[d] = Null
    BY <2>1 DEF CursorShape
  <2>2. CASE iterator[d] # Null
    <3>1. PICK i \in 1..Len(order[d]) : order[d][i] = iterator[d]
      BY <2>2, Parts DEF Peopled
    <3>2. cursor[d] = i
      BY <3>1 DEF CursorShape
    <3>3. cursor'[d] = i
      BY <3>1 DEF CursorShape
    <3>. QED
      BY <3>2, <3>3
  <2>. QED
    BY <2>1, <2>2
<1>2. cursor \in [Discs -> Nat] /\ cursor' \in [Discs -> Nat]
  BY DEF CursorShape
<1>. QED
  BY <1>1, <1>2

\* The abstract discs see which tracks are on a disc.
LEMMA AbsSees ==
  ASSUME DiscIInv
  PROVE  /\ \A d \in Discs : Abs!OnDisc(d) = {order[d][i] : i \in 1..Len(order[d])}
         /\ \A d \in Discs : Abs!OnDisc(d) \subseteq {t \in Tracks : owner[t] = d}
         /\ \A t \in Tracks : track[t] # Null /\ owner[t] = Null => Abs!Loose(t)
         /\ \A d \in Discs : \A i \in Int :
              Abs!TrackAt(d, i) = IF i \in 1..Len(order[d]) THEN order[d][i] ELSE Null
<1>1. \A d \in Discs : DOMAIN order[d] = 1..Len(order[d])
  BY OrderShape
<1>2. \A d \in Discs : Abs!OnDisc(d) = {order[d][i] : i \in 1..Len(order[d])}
  BY <1>1 DEF Abs!OnDisc
<1>3. \A d \in Discs : \A i \in 1..Len(order[d]) :
        order[d][i] \in Tracks /\ owner[order[d][i]] = d /\ d # Null
  BY Places
<1>4. \A d \in Discs : Abs!OnDisc(d) \subseteq {t \in Tracks : owner[t] = d}
  BY <1>2, <1>3
<1>5. \A t \in Tracks : owner[t] = Null => t \notin Abs!Used
  BY <1>2, <1>3 DEF Abs!Used
<1>6. \A t \in Tracks : track[t] # Null /\ owner[t] = Null => Abs!Loose(t)
  BY <1>5 DEF Abs!Loose
<1>7. \A d \in Discs : \A i \in Int :
        Abs!TrackAt(d, i) = IF i \in 1..Len(order[d]) THEN order[d][i] ELSE Null
  BY <1>1 DEF Abs!TrackAt
<1>. QED
  BY <1>2, <1>4, <1>6, <1>7

\* The calls that change the data of one disc are steps of the abstract discs.
LEMMA AbsDiscSteps ==
  ASSUME DiscIInv, NEW d \in Discs
  PROVE  /\ CddbDiscNew(d) => Abs!SpecDiscNew(d)
         /\ \A f \in DOMAIN DiscValues : \A x \in DiscValues[f] :
              /\ CddbDiscSet(d, f, x) => Abs!SpecSetDisc(d)
              /\ CddbDiscAppend(d, f, x) => Abs!SpecSetDisc(d)
         /\ \A x \in DiscValues.genre : CddbDiscSetCategoryStr(d, x[1]) => Abs!SpecSetDisc(d)
<1>0. disc \in [Discs -> DiscData \cup {Null}] /\ (disc[d] # Null => disc[d] \in DiscData)
  BY DataShape
<1>1. ASSUME UNCHANGED <<links, iterator, out>> PROVE Abs!Keeps
  BY <1>1 DEF Abs!Keeps, cursor, links
<1>2. ASSUME CddbDiscNew(d) PROVE Abs!SpecDiscNew(d)
  <2>1. Abs!Keeps
    BY <1>1, <1>2 DEF CddbDiscNew
  <2>. QED
    BY <1>2, <2>1, AbsData DEF CddbDiscNew, Abs!SpecDiscNew, Abs!Exists
<1>3. ASSUME disc[d] # Null, NEW r \in DiscData, disc' = [disc EXCEPT ![d] = r],
             UNCHANGED <<track, links, iterator, out>>
      PROVE  Abs!SpecSetDisc(d)
  <2>1. Abs!Keeps
    BY <1>1, <1>3
  <2>2. disc'[d] = r /\ r # Null
    BY <1>0, <1>3, DataShape
  <2>. QED
    BY <1>3, <2>1, <2>2 DEF Abs!SpecSetDisc, Abs!Exists
<1>4. ASSUME NEW f \in DOMAIN DiscValues, NEW x \in DiscValues[f], CddbDiscSet(d, f, x)
      PROVE  Abs!SpecSetDisc(d)
  <2> DEFINE r == [disc[d] EXCEPT ![f] = x]
  <2>1. /\ disc[d] # Null /\ disc' = [disc EXCEPT ![d] = r]
        /\ UNCHANGED <<track, links, iterator, out>>
    BY <1>4 DEF CddbDiscSet
  <2>2. r \in DiscData
    BY <1>0, <2>1, DiscSetType
  <2> HIDE DEF r
  <2>. QED
    BY <1>3, <2>1, <2>2
<1>5. ASSUME NEW f \in DOMAIN DiscValues, NEW x \in DiscValues[f], CddbDiscAppend(d, f, x)
      PROVE  Abs!SpecSetDisc(d)
  <2> DEFINE y == Extended(disc[d][f], x)
             r == [disc[d] EXCEPT ![f] = y]
  <2>1. /\ disc[d] # Null /\ disc' = [disc EXCEPT ![d] = r] /\ disc[d] \in DiscData
        /\ UNCHANGED <<track, links, iterator, out>>
        /\ f \in DiscTexts /\ f \in {"title", "artist", "ext_data"} /\ x # Null
    BY <1>0, <1>5 DEF CddbDiscAppend, DiscTexts
  <2>2. x \in Texts /\ disc[d][f] \in Texts
    BY <2>1, ValueTypes DEF DiscData
  <2>3. y \in Texts
    BY <2>1, <2>2, ExtendedType
  <2> HIDE DEF y
  <2>4. r \in DiscData
    BY <2>1, <2>3, TextSetType
  <2> HIDE DEF r
  <2>. QED
    BY <1>3, <2>1, <2>4
<1>6. ASSUME NEW x \in DiscValues.genre, CddbDiscSetCategoryStr(d, x[1])
      PROVE  Abs!SpecSetDisc(d)
  <2> DEFINE category == CategoryOf(x[1])
             r == [disc[d] EXCEPT !.genre = <<x[1]>>, !.category = category]
  <2>1. /\ disc[d] # Null /\ disc' = [disc EXCEPT ![d] = r] /\ disc[d] \in DiscData
        /\ UNCHANGED <<track, links, iterator, out>>
    BY <1>0, <1>6 DEF CddbDiscSetCategoryStr
  <2>2. <<x[1]>> \in Texts /\ category \in Categories
    <3>1. x \in Seq(STRING) /\ x # <<>>
      BY ValueTypes
    <3>2. x[1] \in STRING
      BY <3>1
    <3>3. <<x[1]>> \in Texts
      BY <3>2 DEF Texts
    <3>. QED
      BY <3>3 DEF CategoryOf, Categories
  <2> HIDE DEF category
  <2>3. r \in DiscData
    BY <2>1, <2>2 DEF DiscData
  <2> HIDE DEF r
  <2>. QED
    BY <1>3, <2>1, <2>3
<1>. QED
  BY <1>2, <1>4, <1>5, <1>6

\* The calls that make or change one track are steps of the abstract discs.
LEMMA AbsTrackSteps ==
  ASSUME DiscIInv, NEW t \in Tracks
  PROVE  /\ CddbTrackNew(t) => Abs!SpecTrackNew(t)
         /\ CddbTrackDestroy(t) => Abs!SpecTrackDestroy(t)
         /\ \A u \in Tracks : CddbTrackClone(t, u) => Abs!SpecTrackClone(t, u)
         /\ \A u \in Tracks : CddbTrackCopy(t, u) => Abs!SpecTrackCopy(t, u)
         /\ \A f \in TrackTexts : \A x \in TrackValues[f] :
              /\ CddbTrackSet(t, f, x) => Abs!SpecSetTrack(t)
              /\ CddbTrackAppend(t, f, x) => Abs!SpecSetTrack(t)
         /\ \A x \in TrackValues.frame_offset : CddbTrackSetFrameOffset(t, x) => Abs!SpecSetTrack(t)
         /\ CddbTrackGetLength(t) => Abs!SpecSetTrack(t)
         /\ \A x \in TrackValues.length : CddbTrackSetLength(t, x) => Abs!SpecSetTrack(t)
<1>0. track \in [Tracks -> TrackData \cup {Null}] /\ (track[t] # Null => track[t] \in TrackData)
  BY DataShape
<1>1. ASSUME UNCHANGED <<links, iterator, out>> PROVE Abs!Keeps
  BY <1>1 DEF Abs!Keeps, cursor, links
<1>2. ASSUME CddbTrackNew(t) PROVE Abs!SpecTrackNew(t)
  <2>1. Abs!Keeps
    BY <1>1, <1>2 DEF CddbTrackNew
  <2>. QED
    BY <1>2, <2>1, AbsData DEF CddbTrackNew, Abs!SpecTrackNew
<1>3. ASSUME CddbTrackDestroy(t) PROVE Abs!SpecTrackDestroy(t)
  <2>1. Abs!Keeps /\ Abs!Loose(t)
    BY <1>1, <1>3, AbsSees DEF CddbTrackDestroy
  <2>. QED
    BY <1>3, <2>1 DEF CddbTrackDestroy, Abs!SpecTrackDestroy
<1>4. ASSUME NEW u \in Tracks, CddbTrackClone(t, u) PROVE Abs!SpecTrackClone(t, u)
  <2>1. Abs!Keeps
    BY <1>1, <1>4 DEF CddbTrackClone
  <2>. QED
    BY <1>4, <2>1 DEF CddbTrackClone, Abs!SpecTrackClone
<1>5. ASSUME NEW u \in Tracks, CddbTrackCopy(t, u) PROVE Abs!SpecTrackCopy(t, u)
  <2>1. Abs!Keeps
    BY <1>1, <1>5 DEF CddbTrackCopy
  <2>. QED
    BY <1>5, <2>1, AbsData DEF CddbTrackCopy, Abs!SpecTrackCopy
<1>6. ASSUME track[t] # Null, NEW r \in TrackData, r.num = track[t].num,
             track' = [track EXCEPT ![t] = r], UNCHANGED <<disc, links, iterator, out>>
      PROVE  Abs!SpecSetTrack(t)
  <2>1. Abs!Keeps
    BY <1>1, <1>6
  <2>2. track'[t] = r /\ r # Null
    BY <1>0, <1>6, DataShape
  <2>. QED
    BY <1>6, <2>1, <2>2 DEF Abs!SpecSetTrack
<1>7. ASSUME NEW f \in TrackTexts, NEW x \in TrackValues[f], CddbTrackSet(t, f, x)
      PROVE  Abs!SpecSetTrack(t)
  <2> DEFINE r == [track[t] EXCEPT ![f] = x]
  <2>1. x \in Texts
    BY ValueTypes DEF TrackTexts
  <2>2. /\ track[t] # Null /\ track' = [track EXCEPT ![t] = r] /\ track[t] \in TrackData
        /\ UNCHANGED <<disc, links, iterator, out>>
    BY <1>0, <1>7 DEF CddbTrackSet
  <2>3. r \in TrackData /\ r.num = track[t].num
    BY <2>1, <2>2, TextSetType
  <2> HIDE DEF r
  <2>. QED
    BY <1>6, <2>2, <2>3
<1>8. ASSUME NEW f \in TrackTexts, NEW x \in TrackValues[f], CddbTrackAppend(t, f, x)
      PROVE  Abs!SpecSetTrack(t)
  <2> DEFINE y == Extended(track[t][f], x)
             r == [track[t] EXCEPT ![f] = y]
  <2>1. x \in Texts /\ x # Null
    BY <1>8, ValueTypes DEF TrackTexts, CddbTrackAppend
  <2>2. /\ track[t] # Null /\ track' = [track EXCEPT ![t] = r] /\ track[t] \in TrackData
        /\ UNCHANGED <<disc, links, iterator, out>>
    BY <1>0, <1>8 DEF CddbTrackAppend
  <2>3. track[t][f] \in Texts
    BY <2>2 DEF TrackData, TrackTexts
  <2>4. y \in Texts
    BY <2>1, <2>3, ExtendedType
  <2> HIDE DEF y
  <2>5. r \in TrackData /\ r.num = track[t].num
    BY <2>2, <2>4, TextSetType
  <2> HIDE DEF r
  <2>. QED
    BY <1>6, <2>2, <2>5
<1>9. ASSUME NEW x \in TrackValues.frame_offset, CddbTrackSetFrameOffset(t, x)
      PROVE  Abs!SpecSetTrack(t)
  <2> DEFINE r == [track[t] EXCEPT !.frame_offset = x]
  <2>1. /\ track[t] # Null /\ track' = [track EXCEPT ![t] = r] /\ track[t] \in TrackData
        /\ UNCHANGED <<disc, links, iterator, out>> /\ x \in Nat \cup {-1}
    BY <1>0, <1>9, ValueTypes DEF CddbTrackSetFrameOffset
  <2>2. r \in TrackData /\ r.num = track[t].num
    BY <2>1 DEF TrackData
  <2> HIDE DEF r
  <2>. QED
    BY <1>6, <2>1, <2>2
<1>10. ASSUME CddbTrackGetLength(t) PROVE Abs!SpecSetTrack(t)
  <2> DEFINE r == [track[t] EXCEPT !.length = LengthFromOffsets(t)]
  <2>1. /\ track[t] # Null /\ track' = [track EXCEPT ![t] = r] /\ track[t] \in TrackData
        /\ UNCHANGED <<disc, links, iterator, out>>
    BY <1>0, <1>10 DEF CddbTrackGetLength
  <2>2. r \in TrackData /\ r.num = track[t].num
    BY <2>1, ComputedTypes DEF TrackData
  <2> HIDE DEF r
  <2>. QED
    BY <1>6, <2>1, <2>2
<1>11. ASSUME NEW x \in TrackValues.length, CddbTrackSetLength(t, x) PROVE Abs!SpecSetTrack(t)
  <2> DEFINE z == IF owner[t] # Null /\ track[t].frame_offset = -1
                  THEN OffsetFromLengths(t, x) ELSE track[t].frame_offset
             r == [track[t] EXCEPT !.length = x, !.frame_offset = z]
  <2>1. /\ track[t] \in TrackData /\ track[t] # Null /\ x \in Nat
        /\ UNCHANGED <<disc, links, iterator, out>>
    BY <1>0, <1>11, ValueTypes DEF CddbTrackSetLength
  <2>2. z \in Nat \cup {-1}
    BY <2>1, ComputedTypes DEF TrackData
  <2>3. track' = [track EXCEPT ![t] = r]
    BY <1>0, <1>11, <2>1 DEF CddbTrackSetLength, TrackData
  <2> HIDE DEF z
  <2>4. r \in TrackData /\ r.num = track[t].num
    BY <2>1, <2>2 DEF TrackData
  <2> HIDE DEF r
  <2>. QED
    BY <1>6, <2>1, <2>3, <2>4
<1>. QED
  BY <1>2, <1>3, <1>4, <1>5, <1>7, <1>8, <1>9, <1>10, <1>11

\* The walks are steps of the abstract discs, as long as no number is negative.
LEMMA AbsWalkSteps ==
  ASSUME DiscIInv, DiscIInv', NEW d \in Discs, Indices \subseteq Nat
  PROVE  /\ \A n \in Indices : CddbDiscGetTrack(d, n) => Abs!SpecGetTrack(d, n)
         /\ CddbDiscGetTrackFirst(d) => Abs!SpecFirst(d)
         /\ CddbDiscGetTrackNext(d) => Abs!SpecNext(d)
<1>0. /\ CursorShape /\ cursor \in [Discs -> Nat]
      /\ CursorShape' /\ cursor' \in [Discs -> Nat]
  <2>1. CursorShape /\ CursorShape'
    BY CursorIs, PTL
  <2>. QED
    BY <2>1 DEF CursorShape
<1>1. ASSUME NEW n \in Indices, CddbDiscGetTrack(d, n) PROVE Abs!SpecGetTrack(d, n)
  <2> DEFINE k == IF n > 0 THEN n ELSE 0
             j == n + 1
  <2>1. n \in Int /\ k \in Nat /\ j = k + 1 /\ j \in Int
    OBVIOUS
  <2>2. /\ disc[d] # Null /\ out' = Got(n, IF n >= track_cnt[d] THEN Null ELSE After(tracks[d], k))
        /\ UNCHANGED <<disc, track, links, iterator, origin>>
    BY <1>1 DEF CddbDiscGetTrack
  <2>3. cursor' = cursor /\ order' = order
    BY <2>2 DEF cursor, links
  <2>4. track_cnt[d] = Len(order[d]) /\ Len(order[d]) \in Nat
    BY OrderShape, Parts DEF Strung
  <2>5. After(tracks[d], k) = IF k < Len(order[d]) THEN order[d][k + 1] ELSE Null
    <3> HIDE DEF k
    <3>. QED
      BY <2>1, AfterFirst
  <2>6. Abs!TrackAt(d, j) = IF j \in 1..Len(order[d]) THEN order[d][j] ELSE Null
    BY <2>1, AbsSees
  <2>7. n >= Len(order[d]) => ~ (k < Len(order[d]) )
    BY <2>1, <2>4
  <2>8. k < Len(order[d]) <=> j \in 1..Len(order[d])
    BY <2>1, <2>4
  <2>9. (IF n >= track_cnt[d] THEN Null ELSE After(tracks[d], k)) = Abs!TrackAt(d, j)
    <3> HIDE DEF k, j
    <3>. QED
      BY <2>1, <2>4, <2>5, <2>6, <2>7, <2>8
  <2>. QED
    BY <2>2, <2>3, <2>9, AbsData DEF Abs!SpecGetTrack, Abs!Exists
<1>2. \A e \in Discs \ {d} : iterator'[e] = iterator[e] /\ order'[e] = order[e] =>
        cursor'[e] = cursor[e]
  BY <1>0, CursorSame
<1>3. ASSUME CddbDiscGetTrackFirst(d) PROVE Abs!SpecFirst(d)
  <2>1. /\ disc[d] # Null /\ iterator' = [iterator EXCEPT ![d] = tracks[d]]
        /\ iterator'[d] = tracks[d] /\ out' = Got(Null, tracks[d])
        /\ UNCHANGED <<disc, track, order>>
    BY <1>3, Parts DEF CddbDiscGetTrackFirst, DataTypes, links
  <2>2. \A e \in Discs \ {d} : cursor'[e] = cursor[e]
    BY <1>2, <2>1, Parts DEF DataTypes
  <2>3. tracks[d] = IF order[d] = <<>> THEN Null ELSE order[d][1]
    BY Parts DEF Strung
  <2>4. order[d] # <<>> => 1 \in 1..Len(order[d])
    BY OrderShape
  <2>5. order[d] = <<>> => 1 \notin 1..Len(order[d])
    OBVIOUS
  <2>6. Abs!TrackAt(d, 1) = tracks[d]
    BY <2>3, <2>4, <2>5, AbsSees
  <2>7. cursor'[d] = IF order[d] = <<>> THEN 0 ELSE 1
    BY <1>0, <2>1, <2>3, <2>4 DEF CursorShape
  <2>8. cursor' = [cursor EXCEPT ![d] = IF order[d] = <<>> THEN 0 ELSE 1]
    BY <1>0, <2>2, <2>7
  <2>. QED
    BY <2>1, <2>6, <2>8, AbsData DEF Abs!SpecFirst, Abs!Exists
<1>4. ASSUME CddbDiscGetTrackNext(d) PROVE Abs!SpecNext(d)
  <2> DEFINE t == IF iterator[d] = Null THEN Null ELSE next[iterator[d]]
             c == IF cursor[d] \in 1..(Len(order[d]) - 1) THEN cursor[d] + 1 ELSE 0
  <2>1. /\ disc[d] # Null /\ iterator' = [iterator EXCEPT ![d] = t]
        /\ iterator'[d] = t /\ out' = Got(Null, t)
        /\ UNCHANGED <<disc, track, order>>
    BY <1>4, Parts DEF CddbDiscGetTrackNext, DataTypes, links
  <2>2. \A e \in Discs \ {d} : cursor'[e] = cursor[e]
    BY <1>2, <2>1, Parts DEF DataTypes
  <2>3. cursor'[d] = c /\ Abs!TrackAt(d, c) = t
    <3>1. CASE iterator[d] = Null
      <4>1. cursor[d] = 0 /\ t = Null /\ c = 0 /\ cursor'[d] = 0
        BY <1>0, <2>1, <3>1 DEF CursorShape
      <4>2. Abs!TrackAt(d, 0) = Null
        BY AbsSees, OrderShape
      <4>. QED
        BY <4>1, <4>2
    <3>2. CASE iterator[d] # Null
      <4>1. PICK i \in 1..Len(order[d]) : order[d][i] = iterator[d]
        BY <3>2, Parts DEF Peopled
      <4>2. cursor[d] = i
        BY <1>0, <4>1 DEF CursorShape
      <4>3. t = IF i = Len(order[d]) THEN Null ELSE order[d][i + 1]
        BY <3>2, <4>1, Places
      <4>4. CASE i = Len(order[d])
        <5>1. c = 0 /\ t = Null
          BY <4>2, <4>3, <4>4, OrderShape
        <5>2. cursor'[d] = 0
          BY <1>0, <2>1, <5>1 DEF CursorShape
        <5>3. Abs!TrackAt(d, 0) = Null
          BY AbsSees, OrderShape
        <5>. QED
          BY <5>1, <5>2, <5>3
      <4>5. CASE i # Len(order[d])
        <5>1. c = i + 1 /\ i + 1 \in 1..Len(order[d]) /\ t = order[d][i + 1] /\ i + 1 \in Int
          BY <4>2, <4>3, <4>5, OrderShape
        <5>2. cursor'[d] = i + 1
          BY <1>0, <2>1, <5>1 DEF CursorShape
        <5>3. Abs!TrackAt(d, i + 1) = order[d][i + 1]
          BY <5>1, AbsSees
        <5>. QED
          BY <5>1, <5>2, <5>3
      <4>. QED
        BY <4>4, <4>5
    <3>. QED
      BY <3>1, <3>2
  <2> HIDE DEF t
  <2>4. cursor' = [cursor EXCEPT ![d] = c]
    <3> HIDE DEF c
    <3>. QED
      BY <1>0, <2>2, <2>3
  <2>5. out' = Abs!Got(Null, Abs!TrackAt(d, cursor'[d]))
    BY <2>1, <2>3, AbsData
  <2>. QED
    BY <2>1, <2>4, <2>5 DEF Abs!SpecNext, Abs!Exists
<1>. QED
  BY <1>1, <1>3, <1>4

\* Adding a track and destroying a disc are steps of the abstract discs.
LEMMA AbsAddSteps ==
  ASSUME DiscIInv, DiscIInv', NEW d \in Discs
  PROVE  /\ \A t \in Tracks : CddbDiscAddTrack(d, t) => Abs!SpecAddTrack(d, t)
         /\ CddbDiscDestroy(d) => Abs!SpecDiscDestroy(d)
<1>0. CursorShape /\ CursorShape'
  BY CursorIs, PTL
<1>1. ASSUME NEW t \in Tracks, CddbDiscAddTrack(d, t) PROVE Abs!SpecAddTrack(d, t)
  <2>1. /\ order' = [order EXCEPT ![d] = Append(order[d], t)]
        /\ track' = [track EXCEPT ![t] = [track[t] EXCEPT !.num = Len(order[d]) + 1]]
    BY <1>1, AddStep
  <2>2. /\ disc[d] # Null /\ track[t] # Null /\ owner[t] = Null
        /\ UNCHANGED <<disc, iterator, out>>
    BY <1>1 DEF CddbDiscAddTrack
  <2>3. /\ order'[d] = Append(order[d], t) /\ \A e \in Discs \ {d} : order'[e] = order[e]
        /\ Len(order'[d]) = Len(order[d]) + 1 /\ Len(order[d]) \in Nat
        /\ \A i \in 1..Len(order[d]) : i \in 1..Len(order'[d]) /\ order'[d][i] = order[d][i]
    BY <2>1, OrderShape, Parts DEF LinkTypes
  <2>4. \A e \in Discs : \A i \in 1..Len(order[e]) :
          i \in 1..Len(order'[e]) /\ order'[e][i] = order[e][i]
    BY <2>3
  <2>5. cursor' = cursor
    BY <1>0, <2>2, <2>4, CursorStays
  <2>6. Abs!Loose(t)
    BY <2>2, AbsSees
  <2>7. track' = [track EXCEPT ![t].num = Len(order'[d])]
    BY <2>1, <2>3
  <2>. QED
    BY <2>1, <2>2, <2>5, <2>6, <2>7 DEF Abs!SpecAddTrack, Abs!Exists
<1>2. ASSUME CddbDiscDestroy(d) PROVE Abs!SpecDiscDestroy(d)
  <2>1. track' = [t \in Tracks |-> IF \E i \in 1..Len(order[d]) : order[d][i] = t
                                   THEN Null ELSE track[t]]
    BY <1>2, DestroyStep
  <2>2. /\ disc[d] # Null /\ order' = [order EXCEPT ![d] = <<>>]
        /\ disc' = [disc EXCEPT ![d] = Null]
        /\ iterator' = [iterator EXCEPT ![d] = Null] /\ out' = Got(Null, Null)
    BY <1>2 DEF CddbDiscDestroy
  <2>3. track' = [t \in Tracks |-> IF t \in Abs!OnDisc(d) THEN Null ELSE track[t]]
    <3>1. Abs!OnDisc(d) = {order[d][i] : i \in 1..Len(order[d])}
      BY AbsSees
    <3>. QED
      BY <2>1, <3>1
  <2>4. cursor' = [cursor EXCEPT ![d] = 0]
    <3>1. \A e \in Discs : e # d => order'[e] = order[e] /\ iterator'[e] = iterator[e]
      BY <2>2, Parts DEF LinkTypes, DataTypes
    <3>2. iterator'[d] = Null
      BY <2>2, Parts DEF DataTypes
    <3>3. cursor'[d] = 0 /\ cursor' \in [Discs -> Nat] /\ cursor \in [Discs -> Nat]
      BY <1>0, <3>2 DEF CursorShape
    <3>4. ASSUME NEW e \in Discs, e # d PROVE cursor'[e] = cursor[e]
      BY <1>0, <3>1, <3>4, CursorSame
    <3>. QED
      BY <3>3, <3>4
  <2>. QED
    BY <2>2, <2>3, <2>4, AbsData DEF Abs!SpecDiscDestroy, Abs!Exists
<1>. QED
  BY <1>1, <1>2

\* Cloning a disc is a step of the abstract discs.
LEMMA AbsCloneStep ==
  ASSUME DiscIInv, DiscIInv', NEW d \in Discs, NEW e \in Discs, CddbDiscClone(d, e)
  PROVE  Abs!SpecDiscClone(d, e)
<1>1. order[d] = <<>> /\ disc[d] = Null /\ disc[e] # Null
      /\ disc' = [disc EXCEPT ![d] = disc[e]] /\ UNCHANGED <<iterator, out>>
  BY CloneStep DEF CddbDiscClone
<1>2. PICK new \in Seq(Tracks) :
        /\ Len(new) = Len(order[e])
        /\ \A i, j \in 1..Len(new) : new[i] = new[j] => i = j
        /\ \A i \in 1..Len(new) : track[new[i]] = Null /\ new[i] \in Tracks
        /\ order' = [order EXCEPT ![d] = new]
        /\ \A i \in 1..Len(new) : track'[new[i]] = [track[order[e][i]] EXCEPT !.num = i]
        /\ \A t \in Tracks : (\A i \in 1..Len(new) : new[i] # t) => track'[t] = track[t]
        /\ track' \in [Tracks -> TrackData \cup {Null}]
        /\ \A i \in 1..Len(new) : origin'[new[i]] = "given"
        /\ \A t \in Tracks : (\A i \in 1..Len(new) : new[i] # t) => origin'[t] = origin[t]
  BY CloneStep
<1> DEFINE Data(i) == [track[order[e][i]] EXCEPT !.num = i]
<1>3. /\ order'[d] = new /\ DOMAIN new = 1..Len(new) /\ <<>> \o new = new
      /\ \A x \in Discs \ {d} : order'[x] = order[x]
  BY <1>2, Parts DEF LinkTypes
<1>4. cursor' = cursor
  <2>1. CursorShape /\ CursorShape'
    BY CursorIs, PTL
  <2>2. \A x \in Discs : \A i \in 1..Len(order[x]) : i \in 1..Len(order'[x]) /\ order'[x][i] = order[x][i]
    <3>1. 1..Len(order[d]) = {}
      BY <1>1
    <3>. QED
      BY <1>3, <3>1
  <2>. QED
    BY <1>1, <2>1, <2>2, CursorStays
<1>5. order' = [order EXCEPT ![d] = order[d] \o new]
  BY <1>1, <1>2, <1>3
<1>6. track' = [t \in Tracks |->
        IF \E i \in DOMAIN order'[d] : order'[d][i] = t
        THEN Data(CHOOSE i \in DOMAIN order'[d] : order'[d][i] = t) ELSE track[t]]
  <2>1. ASSUME NEW t \in Tracks
        PROVE  track'[t] = IF \E i \in DOMAIN new : new[i] = t
                           THEN Data(CHOOSE i \in DOMAIN new : new[i] = t) ELSE track[t]
    <3>1. CASE \E i \in DOMAIN new : new[i] = t
      <4>1. PICK i \in 1..Len(new) : new[i] = t
        BY <1>3, <3>1
      <4>2. (CHOOSE j \in DOMAIN new : new[j] = t) = i
        BY <1>2, <1>3, <4>1
      <4>. QED
        BY <1>2, <3>1, <4>1, <4>2
    <3>2. CASE ~ \E i \in DOMAIN new : new[i] = t
      BY <1>2, <1>3, <3>2
    <3>. QED
      BY <3>1, <3>2
  <2>2. track' = [t \in Tracks |-> track'[t]]
    BY <1>2
  <2>3. track' = [t \in Tracks |-> IF \E i \in DOMAIN new : new[i] = t
                                   THEN Data(CHOOSE i \in DOMAIN new : new[i] = t) ELSE track[t]]
    <3> HIDE DEF Data
    <3>. QED
      BY <2>1, <2>2
  <2>. QED
    BY <1>3, <2>3
<1>7. /\ \A i, j \in DOMAIN new : new[i] = new[j] => i = j
      /\ \A i \in DOMAIN new : track[new[i]] = Null
  BY <1>2, <1>3
<1>8. Abs!SpecJoins(d, new, LAMBDA i : [track[order[e][i]] EXCEPT !.num = i])
  BY <1>5, <1>6, <1>7 DEF Abs!SpecJoins
<1>. QED
  BY <1>1, <1>2, <1>3, <1>4, <1>8 DEF Abs!SpecDiscClone, Abs!Exists

\* Copying a disc is a step of the abstract discs.
LEMMA AbsCopyStep ==
  ASSUME DiscIInv, DiscIInv', NEW d \in Discs, NEW e \in Discs, CddbDiscCopy(d, e)
  PROVE  Abs!SpecDiscCopy(d, e)
<1>1. /\ d # e /\ disc[d] # Null /\ disc[e] # Null /\ UNCHANGED <<iterator, out>>
      /\ disc' = [disc EXCEPT ![d] = Merged(disc[d], disc[e], NewDisc)]
  BY DEF CddbDiscCopy
<1>2. PICK new \in Seq(Tracks) :
        LET all == order[d] \o new
            Old(i) == IF i <= Len(order[d]) THEN track[order[d][i]]
                      ELSE [NewTrack EXCEPT !.num = i]
        IN /\ Len(new) = IF Len(order[e]) > Len(order[d]) THEN Len(order[e]) - Len(order[d])
                          ELSE 0
           /\ \A i, j \in 1..Len(new) : new[i] = new[j] => i = j
           /\ \A i \in 1..Len(new) : track[new[i]] = Null /\ new[i] \in Tracks
           /\ order' = [order EXCEPT ![d] = all]
           /\ \A i \in 1..Len(order[e]) :
                /\ track'[all[i]] = Merged(Old(i), track[order[e][i]], NewTrack)
                /\ origin'[all[i]] = "given"
           /\ \A t \in Tracks : (\A i \in 1..Len(order[e]) : all[i] # t) =>
                /\ track'[t] = track[t]
                /\ origin'[t] = Aged(Range(order[d]))[t]
           /\ track' \in [Tracks -> TrackData \cup {Null}]
  BY CopyStep
<1> DEFINE all == order[d] \o new
           Old(i) == IF i <= Len(order[d]) THEN track[order[d][i]]
                     ELSE [NewTrack EXCEPT !.num = i]
           Data(i) == IF i <= Len(order[e]) THEN Merged(Old(i), track[order[e][i]], NewTrack)
                      ELSE Old(i)
           n == Len(order[e])
           m == Len(order[d])
           k == Len(new)
<1>3. /\ order'[d] = all /\ order' = [order EXCEPT ![d] = order[d] \o new]
      /\ \A x \in Discs \ {d} : order'[x] = order[x]
  BY <1>2, Parts DEF LinkTypes
<1>4. /\ m \in Nat /\ n \in Nat /\ k \in Nat /\ Len(all) = m + k /\ DOMAIN all = 1..(m + k)
      /\ DOMAIN new = 1..k /\ all \in Seq(Tracks)
      /\ \A i \in 1..m : all[i] = order[d][i]
      /\ \A i \in 1..k : all[m + i] = new[i]
  BY OrderShape
<1>5. /\ k = IF n > m THEN n - m ELSE 0
      /\ \A i, j \in 1..k : new[i] = new[j] => i = j
      /\ \A i \in 1..k : track[new[i]] = Null
      /\ \A i \in 1..n : track'[all[i]] = Merged(Old(i), track[order[e][i]], NewTrack)
      /\ \A t \in Tracks : (\A i \in 1..n : all[i] # t) => track'[t] = track[t]
      /\ track' \in [Tracks -> TrackData \cup {Null}]
  BY <1>2
<1>6. \A i, j \in 1..(m + k) : all[i] = all[j] => i = j
  <2>1. \A i, j \in 1..Len(order'[d]) : order'[d][i] = order'[d][j] => i = j
    <3>1. Strung'
      BY Parts, PTL
    <3>. QED
      BY <3>1 DEF Strung
  <2>. QED
    BY <1>3, <1>4, <2>1
<1>7. new = SubSeq(order'[d], Len(order[d]) + 1, Len(order'[d]))
  <2>1. new = SubSeq(all, m + 1, m + k)
    <3> HIDE DEF all, m
    <3>2. new = [i \in 1..k |-> new[i]]
      BY <1>4
    <3>3. /\ SubSeq(all, m + 1, m + k) \in Seq(Tracks) /\ Len(SubSeq(all, m + 1, m + k)) = k
          /\ \A i \in 1..k : SubSeq(all, m + 1, m + k)[i] = all[m + i]
      BY <1>4, RestOf
    <3>5. \A i \in 1..k : SubSeq(all, m + 1, m + k)[i] = new[i]
      BY <1>4, <3>3
    <3> HIDE DEF k
    <3>6. SubSeq(all, m + 1, m + k) = [i \in 1..k |-> SubSeq(all, m + 1, m + k)[i]]
      BY <1>4, <3>3
    <3>. QED
      BY <3>2, <3>5, <3>6
  <2>. QED
    BY <1>3, <1>4, <2>1
<1> HIDE DEF n, m, k
<1>8. m + k = IF n > m THEN n ELSE m
  BY <1>4, <1>5
<1>9. cursor' = cursor
  <2>1. CursorShape /\ CursorShape'
    BY CursorIs, PTL
  <2>2. \A i \in 1..Len(order[d]) : i \in 1..Len(order'[d]) /\ order'[d][i] = order[d][i]
    <3> HIDE DEF all
    <3>. QED
      BY <1>3, <1>4 DEF m
  <2>3. \A x \in Discs : \A i \in 1..Len(order[x]) : i \in 1..Len(order'[x]) /\ order'[x][i] = order[x][i]
    BY <1>3, <2>2
  <2>. QED
    BY <1>1, <2>1, <2>3, CursorStays
<1> HIDE DEF all
<1>10. track' = [t \in Tracks |->
        IF \E i \in DOMAIN order'[d] : order'[d][i] = t
        THEN Data(CHOOSE i \in DOMAIN order'[d] : order'[d][i] = t) ELSE track[t]]
  <2>1. ASSUME NEW t \in Tracks
        PROVE  track'[t] = IF \E i \in DOMAIN all : all[i] = t
                           THEN Data(CHOOSE i \in DOMAIN all : all[i] = t) ELSE track[t]
    <3>1. CASE \E i \in DOMAIN all : all[i] = t
      <4>1. PICK i \in 1..(m + k) : all[i] = t
        BY <1>4, <3>1
      <4>2. (CHOOSE j \in DOMAIN all : all[j] = t) = i
        BY <1>4, <1>6, <4>1
      <4>3. track'[t] = Data(i)
        <5>1. CASE i <= n
          <6>1. i \in 1..n
            BY <1>4, <4>1, <5>1
          <6>2. track'[all[i]] = Merged(Old(i), track[order[e][i]], NewTrack)
            BY <1>5, <6>1
          <6>. QED
            BY <4>1, <5>1, <6>2 DEF n
        <5>2. CASE ~(i <= n)
          <6>1. i \in 1..m /\ i <= m /\ \A j \in 1..n : j # i /\ j \in 1..(m + k)
            BY <1>4, <1>8, <4>1, <5>2
          <6>2. \A j \in 1..n : all[j] # t
            BY <1>6, <4>1, <6>1
          <6>3. track'[t] = track[t] /\ t = order[d][i]
            BY <1>4, <1>5, <4>1, <6>1, <6>2
          <6>. QED
            BY <5>2, <6>1, <6>3 DEF n, m
        <5>. QED
          BY <5>1, <5>2
      <4> HIDE DEF Data
      <4>. QED
        BY <3>1, <4>2, <4>3
    <3>2. CASE ~ \E i \in DOMAIN all : all[i] = t
      <4>1. \A i \in 1..n : i \in 1..(m + k)
        BY <1>4, <1>8
      <4>2. track'[t] = track[t]
        BY <1>4, <1>5, <3>2, <4>1
      <4> HIDE DEF Data
      <4>. QED
        BY <3>2, <4>2
    <3>. QED
      BY <3>1, <3>2
  <2>2. track' = [t \in Tracks |-> track'[t]]
    BY <1>5
  <2> HIDE DEF Data
  <2>3. track' = [t \in Tracks |-> IF \E i \in DOMAIN all : all[i] = t
                                   THEN Data(CHOOSE i \in DOMAIN all : all[i] = t) ELSE track[t]]
    BY <2>1, <2>2
  <2>. QED
    BY <1>3, <2>3
<1>11. /\ \A i, j \in DOMAIN new : new[i] = new[j] => i = j
       /\ \A i \in DOMAIN new : track[new[i]] = Null
  BY <1>4, <1>5
<1>12. Len(order[d]) + Len(new) = IF Len(order[e]) > Len(order[d]) THEN Len(order[e]) ELSE Len(order[d])
  BY <1>8 DEF n, m, k
<1>13. disc' = [disc EXCEPT ![d] = Abs!Merged(disc[d], disc[e], Abs!NewDisc)]
  BY <1>1, AbsData
<1> DEFINE OldThere(i) == IF i <= Len(order[d]) THEN track[order[d][i]]
                          ELSE [Abs!NewTrack EXCEPT !.num = i]
           DataThere(i) == IF i <= Len(order[e])
                           THEN Abs!Merged(OldThere(i), track[order[e][i]], Abs!NewTrack)
                           ELSE OldThere(i)
<1>14. \A i : Data(i) = DataThere(i)
  BY AbsData
<1> HIDE DEF Data, DataThere
<1>15. track' = [t \in Tracks |->
        IF \E i \in DOMAIN order'[d] : order'[d][i] = t
        THEN DataThere(CHOOSE i \in DOMAIN order'[d] : order'[d][i] = t) ELSE track[t]]
  BY <1>10, <1>14
<1>16. Abs!SpecJoins(d, new, LAMBDA i :
         IF i <= Len(order[e]) THEN Abs!Merged(OldThere(i), track[order[e][i]], Abs!NewTrack)
         ELSE OldThere(i))
  BY <1>3, <1>11, <1>15 DEF Abs!SpecJoins, DataThere
<1>17. \E x \in {SubSeq(order'[d], Len(order[d]) + 1, Len(order'[d]))} :
         /\ Len(order[d]) + Len(x) =
              IF Len(order[e]) > Len(order[d]) THEN Len(order[e]) ELSE Len(order[d])
         /\ Abs!SpecJoins(d, x, LAMBDA i :
              IF i <= Len(order[e]) THEN Abs!Merged(OldThere(i), track[order[e][i]], Abs!NewTrack)
              ELSE OldThere(i))
  <2>1. new \in {SubSeq(order'[d], Len(order[d]) + 1, Len(order'[d]))}
    BY <1>7
  <2>. QED
    BY <1>12, <1>16, <2>1
<1>. QED
  BY <1>1, <1>9, <1>13, <1>17 DEF Abs!SpecDiscCopy, Abs!Exists

----------------------------------------------------------------------------
(* Bits and bytes.                                                         *)

\* Division with a remainder.
LEMMA DivMod ==
  ASSUME NEW x \in Nat, NEW p \in Nat \ {0}
  PROVE  /\ x \div p \in Nat /\ x % p \in 0..(p - 1)
         /\ x = p * (x \div p) + (x % p)
  OBVIOUS

\* There is one quotient and one remainder.
LEMMA DivUnique ==
  ASSUME NEW x \in Nat, NEW p \in Nat \ {0}, NEW q \in Int, NEW r \in 0..(p - 1), x = p * q + r
  PROVE  x \div p = q /\ x % p = r
  OBVIOUS

\* Dividing by twice a number is dividing by it and halving.
LEMMA Halve ==
  ASSUME NEW x \in Nat, NEW p \in Nat \ {0}
  PROVE  /\ x \div (2 * p) = (x \div p) \div 2
         /\ x % (2 * p) = p * ((x \div p) % 2) + (x % p)
<1> DEFINE q == x \div p
           r == x % p
           h == q \div 2
           b == q % 2
           s == p * b + r
<1>1. q \in Nat /\ r \in 0..(p - 1) /\ x = p * q + r
  BY DivMod
<1> HIDE DEF q, r
<1>2. h \in Nat /\ b \in 0..1 /\ q = 2 * h + b
  BY <1>1
<1> HIDE DEF h, b
<1>3. p * b \in {0, p}
  <2>1. b = 0 \/ b = 1
    BY <1>2
  <2>. QED
    BY <2>1
<1>4. s \in 0..(2 * p - 1)
  BY <1>1, <1>3
<1>5. x = (2 * p) * h + s
  <2>1. p * q = p * (2 * h) + p * b
    BY <1>1, <1>2
  <2>2. p * (2 * h) = (2 * p) * h
    BY <1>2
  <2>. QED
    BY <1>1, <1>2, <1>3, <2>1, <2>2
<1>6. 2 * p \in Nat \ {0}
  OBVIOUS
<1> HIDE DEF s
<1>7. x \div (2 * p) = h /\ x % (2 * p) = s
  <2> DEFINE pp == 2 * p
  <2>1. pp \in Nat \ {0} /\ s \in 0..(pp - 1) /\ x = pp * h + s
    BY <1>4, <1>5, <1>6
  <2> HIDE DEF pp
  <2>2. x \div pp = h /\ x % pp = s
    BY <1>2, <2>1, DivUnique
  <2>. QED
    BY <2>2 DEF pp
<1>. QED
  BY <1>7 DEF q, r, h, b, s

\* The powers of two.
LEMMA PowerLaws ==
  /\ PowerOf2 \in [Nat -> Nat \ {0}]
  /\ PowerOf2[0] = 1
  /\ \A n \in Nat : PowerOf2[n + 1] = 2 * PowerOf2[n]
<1> DEFINE A == Nat \ {0}
           h == [n \in Nat \ {0} |-> n - 1]
           G == [p \in Nat \X A |-> 2 * p[2]]
<1>1. PICK f \in [Nat -> A] : RecursOn(f, 1, h, G)
  <2>1. Descends(h)
    BY DEF Descends
  <2>2. 1 \in A /\ G \in [Nat \X A -> A]
    <3>1. \A y \in A : 2 * y \in A
      OBVIOUS
    <3>. QED
      BY <3>1
  <2> HIDE DEF A, h, G
  <2>. QED
    BY <2>1, <2>2, RecursionExists
<1>2. \A n \in Nat : f[n] = IF n = 0 THEN 1 ELSE 2 * f[n - 1]
  <2>1. \A n \in Nat \ {0} : h[n] = n - 1 /\ n - 1 \in Nat
    OBVIOUS
  <2>2. \A n \in Nat \ {0} : G[<<n, f[n - 1]>>] = 2 * f[n - 1]
    BY <2>1
  <2>. QED
    BY <1>1, <2>1, <2>2 DEF RecursOn
<1>3. f = [n \in Nat |-> IF n = 0 THEN 1 ELSE 2 * f[n - 1]]
  BY <1>2
<1>4. PowerOf2 = [n \in Nat |-> IF n = 0 THEN 1 ELSE 2 * PowerOf2[n - 1]]
  BY <1>3 DEF PowerOf2
<1>5. PowerOf2[0] = 1 /\ \A n \in Nat : PowerOf2[n + 1] = 2 * PowerOf2[n]
  <2>1. \A n \in Nat : n + 1 \in Nat /\ n + 1 # 0 /\ n + 1 - 1 = n
    OBVIOUS
  <2>. QED
    BY <1>4, <2>1
<1>6. Nat \subseteq {n \in Nat : PowerOf2[n] \in A}
  <2> DEFINE S == {n \in Nat : PowerOf2[n] \in A}
  <2>1. 0 \in S /\ \A n \in Nat : n \in S => n + 1 \in S
    BY <1>5
  <2> HIDE DEF S
  <2>2. Nat \subseteq S
    BY <2>1, NatSetInduction
  <2>. QED
    BY <2>2 DEF S
<1>7. PowerOf2 \in [Nat -> A]
  BY <1>4, <1>6
<1>. QED
  BY <1>5, <1>7

\* They grow.
LEMMA PowersGrow ==
  ASSUME NEW m \in Nat, NEW n \in Nat, m <= n
  PROVE  PowerOf2[m] <= PowerOf2[n]
<1> DEFINE S == {k \in Nat : PowerOf2[m] <= PowerOf2[m + k]}
<1>1. 0 \in S
  BY PowerLaws
<1>2. ASSUME NEW k \in Nat, k \in S PROVE k + 1 \in S
  <2>1. m + k \in Nat /\ m + (k + 1) = (m + k) + 1
    OBVIOUS
  <2>2. PowerOf2[m + (k + 1)] = 2 * PowerOf2[m + k] /\ PowerOf2[m + k] \in Nat /\ PowerOf2[m] \in Nat
    BY <2>1, PowerLaws
  <2>. QED
    BY <1>2, <2>2
<1> HIDE DEF S
<1>3. Nat \subseteq S
  BY <1>1, <1>2, NatSetInduction
<1>4. n - m \in S /\ m + (n - m) = n
  BY <1>3
<1>. QED
  BY <1>4 DEF S

\* A number below a power of two has no bits from there on.
LEMMA NoBitsAbove ==
  ASSUME NEW x \in Nat, NEW m \in Nat, x < PowerOf2[m], NEW i \in Nat, i >= m
  PROVE  x \div PowerOf2[i] = 0 /\ i \notin Bits(x)
<1>1. PowerOf2[i] \in Nat \ {0} /\ x < PowerOf2[i]
  <2>1. PowerOf2[m] \in Nat /\ PowerOf2[i] \in Nat \ {0} /\ PowerOf2[m] <= PowerOf2[i]
    BY PowerLaws, PowersGrow
  <2>. QED
    BY <2>1
<1>2. x \div PowerOf2[i] = 0
  <2> DEFINE p == PowerOf2[i]
  <2>1. p \in Nat \ {0} /\ 0 \in Int /\ x \in 0..(p - 1) /\ x = p * 0 + x
    BY <1>1
  <2> HIDE DEF p
  <2>2. x \div p = 0
    BY <2>1, DivUnique
  <2>. QED
    BY <2>2 DEF p
<1>. QED
  BY <1>2 DEF Bits

\* One more bit of a number.
LEMMA NextBit ==
  ASSUME NEW x \in Nat, NEW i \in Nat
  PROVE  x % PowerOf2[i + 1] =
           (x % PowerOf2[i]) + (IF (x \div PowerOf2[i]) % 2 = 1 THEN PowerOf2[i] ELSE 0)
<1> DEFINE p == PowerOf2[i]
           q == x \div p
           b == q % 2
           r == x % p
<1>1. p \in Nat \ {0} /\ PowerOf2[i + 1] = 2 * p
  BY PowerLaws
<1> HIDE DEF p
<1>2. x % (2 * p) = p * b + r
  BY <1>1, Halve
<1>3. q \in Nat /\ r \in Int
  <2>1. x \div p \in Nat /\ x % p \in 0..(p - 1)
    BY <1>1, DivMod
  <2>2. x % p \in Int
    BY <1>1, <2>1
  <2>. QED
    BY <2>1, <2>2
<1> HIDE DEF q, r
<1>4. b = 0 \/ b = 1
  BY <1>3
<1> HIDE DEF b
<1>5. p * b + r = r + (IF b = 1 THEN p ELSE 0)
  BY <1>1, <1>3, <1>4
<1>6. x % PowerOf2[i + 1] = r + (IF b = 1 THEN p ELSE 0)
  BY <1>1, <1>2, <1>5
<1>. QED
  BY <1>6 DEF p, q, b, r

\* Bytes that hold the bits of a number hold the number.
LEMMA BytesHold ==
  ASSUME NEW x \in Nat, NEW id, NEW k \in Nat, NEW n \in Nat, n * ByteBits \in Nat,
         k * ByteBits \in Nat, x < PowerOf2[n * ByteBits],
         \A j \in 0..(n * ByteBits - 1) :
           k * ByteBits + j \in id <=> (x \div PowerOf2[j]) % 2 = 1
  PROVE  Bytes(id, k, n) = x
<1> DEFINE m == n * ByteBits
           s == k * ByteBits
           Weight[i \in 0..(n * ByteBits)] ==
             IF i = 0 THEN 0
             ELSE Weight[i - 1] + (IF k * ByteBits + i - 1 \in id THEN PowerOf2[i - 1] ELSE 0)
           Added(i) == IF k * ByteBits + i - 1 \in id THEN PowerOf2[i - 1] ELSE 0
           g == [i \in 0..(n * ByteBits) |-> x % PowerOf2[i]]
<1>1. Bytes(id, k, n) = Weight[n * ByteBits]
  BY DEF Bytes
<1>2. \A i \in 1..m : Added(i) = IF (x \div PowerOf2[i - 1]) % 2 = 1 THEN PowerOf2[i - 1] ELSE 0
  <2>1. ASSUME NEW i \in 1..m
        PROVE  Added(i) = IF (x \div PowerOf2[i - 1]) % 2 = 1 THEN PowerOf2[i - 1] ELSE 0
    <3>1. i - 1 \in 0..(n * ByteBits - 1) /\ k * ByteBits + i - 1 = k * ByteBits + (i - 1)
      <4>1. m \in Nat /\ s \in Nat
        OBVIOUS
      <4> HIDE DEF m, s
      <4>2. i - 1 \in 0..(m - 1) /\ s + i - 1 = s + (i - 1)
        BY <4>1
      <4>. QED
        BY <4>2 DEF m, s
    <3>2. k * ByteBits + i - 1 \in id <=> (x \div PowerOf2[i - 1]) % 2 = 1
      BY <3>1
    <3>. QED
      BY <3>2
  <2>. QED
    BY <2>1
<1>3. m \in Nat /\ x % PowerOf2[0] = 0
  <2>1. x % 1 = 0
    OBVIOUS
  <2>. QED
    BY <2>1, PowerLaws
<1>4. \A i \in 1..m : x % PowerOf2[i] = (x % PowerOf2[i - 1]) + Added(i)
  <2>1. ASSUME NEW i \in 1..m
        PROVE  x % PowerOf2[i] = (x % PowerOf2[i - 1]) + Added(i)
    <3> HIDE DEF m
    <3>1. i - 1 \in Nat /\ i - 1 + 1 = i
      BY <1>3
    <3>2. x % PowerOf2[i - 1 + 1] = (x % PowerOf2[i - 1])
                             + (IF (x \div PowerOf2[i - 1]) % 2 = 1 THEN PowerOf2[i - 1] ELSE 0)
      BY <3>1, NextBit
    <3>3. Added(i) = IF (x \div PowerOf2[i - 1]) % 2 = 1 THEN PowerOf2[i - 1] ELSE 0
      BY <1>2
    <3> HIDE DEF Added
    <3>. QED
      BY <3>1, <3>2, <3>3
  <2>. QED
    BY <2>1
<1>5. g = [i \in 0..(n * ByteBits) |-> IF i = 0 THEN 0 ELSE g[i - 1] + Added(i)]
  <2>1. ASSUME NEW i \in 0..m PROVE g[i] = IF i = 0 THEN 0 ELSE g[i - 1] + Added(i)
    <3>1. g[i] = x % PowerOf2[i]
      OBVIOUS
    <3>2. CASE i = 0
      BY <1>3, <3>1, <3>2
    <3>3. CASE i # 0
      <4>1. i \in 1..m /\ i - 1 \in 0..m
        <5> HIDE DEF m
        <5>. QED
          BY <1>3, <3>3
      <4>2. g[i - 1] = x % PowerOf2[i - 1]
        BY <4>1
      <4>3. x % PowerOf2[i] = (x % PowerOf2[i - 1]) + Added(i)
        BY <1>4, <4>1
      <4> HIDE DEF g, Added, m
      <4>. QED
        BY <3>1, <3>3, <4>2, <4>3
    <3>. QED
      BY <3>2, <3>3
  <2> HIDE DEF Added
  <2>2. g = [i \in 0..(n * ByteBits) |-> g[i]]
    OBVIOUS
  <2> HIDE DEF g
  <2>. QED
    BY <2>1, <2>2 DEF m
<1>6. Weight = [i \in 0..(n * ByteBits) |-> IF i = 0 THEN 0 ELSE Weight[i - 1] + Added(i)]
  BY <1>5
<1> HIDE DEF Weight
<1>7. \A i \in Nat : i \in 0..m => Weight[i] = x % PowerOf2[i]
  <2> DEFINE S == {i \in Nat : i \in 0..m => Weight[i] = x % PowerOf2[i]}
  <2>1. \A i \in 0..m : Weight[i] = IF i = 0 THEN 0 ELSE Weight[i - 1] + Added(i)
    BY <1>6
  <2> HIDE DEF Added, m
  <2>2. 0 \in S
    BY <1>3, <2>1
  <2>3. ASSUME NEW i \in Nat, i \in S PROVE i + 1 \in S
    <3>1. SUFFICES ASSUME i + 1 \in 0..m PROVE Weight[i + 1] = x % PowerOf2[i + 1]
      OBVIOUS
    <3>2. i + 1 \in 1..m /\ i \in 0..m /\ i + 1 - 1 = i /\ i + 1 # 0
      BY <1>3, <3>1
    <3>3. Weight[i + 1] = Weight[i] + Added(i + 1)
      BY <2>1, <3>1, <3>2
    <3>4. x % PowerOf2[i + 1] = (x % PowerOf2[i]) + Added(i + 1)
      BY <1>4, <3>2
    <3>. QED
      BY <2>3, <3>2, <3>3, <3>4
  <2> HIDE DEF S
  <2>4. Nat \subseteq S
    BY <2>2, <2>3, NatSetInduction
  <2>. QED
    BY <2>4 DEF S
<1>8. Weight[n * ByteBits] = x % PowerOf2[n * ByteBits]
  <2>1. m \in 0..m
    <3> HIDE DEF m
    <3>. QED
      BY <1>3
  <2>. QED
    BY <1>3, <1>7, <2>1
<1>9. x % PowerOf2[n * ByteBits] = x
  <2> DEFINE p == PowerOf2[n * ByteBits]
  <2>1. p \in Nat \ {0} /\ x \in 0..(p - 1) /\ x = p * 0 + x /\ 0 \in Int
    <3>1. p \in Nat \ {0}
      BY PowerLaws
    <3>. QED
      BY <3>1
  <2> HIDE DEF p
  <2>2. x % p = x
    BY <2>1, DivUnique
  <2>. QED
    BY <2>2 DEF p
<1>. QED
  BY <1>1, <1>8, <1>9

\* The sum of digits is a number.
LEMMA DigitSumType == DigitSum \in [Nat -> Nat]
<1> DEFINE A == Nat
           h == [n \in Nat \ {0} |-> n \div 10]
           G == [p \in Nat \X A |-> IF p[1] < 10 THEN p[1] ELSE (p[1] % 10) + p[2]]
<1>1. PICK f \in [Nat -> A] : RecursOn(f, 0, h, G)
  <2>1. Descends(h)
    <3>1. \A n \in Nat \ {0} : n \div 10 \in Nat /\ n \div 10 < n
      OBVIOUS
    <3>. QED
      BY <3>1 DEF Descends
  <2>2. 0 \in A /\ G \in [Nat \X A -> A]
    <3>1. \A x, y \in Nat : (IF x < 10 THEN x ELSE (x % 10) + y) \in Nat
      OBVIOUS
    <3>. QED
      BY <3>1
  <2> HIDE DEF A, h, G
  <2>. QED
    BY <2>1, <2>2, RecursionExists
<1>2. \A n \in Nat : f[n] = IF n < 10 THEN n ELSE (n % 10) + f[n \div 10]
  <2>1. f[0] = 0 /\ \A n \in Nat \ {0} : f[n] = G[<<n, f[n \div 10]>>]
    BY <1>1 DEF RecursOn
  <2>2. \A n \in Nat : n \div 10 \in Nat
    OBVIOUS
  <2>3. \A n \in Nat \ {0} : G[<<n, f[n \div 10]>>] =
          IF n < 10 THEN n ELSE (n % 10) + f[n \div 10]
    BY <2>2
  <2> HIDE DEF A, h, G
  <2>4. ASSUME NEW n \in Nat PROVE f[n] = IF n < 10 THEN n ELSE (n % 10) + f[n \div 10]
    <3>1. CASE n = 0
      BY <2>1, <3>1
    <3>2. CASE n # 0
      BY <2>1, <2>3, <3>2
    <3>. QED
      BY <3>1, <3>2
  <2>. QED
    BY <2>4
<1>3. f = [n \in Nat |-> IF n < 10 THEN n ELSE (n % 10) + f[n \div 10]]
  BY <1>2
<1>4. DigitSum = [n \in Nat |-> IF n < 10 THEN n ELSE (n % 10) + DigitSum[n \div 10]]
  BY <1>3 DEF DigitSum
<1>. QED
  <2>1. \A n \in Nat : DigitSum[n] \in Nat
    <3> DEFINE S == {n \in Nat : DigitSum[n] \in Nat}
               T == {n \in Nat : \A k \in 0..n : k \in S}
    <3>1. ASSUME NEW n \in Nat, \A k \in 0..(n - 1) : k \in S PROVE n \in S
      <4>1. DigitSum[n] = IF n < 10 THEN n ELSE (n % 10) + DigitSum[n \div 10]
        BY <1>4
      <4>2. CASE n < 10
        BY <4>1, <4>2
      <4>3. CASE n >= 10
        <5>1. n \div 10 \in 0..(n - 1) /\ n % 10 \in Nat
          BY <4>3
        <5>2. DigitSum[n \div 10] \in Nat
          BY <3>1, <5>1
        <5>. QED
          BY <4>1, <4>3, <5>1, <5>2
      <4>. QED
        BY <4>2, <4>3
    <3> HIDE DEF S
    <3>2. 0 \in T
      <4>1. 0 \in S
        BY <3>1
      <4>. QED
        BY <4>1
    <3>3. ASSUME NEW n \in Nat, n \in T PROVE n + 1 \in T
      <4>1. \A k \in 0..(n + 1 - 1) : k \in S
        BY <3>3
      <4>2. n + 1 \in S
        BY <3>1, <4>1
      <4>3. \A k \in 0..(n + 1) : k \in 0..n \/ k = n + 1
        OBVIOUS
      <4>. QED
        BY <3>3, <4>2, <4>3
    <3> HIDE DEF T
    <3>4. Nat \subseteq T
      BY <3>2, <3>3, NatSetInduction
    <3>. QED
      BY <3>4 DEF T, S
  <2>. QED
    BY <1>4, <2>1

\* A checksum fits into a byte.
LEMMA ChecksumType ==
  ASSUME NEW data, Len(data) \in Nat,
         \A i \in 1..Len(data) : Seconds(data[i].frame_offset) \in Nat
  PROVE  /\ Checksum(data) \in Nat
         /\ Checksum(data) < PowerOf2[ByteBits]
<1> DEFINE k == Len(data)
           D(i) == DigitSum[Seconds(data[i].frame_offset)]
           A == Nat
           h == [n \in Nat \ {0} |-> n - 1]
           G == [p \in Nat \X A |-> IF p[1] \in 1..k THEN p[2] + D(p[1]) ELSE 0]
           Sum[i \in 0..Len(data)] ==
             IF i = 0 THEN 0 ELSE Sum[i - 1] + DigitSum[Seconds(data[i].frame_offset)]
<1>1. \A i \in 1..k : D(i) \in Nat
  BY DigitSumType
<1>2. PICK f \in [0..k -> A] : Recurs(f, k, 0, h, G)
  <2>1. Descends(h)
    BY DEF Descends
  <2>2. 0 \in A /\ G \in [Nat \X A -> A]
    <3> HIDE DEF D
    <3>1. \A n, y \in Nat : (IF n \in 1..k THEN y + D(n) ELSE 0) \in Nat
      BY <1>1
    <3>. QED
      BY <3>1
  <2> HIDE DEF A, h, G
  <2>. QED
    BY <2>1, <2>2, RecursionBounded
<1>3. \A i \in 0..k : f[i] = IF i = 0 THEN 0 ELSE f[i - 1] + D(i)
  <2>1. ASSUME NEW i \in 1..k PROVE f[i] = f[i - 1] + D(i)
    <3>1. i \in Nat \ {0} /\ i - 1 \in 0..k /\ i \in Nat
      OBVIOUS
    <3>2. h[i] = i - 1
      BY <3>1
    <3>3. f[i] = G[<<i, f[h[i]]>>]
      BY <1>2 DEF Recurs
    <3>4. G[<<i, f[i - 1]>>] = f[i - 1] + D(i)
      <4> HIDE DEF D
      <4>. QED
        BY <1>2, <3>1
    <3>. QED
      BY <3>2, <3>3, <3>4
  <2>2. f[0] = 0
    BY <1>2 DEF Recurs
  <2> HIDE DEF D
  <2>. QED
    BY <2>1, <2>2
<1>4. f = [i \in 0..Len(data) |-> IF i = 0 THEN 0 ELSE f[i - 1] + D(i)]
  <2> HIDE DEF D
  <2>1. f = [i \in 0..k |-> f[i]]
    BY <1>2
  <2>. QED
    BY <1>3, <2>1
<1>5. Sum = [i \in 0..Len(data) |-> IF i = 0 THEN 0 ELSE Sum[i - 1] + D(i)]
  BY <1>4
<1>6. Checksum(data) = Sum[k] % (PowerOf2[ByteBits] - 1)
  BY DEF Checksum
<1> HIDE DEF Sum
<1>7. \A i \in Nat : i \in 0..k => Sum[i] \in Nat
  <2> DEFINE S == {i \in Nat : i \in 0..k => Sum[i] \in Nat}
  <2>1. 0 \in S
    BY <1>5
  <2>2. ASSUME NEW i \in Nat, i \in S PROVE i + 1 \in S
    <3>1. SUFFICES ASSUME i + 1 \in 0..k PROVE Sum[i + 1] \in Nat
      OBVIOUS
    <3>2. i + 1 \in 1..k /\ i \in 0..k /\ i + 1 - 1 = i /\ i + 1 # 0
      BY <3>1
    <3> HIDE DEF D
    <3>3. Sum[i + 1] = Sum[i] + D(i + 1)
      BY <1>5, <3>1, <3>2
    <3>. QED
      BY <1>1, <2>2, <3>2, <3>3
  <2> HIDE DEF S
  <2>3. Nat \subseteq S
    BY <2>1, <2>2, NatSetInduction
  <2>. QED
    BY <2>3 DEF S
<1>8. Sum[k] \in Nat
  BY <1>7
<1>9. PowerOf2[ByteBits] \in Nat /\ PowerOf2[ByteBits] >= 2
  <2>1. ByteBits - 1 \in Nat /\ ByteBits - 1 + 1 = ByteBits
    BY ByteBitsAssumption
  <2>2. PowerOf2[ByteBits] = 2 * PowerOf2[ByteBits - 1] /\ PowerOf2[ByteBits - 1] \in Nat \ {0}
    BY <2>1, PowerLaws
  <2>. QED
    BY <2>2
<1>. QED
  <2> DEFINE p == PowerOf2[ByteBits] - 1
             x == Sum[k]
  <2>1. p \in Nat \ {0} /\ x \in Nat
    BY <1>8, <1>9
  <2>2. PowerOf2[ByteBits] = p + 1
    BY <1>9
  <2> HIDE DEF p, x
  <2>3. x % p \in Nat /\ x % p < p + 1
    BY <2>1, DivMod
  <2>4. Checksum(data) = x % p
    BY <1>6 DEF x, p
  <2>. QED
    BY <2>2, <2>3, <2>4

\* Where a bit of a number that is moved up is from.
LEMMA BitAt ==
  ASSUME NEW x, NEW k, NEW s \in Nat, s = k * ByteBits, NEW i \in 0..(Width - 1)
  PROVE  i \in Shifted(x, k) <=> i - s \in Bits(x)
<1>1. i \in Shifted(x, k) <=> \E j \in Bits(x) : i = j + s
  BY DEF Shifted
<1>2. \A j \in Bits(x) : j \in Int
  BY DEF Bits
<1>. QED
  BY <1>1, <1>2

\* The parts of a disc id that fit into their bytes are read back from it.
LEMMA DiscidHolds ==
  ASSUME NEW cnt \in Nat, cnt < PowerOf2[ByteBits],
         NEW time \in Nat, time < PowerOf2[2 * ByteBits],
         NEW sum \in Nat, sum < PowerOf2[ByteBits],
         NEW id, id = Shifted(sum, 3) \cup Shifted(time, 1) \cup Bits(cnt)
  PROVE  Bytes(id, 0, 1) = cnt /\ Bytes(id, 1, 2) = time /\ Bytes(id, 3, 1) = sum
<1> DEFINE B == ByteBits
<1>1. B \in Nat \ {0}
  BY ByteBitsAssumption
<1>2. Width = 4 * B
  BY DEF Width
<1>3. /\ B = 1 * ByteBits /\ 3 * B = 3 * ByteBits /\ 0 * ByteBits = 0
      /\ B \in Nat /\ 2 * B \in Nat /\ 3 * B \in Nat /\ 1 * ByteBits \in Nat
  BY <1>1
<1>4. ASSUME NEW i \in 0..(Width - 1)
      PROVE  i \in id <=> i - 3 * B \in Bits(sum) \/ i - B \in Bits(time) \/ i \in Bits(cnt)
  BY <1>3, <1>4, BitAt
<1>5. \A i \in Nat : i >= B => i \notin Bits(cnt) /\ i \notin Bits(sum)
  BY <1>3, NoBitsAbove
<1>6. \A i \in Nat : i >= 2 * B => i \notin Bits(time)
  BY <1>3, NoBitsAbove
<1>7. \A x : \A i : i \in Bits(x) <=> i \in 0..(4 * B - 1) /\ (x \div PowerOf2[i]) % 2 = 1
  BY <1>2 DEF Bits
<1>8. Bytes(id, 0, 1) = cnt
  <2>1. \A j \in 0..(1 * ByteBits - 1) :
          0 * ByteBits + j \in id <=> (cnt \div PowerOf2[j]) % 2 = 1
    <3>1. ASSUME NEW j \in 0..(B - 1) PROVE j \in id <=> (cnt \div PowerOf2[j]) % 2 = 1
      <4>1. j \in 0..(4 * B - 1) /\ j - 3 * B \notin 0..(4 * B - 1) /\ j - B \notin 0..(4 * B - 1)
        BY <1>1
      <4>2. j - 3 * B \notin Bits(sum) /\ j - B \notin Bits(time)
        BY <1>7, <4>1
      <4>3. j \in id <=> j \in Bits(cnt)
        BY <1>2, <1>4, <4>1, <4>2
      <4>. QED
        BY <1>7, <4>1, <4>3
    <3>. QED
      BY <1>3, <3>1
  <2>2. cnt < PowerOf2[1 * ByteBits]
    BY <1>3
  <2>. QED
    BY <1>3, <2>1, <2>2, BytesHold
<1>9. Bytes(id, 1, 2) = time
  <2>1. \A j \in 0..(2 * ByteBits - 1) :
          1 * ByteBits + j \in id <=> (time \div PowerOf2[j]) % 2 = 1
    <3>1. ASSUME NEW j \in 0..(2 * B - 1) PROVE B + j \in id <=> (time \div PowerOf2[j]) % 2 = 1
      <4>1. /\ B + j \in 0..(4 * B - 1) /\ (B + j) - 3 * B \notin 0..(4 * B - 1)
            /\ (B + j) - B = j /\ B + j \in Nat /\ B + j >= B /\ j \in 0..(4 * B - 1)
        BY <1>1
      <4>2. (B + j) - 3 * B \notin Bits(sum) /\ B + j \notin Bits(cnt)
        BY <1>5, <1>7, <4>1
      <4>3. B + j \in id <=> j \in Bits(time)
        BY <1>2, <1>4, <4>1, <4>2
      <4>. QED
        BY <1>7, <4>1, <4>3
    <3>. QED
      BY <1>3, <3>1
  <2>. QED
    BY <1>3, <2>1, BytesHold
<1>10. Bytes(id, 3, 1) = sum
  <2>1. \A j \in 0..(1 * ByteBits - 1) :
          3 * ByteBits + j \in id <=> (sum \div PowerOf2[j]) % 2 = 1
    <3>1. ASSUME NEW j \in 0..(B - 1) PROVE 3 * B + j \in id <=> (sum \div PowerOf2[j]) % 2 = 1
      <4>1. /\ 3 * B + j \in 0..(4 * B - 1) /\ (3 * B + j) - 3 * B = j
            /\ (3 * B + j) - B \in Nat /\ (3 * B + j) - B >= 2 * B
            /\ 3 * B + j \in Nat /\ 3 * B + j >= B /\ j \in 0..(4 * B - 1)
        BY <1>1
      <4>2. (3 * B + j) - B \notin Bits(time) /\ 3 * B + j \notin Bits(cnt)
        BY <1>5, <1>6, <4>1
      <4>3. 3 * B + j \in id <=> j \in Bits(sum)
        BY <1>2, <1>4, <4>1, <4>2
      <4>. QED
        BY <1>7, <4>1, <4>3
    <3>. QED
      BY <1>3, <3>1
  <2>2. sum < PowerOf2[1 * ByteBits]
    BY <1>3
  <2>. QED
    BY <1>3, <2>1, <2>2, BytesHold
<1>. QED
  BY <1>8, <1>9, <1>10

\* A disc id of the structures is one of the abstract discs.
LEMMA AbsBytes == \A id, k, n : Abs!Bytes(id, k, n) = Bytes(id, k, n)
  BY AbsNumbers DEF Abs!Bytes, Bytes

\* The number of tracks, the playing time and the checksum are read back from a disc id.
LEMMA AbsCalcStep ==
  ASSUME DiscIInv, DiscIInv', NEW d \in Discs, CddbDiscCalcDiscid(d)
  PROVE  Abs!SpecCalcDiscid(d)
<1> DEFINE data == [i \in DOMAIN order[d] |-> track[order[d][i]]]
           cnt  == Len(order[d])
           time == disc[d].length - Seconds(data[1].frame_offset)
           id   == IF tracks[d] = Null THEN {}
                   ELSE Shifted(Checksum(data), 3) \cup Shifted(PlayingTime(d), 1)
                        \cup Bits(track_cnt[d])
<1>1. /\ disc[d] # Null /\ disc' = [disc EXCEPT ![d].discid = id]
      /\ iterator' = [iterator EXCEPT ![d] = Null] /\ UNCHANGED <<track, links, out, origin>>
  BY ChainIsOrder DEF CddbDiscCalcDiscid
<1>2. order' = order
  BY <1>1 DEF links
<1>3. disc'[d].discid = id
  <2> HIDE DEF id
  <2>1. disc \in [Discs -> DiscData \cup {Null}]
    BY Parts DEF DataTypes
  <2>2. disc[d] \in DiscData
    BY <1>1, <2>1
  <2>3. disc[d] = [x \in DOMAIN disc[d] |-> disc[d][x]] /\ "discid" \in DOMAIN disc[d]
    BY <2>2 DEF DiscData
  <2>. QED
    BY <1>1, <2>1, <2>3
<1>4. cursor' = [cursor EXCEPT ![d] = 0]
  <2>1. CursorShape /\ CursorShape'
    BY CursorIs, PTL
  <2>2. cursor \in [Discs -> Nat] /\ cursor' \in [Discs -> Nat]
    BY <2>1 DEF CursorShape
  <2>3. cursor'[d] = 0
    BY <1>1, <2>1, Parts DEF CursorShape, DataTypes
  <2>4. ASSUME NEW e \in Discs \ {d} PROVE cursor'[e] = cursor[e]
    <3>1. iterator'[e] = iterator[e] /\ order'[e] = order[e]
      BY <1>1, <1>2, Parts DEF DataTypes
    <3>. QED
      BY <2>1, <3>1, CursorSame
  <2>. QED
    BY <2>2, <2>3, <2>4
<1>5. cnt \in Nat /\ track_cnt[d] = cnt /\ DOMAIN data = 1..cnt /\ Len(data) = cnt
  <2>1. cnt \in Nat /\ DOMAIN order[d] = 1..cnt /\ track_cnt[d] = cnt
    BY OrderShape, Parts DEF Strung
  <2>. QED
    BY <2>1
<1>6. \A i \in 1..cnt : /\ data[i] = track[order[d][i]] /\ data[i] \in TrackData
                        /\ Seconds(data[i].frame_offset) \in Nat
  <2>1. ASSUME NEW i \in 1..cnt
        PROVE  /\ data[i] = track[order[d][i]] /\ data[i] \in TrackData
               /\ Seconds(data[i].frame_offset) \in Nat
    <3>1. data[i] = track[order[d][i]]
      BY <1>5
    <3>2. track[order[d][i]] \in TrackData
      <4>1. order[d][i] \in Tracks /\ track[order[d][i]] # Null
        BY Places
      <4>. QED
        BY <4>1, Parts DEF DataTypes
    <3> HIDE DEF data
    <3>3. data[i].frame_offset \in Int /\ data[i].frame_offset >= -1
      BY <3>1, <3>2 DEF TrackData
    <3>. QED
      BY <3>1, <3>2, <3>3, SecondsType
  <2>. QED
    BY <2>1
<1>7. order[d] = <<>> => id = {}
  BY Parts DEF Strung
<1>8. ASSUME order[d] # <<>>, time \in 0..(PowerOf2[2 * ByteBits] - 1), cnt < PowerOf2[ByteBits]
      PROVE  Bytes(id, 0, 1) = cnt /\ Bytes(id, 1, 2) = time /\ Bytes(id, 3, 1) = Checksum(data)
  <2>1. 1 \in 1..cnt /\ tracks[d] = order[d][1] /\ tracks[d] # Null
    BY <1>8, OrderShape, Parts DEF Strung
  <2>2. data[1] = track[tracks[d]]
    BY <1>6, <2>1
  <2>3. Checksum(data) \in Nat /\ Checksum(data) < PowerOf2[ByteBits]
    <3>1. \A i \in 1..cnt : Seconds(data[i].frame_offset) \in Nat
      BY <1>6
    <3> HIDE DEF data
    <3>. QED
      BY <1>5, <3>1, ChecksumType
  <2>4. PlayingTime(d) = time % PowerOf2[Width]
    BY <2>2 DEF PlayingTime
  <2> HIDE DEF data, cnt, time
  <2>5. time \in Nat /\ time < PowerOf2[2 * ByteBits] /\ PowerOf2[2 * ByteBits] \in Nat
    <3>1. 2 * ByteBits \in Nat
      BY ByteBitsAssumption
    <3>2. PowerOf2[2 * ByteBits] \in Nat
      BY <3>1, PowerLaws
    <3>. QED
      BY <1>8, <3>2
  <2>6. PlayingTime(d) = time
    <3>1. 2 * ByteBits \in Nat /\ Width \in Nat /\ 2 * ByteBits <= Width
      BY ByteBitsAssumption DEF Width
    <3>2. PowerOf2[2 * ByteBits] <= PowerOf2[Width] /\ PowerOf2[Width] \in Nat \ {0}
      BY <3>1, PowersGrow, PowerLaws
    <3> DEFINE p == PowerOf2[Width]
    <3>3. p \in Nat \ {0} /\ time \in 0..(p - 1) /\ time = p * 0 + time /\ 0 \in Int
      BY <2>5, <3>2
    <3> HIDE DEF p
    <3>4. time % p = time
      BY <2>5, <3>3, DivUnique
    <3>. QED
      BY <2>4, <3>4 DEF p
  <2>7. id = Shifted(Checksum(data), 3) \cup Shifted(time, 1) \cup Bits(cnt)
    BY <1>5, <2>1, <2>6
  <2> HIDE DEF id
  <2>. QED
    BY <1>5, <1>8, <2>3, <2>5, <2>7, DiscidHolds
<1> HIDE DEF id
<1>9. \E new \in {disc'[d].discid} :
        /\ disc' = [disc EXCEPT ![d].discid = new]
        /\ IF order[d] = <<>> THEN new = {}
           ELSE time \in 0..(PowerOf2[2 * ByteBits] - 1) /\ Len(data) < PowerOf2[ByteBits] =>
                /\ Bytes(new, 0, 1) = Len(data)
                /\ Bytes(new, 1, 2) = time
                /\ Bytes(new, 3, 1) = Checksum(data)
  <2> HIDE DEF data, time
  <2>. QED
    BY <1>1, <1>3, <1>5, <1>7, <1>8
<1>. QED
  BY <1>1, <1>2, <1>4, <1>9, AbsBytes, AbsNumbers, AbsChecksum
     DEF Abs!SpecCalcDiscid, Abs!Exists

\* The first state of the structures is the first one of the abstract discs.
LEMMA AbsInit == Init => Abs!SpecInit
<1>. SUFFICES ASSUME Init PROVE Abs!SpecInit
  OBVIOUS
<1>1. cursor = [d \in Discs |-> 0]
  BY DEF Init, cursor
<1>. QED
  BY <1>1, AbsData DEF Init, Abs!SpecInit

\* Every call is one of the abstract discs, or changes nothing of them.
LEMMA AbsStep ==
  ASSUME Indices \subseteq Nat, DiscIInv, DiscIInv', [Next]_discVars
  PROVE  [Abs!SpecStep]_(Abs!specVars)
<1>1. ASSUME NEW d \in Discs,
             \/ CddbDiscNew(d) \/ CddbDiscDestroy(d) \/ CddbDiscCalcDiscid(d)
             \/ CddbDiscGetTrackFirst(d) \/ CddbDiscGetTrackNext(d)
             \/ \E n \in Indices : CddbDiscGetTrack(d, n)
             \/ \E f \in DOMAIN DiscValues : \E x \in DiscValues[f] :
                  CddbDiscSet(d, f, x) \/ CddbDiscAppend(d, f, x)
             \/ \E x \in DiscValues.genre : CddbDiscSetCategoryStr(d, x[1])
             \/ \E t \in Tracks : CddbDiscAddTrack(d, t)
             \/ \E e \in Discs : CddbDiscClone(d, e) \/ CddbDiscCopy(d, e)
      PROVE  Abs!SpecStep
  <2>1. CASE CddbDiscNew(d)
    <3>1. Abs!SpecDiscNew(d)
      BY <2>1, AbsDiscSteps
    <3>. QED
      BY <3>1 DEF Abs!SpecStep
  <2>2. CASE \/ \E f \in DOMAIN DiscValues : \E x \in DiscValues[f] :
                  CddbDiscSet(d, f, x) \/ CddbDiscAppend(d, f, x)
             \/ \E x \in DiscValues.genre : CddbDiscSetCategoryStr(d, x[1])
    <3>1. Abs!SpecSetDisc(d)
      BY <2>2, AbsDiscSteps
    <3>. QED
      BY <3>1 DEF Abs!SpecStep
  <2>3. CASE \/ CddbDiscGetTrackFirst(d) \/ CddbDiscGetTrackNext(d)
             \/ \E n \in Indices : CddbDiscGetTrack(d, n)
    <3>1. \/ Abs!SpecFirst(d) \/ Abs!SpecNext(d) \/ \E n \in Indices : Abs!SpecGetTrack(d, n)
      BY <2>3, AbsWalkSteps
    <3>. QED
      BY <3>1 DEF Abs!SpecStep
  <2>4. CASE CddbDiscDestroy(d) \/ \E t \in Tracks : CddbDiscAddTrack(d, t)
    <3>1. Abs!SpecDiscDestroy(d) \/ \E t \in Tracks : Abs!SpecAddTrack(d, t)
      BY <2>4, AbsAddSteps
    <3>. QED
      BY <3>1 DEF Abs!SpecStep
  <2>5. CASE CddbDiscCalcDiscid(d)
    <3>1. Abs!SpecCalcDiscid(d)
      BY <2>5, AbsCalcStep
    <3>. QED
      BY <3>1 DEF Abs!SpecStep
  <2>6. CASE \E e \in Discs : CddbDiscClone(d, e) \/ CddbDiscCopy(d, e)
    <3>1. \E e \in Discs : Abs!SpecDiscClone(d, e) \/ Abs!SpecDiscCopy(d, e)
      BY <2>6, AbsCloneStep, AbsCopyStep
    <3>. QED
      BY <3>1 DEF Abs!SpecStep
  <2>. QED
    BY <1>1, <2>1, <2>2, <2>3, <2>4, <2>5, <2>6
<1>2. ASSUME NEW t \in Tracks,
             \/ CddbTrackNew(t) \/ CddbTrackDestroy(t) \/ CddbTrackGetLength(t)
             \/ \E f \in TrackTexts : \E x \in TrackValues[f] :
                  CddbTrackSet(t, f, x) \/ CddbTrackAppend(t, f, x)
             \/ \E x \in TrackValues.frame_offset : CddbTrackSetFrameOffset(t, x)
             \/ \E x \in TrackValues.length : CddbTrackSetLength(t, x)
             \/ \E u \in Tracks : CddbTrackClone(t, u) \/ CddbTrackCopy(t, u)
      PROVE  Abs!SpecStep
  <2>1. \/ Abs!SpecTrackNew(t) \/ Abs!SpecTrackDestroy(t) \/ Abs!SpecSetTrack(t)
        \/ \E u \in Tracks : Abs!SpecTrackClone(t, u) \/ Abs!SpecTrackCopy(t, u)
    BY <1>2, AbsTrackSteps
  <2>. QED
    BY <2>1 DEF Abs!SpecStep
<1>3. ASSUME UNCHANGED discVars PROVE UNCHANGED Abs!specVars
  BY <1>3 DEF discVars, links, Abs!specVars, cursor
<1>. QED
  BY <1>1, <1>2, <1>3 DEF Next

\* The structures, pointers, counters and iterators of cddb_disc.c and cddb_track.c implement
\* discs that are sequences of tracks with a cursor, and a disc id tells the number of
\* tracks, the playing time and the checksum, for any application that asks for
\* tracks with numbers from 0 on.
THEOREM DiscsImplementSpec ==
  ASSUME Indices \subseteq Nat
  PROVE  Spec => ImplementsDiscs
<1>1. DiscIInv /\ DiscIInv' /\ [Next]_discVars => [Abs!SpecStep]_(Abs!specVars)
  BY AbsStep
<1>. QED
  BY <1>1, AbsInit, DiscAlways, PTL DEF Spec, ImplementsDiscs, Abs!DiscSpec

=============================================================================
