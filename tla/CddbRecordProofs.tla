--------------------------- MODULE CddbRecordProofs ---------------------------
(***************************************************************************)
(* Theorems about CddbRecord, for every vocabulary, every set of complete  *)
(* discs to write and every number of calls and faults.                    *)
(*                                                                         *)
(* The first part says what the operators make: a text that is converted,  *)
(* there and back; the lines of a record and where each of them stands; a  *)
(* disc with one of its parts given; a line put in or split in two.  The   *)
(* second takes the actions one by one.  The third follows a record        *)
(* through a read: what each of its lines, in whatever parts, has told.    *)
(***************************************************************************)
EXTENDS CddbRecord, SequenceTheorems, TLAPS

----------------------------------------------------------------------------
(* Texts and their conversion.                                             *)

\* cddb_str_iconv changes how often each word was converted and nothing else.
LEMMA StrIconvIs ==
  ASSUME NEW t \in Seq(Words), NEW by \in Int
  PROVE  /\ StrIconv(t, by) \in Seq(Words) /\ StrIconv(t, by) # Null
         /\ Len(StrIconv(t, by)) = Len(t)
         /\ \A i \in 1..Len(t) :
              /\ StrIconv(t, by)[i].w = t[i].w
              /\ StrIconv(t, by)[i].enc = IF t[i].w \in Ascii THEN t[i].enc ELSE t[i].enc + by
<1> DEFINE u == StrIconv(t, by)
<1>1. DOMAIN t = 1..Len(t) /\ Len(t) \in Nat
  OBVIOUS
<1>2. u = [i \in 1..Len(t) |-> IF t[i].w \in Ascii THEN t[i] ELSE [t[i] EXCEPT !.enc = @ + by]]
  BY <1>1 DEF StrIconv
<1>3. ASSUME NEW i \in 1..Len(t)
      PROVE  /\ u[i] \in Words /\ u[i].w = t[i].w
             /\ u[i].enc = IF t[i].w \in Ascii THEN t[i].enc ELSE t[i].enc + by
  <2> DEFINE e == t[i]
             r == [e EXCEPT !.enc = @ + by]
  <2>1. e \in Words
    OBVIOUS
  <2>2. u[i] = IF e.w \in Ascii THEN e ELSE r
    BY <1>2
  <2> HIDE DEF u, e
  <2>3. e.w \in Vocabulary /\ e.enc \in Int
    BY <2>1 DEF Words
  <2>4. r \in Words /\ r.w = e.w /\ r.enc = e.enc + by
    BY <2>1, <2>3 DEF Words
  <2> HIDE DEF r
  <2>5. /\ u[i] \in Words /\ u[i].w = e.w
        /\ u[i].enc = IF e.w \in Ascii THEN e.enc ELSE e.enc + by
    BY <2>1, <2>2, <2>4
  <2>. QED
    BY <2>5 DEF e
<1>4. u \in Seq(Words) /\ Len(u) = Len(t)
  <2> HIDE DEF u
  <2>. QED
    BY <1>1, <1>2, <1>3
<1>5. u # Null
  BY <1>4, NullIsNoText
<1>. QED
  BY <1>3, <1>4, <1>5

\* Texts of the same words, converted as often, are the same.
LEMMA WordsEqual ==
  ASSUME NEW a \in Seq(Words), NEW b \in Seq(Words), Len(a) = Len(b),
         \A i \in 1..Len(a) : a[i].w = b[i].w /\ a[i].enc = b[i].enc
  PROVE  a = b
<1>1. \A i \in 1..Len(a) : a[i] = b[i]
  <2> SUFFICES ASSUME NEW i \in 1..Len(a) PROVE a[i] = b[i]
    OBVIOUS
  <2>1. a[i] \in Words /\ b[i] \in Words /\ a[i].w = b[i].w /\ a[i].enc = b[i].enc
    OBVIOUS
  <2>2. /\ a[i] = [w |-> a[i].w, enc |-> a[i].enc]
        /\ b[i] = [w |-> b[i].w, enc |-> b[i].enc]
    BY <2>1 DEF Words
  <2>. QED
    BY <2>1, <2>2
<1>. QED
  BY <1>1

\* What is converted to the character set of the database and back is what it was.
LEMMA StrIconvBack ==
  ASSUME NEW t \in Seq(Words)
  PROVE  StrIconv(StrIconv(t, 1), -1) = t
<1> DEFINE u == StrIconv(t, 1)
           v == StrIconv(u, -1)
<1>1. /\ u \in Seq(Words) /\ Len(u) = Len(t)
      /\ \A i \in 1..Len(t) : /\ u[i].w = t[i].w
                              /\ u[i].enc = IF t[i].w \in Ascii THEN t[i].enc ELSE t[i].enc + 1
  BY StrIconvIs
<1> HIDE DEF u
<1>2. /\ v \in Seq(Words) /\ Len(v) = Len(u)
      /\ \A i \in 1..Len(u) : /\ v[i].w = u[i].w
                              /\ v[i].enc = IF u[i].w \in Ascii THEN u[i].enc ELSE u[i].enc + (-1)
  BY <1>1, StrIconvIs
<1> HIDE DEF v
<1>3. \A i \in 1..Len(v) : v[i].w = t[i].w /\ v[i].enc = t[i].enc
  <2> SUFFICES ASSUME NEW i \in 1..Len(t) PROVE v[i].w = t[i].w /\ v[i].enc = t[i].enc
    BY <1>1, <1>2
  <2>1. t[i].enc \in Int
    <3>1. t[i] \in Words
      OBVIOUS
    <3>. QED
      BY <3>1 DEF Words
  <2>. QED
    BY <1>1, <1>2, <2>1
<1>4. v = t
  BY <1>1, <1>2, <1>3, WordsEqual
<1>. QED
  BY <1>4 DEF v, u

\* NULL is left out.
TextIconv(text, by) == IF text = Null THEN text ELSE StrIconv(text, by)

\* A text that may be NULL stays NULL or a text.
LEMMA TextIconvIs ==
  ASSUME NEW t \in Texts, NEW by \in Int
  PROVE  /\ TextIconv(t, by) \in Texts
         /\ TextIconv(t, by) = Null <=> t = Null
         /\ Undivided(t) <=> Undivided(TextIconv(t, by))
<1>1. CASE t = Null
  BY <1>1 DEF TextIconv, Texts
<1>2. CASE t # Null
  <2>1. t \in Seq(Words)
    BY <1>2 DEF Texts
  <2> DEFINE u == StrIconv(t, by)
  <2>2. u \in Seq(Words) /\ Len(u) = Len(t) /\ u # Null /\ \A i \in 1..Len(t) : u[i].w = t[i].w
    BY <2>1, StrIconvIs
  <2>3. TextIconv(t, by) = u
    BY <1>2 DEF TextIconv
  <2> HIDE DEF u
  <2>4. DOMAIN t = 1..Len(t) /\ DOMAIN u = 1..Len(t)
    BY <2>1, <2>2
  <2>. QED
    BY <1>2, <2>2, <2>3, <2>4 DEF Texts, Undivided
<1>. QED
  BY <1>1, <1>2

\* Text k of a disc with the first m converted.
UpTo(text, by, k, m) == IF k > m THEN text ELSE TextIconv(text, by)

\* One of the texts of a disc, converted or left as it is.
LEMMA UpToIs ==
  ASSUME NEW t \in Texts, NEW by \in Int, NEW k \in Int, NEW m \in Int
  PROVE  /\ UpTo(t, by, k, m) \in Texts
         /\ UpTo(t, by, k, m) = Null <=> t = Null
         /\ Undivided(t) <=> Undivided(UpTo(t, by, k, m))
  BY TextIconvIs DEF UpTo

TrackUpTo(t, by, j, m) ==
  [t EXCEPT !.title = UpTo(@, by, 3 * j + 2, m), !.artist = UpTo(@, by, 3 * j + 3, m),
            !.ext_data = UpTo(@, by, 3 * j + 4, m)]

\* The texts of a track, as far as the conversion came.
LEMMA TrackUpToIs ==
  ASSUME NEW t \in TrackData, NEW by \in Int, NEW j \in Int, NEW m \in Int
  PROVE  /\ TrackUpTo(t, by, j, m) \in TrackData
         /\ TrackUpTo(t, by, j, m).frame_offset = t.frame_offset
         /\ TrackUpTo(t, by, j, m).title = Null <=> t.title = Null
         /\ Undivided(t.title) <=> Undivided(TrackUpTo(t, by, j, m).title)
         /\ Undivided(t.artist) <=> Undivided(TrackUpTo(t, by, j, m).artist)
<1> DEFINE a == UpTo(t.title, by, 3 * j + 2, m)
           b == UpTo(t.artist, by, 3 * j + 3, m)
           c == UpTo(t.ext_data, by, 3 * j + 4, m)
<1>1. t.title \in Texts /\ t.artist \in Texts /\ t.ext_data \in Texts /\ t.frame_offset \in Nat \cup {-1}
  BY DEF TrackData
<1>2. a \in Texts /\ (a = Null <=> t.title = Null) /\ (Undivided(t.title) <=> Undivided(a))
  BY <1>1, UpToIs
<1>3. b \in Texts /\ (Undivided(t.artist) <=> Undivided(b))
  BY <1>1, UpToIs
<1>4. c \in Texts
  BY <1>1, UpToIs
<1>5. TrackUpTo(t, by, j, m) = [t EXCEPT !.title = a, !.artist = b, !.ext_data = c]
  BY DEF TrackUpTo
<1> HIDE DEF a, b, c
<1>. QED
  BY <1>1, <1>2, <1>3, <1>4, <1>5 DEF TrackData

\* The texts of a disc, converted up to the m-th.
IsConverted(c, d, by, m) ==
  /\ c \in DiscData
  /\ c.length = d.length /\ c.revision = d.revision /\ c.year = d.year
  /\ c.category = d.category
  /\ c.genre = UpTo(d.genre, by, 1, m) /\ c.title = UpTo(d.title, by, 2, m)
  /\ c.artist = UpTo(d.artist, by, 3, m) /\ c.ext_data = UpTo(d.ext_data, by, 4, m)
  /\ Len(c.tracks) = Len(d.tracks)
  /\ \A j \in 1..Len(d.tracks) : c.tracks[j] = TrackUpTo(d.tracks[j], by, j, m)

\* A disc converted up to some text has the shape of the disc.
LEMMA ConvertedIs ==
  ASSUME NEW d \in DiscData, NEW by \in Int, NEW m \in Int, NEW c, c = Converted(d, by, m)
  PROVE  IsConverted(c, d, by, m)
<1> DEFINE g == UpTo(d.genre, by, 1, m)
           t == UpTo(d.title, by, 2, m)
           a == UpTo(d.artist, by, 3, m)
           e == UpTo(d.ext_data, by, 4, m)
           s == [j \in DOMAIN d.tracks |-> TrackUpTo(d.tracks[j], by, j, m)]
<1>1. c = [d EXCEPT !.genre = g, !.title = t, !.artist = a, !.ext_data = e, !.tracks = s]
  BY DEF Converted, UpTo, TrackUpTo, TextIconv
<1>2. /\ d.genre \in Texts /\ d.title \in Texts /\ d.artist \in Texts /\ d.ext_data \in Texts
      /\ d.tracks \in Seq(TrackData)
  BY DEF DiscData
<1>3. g \in Texts /\ t \in Texts /\ a \in Texts /\ e \in Texts
  <2>1. g \in Texts
    BY <1>2, UpToIs
  <2>2. t \in Texts
    BY <1>2, UpToIs
  <2>3. a \in Texts
    BY <1>2, UpToIs
  <2>4. e \in Texts
    BY <1>2, UpToIs
  <2>. QED
    BY <2>1, <2>2, <2>3, <2>4
<1>4. s \in Seq(TrackData) /\ Len(s) = Len(d.tracks)
      /\ \A j \in 1..Len(d.tracks) : s[j] = TrackUpTo(d.tracks[j], by, j, m)
  <2>1. DOMAIN d.tracks = 1..Len(d.tracks) /\ Len(d.tracks) \in Nat
    BY <1>2
  <2>2. \A j \in 1..Len(d.tracks) : TrackUpTo(d.tracks[j], by, j, m) \in TrackData
    BY <1>2, TrackUpToIs
  <2>. QED
    BY <2>1, <2>2
<1> HIDE DEF g, t, a, e, s
<1>5. c \in DiscData /\ c.genre = g /\ c.title = t /\ c.artist = a /\ c.ext_data = e /\ c.tracks = s
      /\ c.length = d.length /\ c.revision = d.revision /\ c.year = d.year
      /\ c.category = d.category
  BY <1>1, <1>3, <1>4 DEF DiscData
<1>. QED
  BY <1>4, <1>5 DEF IsConverted, g, t, a, e

\* All of a disc or nothing is converted.
Coded(text, by) == IF Charset THEN TextIconv(text, by) ELSE text

CodedTrack(t, by) ==
  [t EXCEPT !.title = Coded(@, by), !.artist = Coded(@, by), !.ext_data = Coded(@, by)]

\* A text in the other character set is a text again.
LEMMA CodedIs ==
  ASSUME NEW t \in Texts, NEW by \in Int
  PROVE  /\ Coded(t, by) \in Texts
         /\ Coded(t, by) = Null <=> t = Null
         /\ Undivided(t) <=> Undivided(Coded(t, by))
  BY TextIconvIs DEF Coded

\* Converted there and back it is the text it was.
LEMMA CodedBack ==
  ASSUME NEW t \in Texts
  PROVE  Coded(Coded(t, 1), -1) = t
<1>1. CASE t = Null \/ ~Charset
  BY <1>1 DEF Coded, TextIconv
<1>2. CASE t # Null /\ Charset
  <2>1. t \in Seq(Words)
    BY <1>2 DEF Texts
  <2>2. StrIconv(t, 1) # Null /\ StrIconv(StrIconv(t, 1), -1) = t
    BY <2>1, StrIconvIs, StrIconvBack
  <2>. QED
    BY <1>2, <2>2 DEF Coded, TextIconv
<1>. QED
  BY <1>1, <1>2

\* So it is with the texts of a track.
LEMMA CodedTrackIs ==
  ASSUME NEW t \in TrackData, NEW by \in Int, NEW c, c = CodedTrack(t, by)
  PROVE  /\ c \in TrackData /\ c.frame_offset = t.frame_offset
         /\ c.title = Coded(t.title, by) /\ c.artist = Coded(t.artist, by)
         /\ c.ext_data = Coded(t.ext_data, by)
<1>1. t.title \in Texts /\ t.artist \in Texts /\ t.ext_data \in Texts
  BY DEF TrackData
<1>2. Coded(t.title, by) \in Texts /\ Coded(t.artist, by) \in Texts /\ Coded(t.ext_data, by) \in Texts
  BY <1>1, CodedIs
<1>. QED
  BY <1>2 DEF TrackData, CodedTrack

IsCoded(c, d, by) ==
  /\ c \in DiscData
  /\ c.length = d.length /\ c.revision = d.revision /\ c.year = d.year
  /\ c.category = d.category
  /\ c.genre = Coded(d.genre, by) /\ c.title = Coded(d.title, by)
  /\ c.artist = Coded(d.artist, by) /\ c.ext_data = Coded(d.ext_data, by)
  /\ Len(c.tracks) = Len(d.tracks)
  /\ \A j \in 1..Len(d.tracks) : c.tracks[j] = CodedTrack(d.tracks[j], by)

\* DiscIconv says that of all texts of a disc.
LEMMA DiscIconvIs ==
  ASSUME NEW d \in DiscData, NEW by \in Int, NEW c, c = DiscIconv(d, by)
  PROVE  IsCoded(c, d, by)
<1>1. CASE ~Charset
  <2>1. c = d
    BY <1>1 DEF DiscIconv
  <2>2. d.tracks \in Seq(TrackData)
    BY DEF DiscData
  <2>3. ASSUME NEW j \in 1..Len(d.tracks) PROVE d.tracks[j] = CodedTrack(d.tracks[j], by)
    <3> DEFINE t == d.tracks[j]
    <3>1. t \in TrackData
      BY <2>2
    <3>2. CodedTrack(t, by) = [t EXCEPT !.title = @, !.artist = @, !.ext_data = @]
      BY <1>1 DEF CodedTrack, Coded
    <3> HIDE DEF t
    <3>3. CodedTrack(t, by) = t
      BY <3>1, <3>2 DEF TrackData
    <3>. QED
      BY <3>3 DEF t
  <2>. QED
    BY <1>1, <2>1, <2>3 DEF Coded, IsCoded
<1>2. CASE Charset
  <2> DEFINE m == 4 + 3 * Len(d.tracks)
  <2>1. d.tracks \in Seq(TrackData) /\ Len(d.tracks) \in Nat
    BY DEF DiscData
  <2>2. m \in Int /\ 4 <= m
    BY <2>1
  <2>3. \A j \in 1..Len(d.tracks) : 3 * j + 2 <= m /\ 3 * j + 3 <= m /\ 3 * j + 4 <= m
    BY <2>1
  <2>4. c = Converted(d, by, m)
    BY <1>2 DEF DiscIconv
  <2> HIDE DEF m
  <2>5. IsConverted(c, d, by, m)
    BY <2>2, <2>4, ConvertedIs
  <2>6. ASSUME NEW t, NEW k \in Int, k <= m PROVE UpTo(t, by, k, m) = Coded(t, by)
    <3>1. ~(k > m)
      BY <2>2, <2>6
    <3>. QED
      BY <1>2, <3>1 DEF UpTo, Coded
  <2>7. ASSUME NEW j \in 1..Len(d.tracks) PROVE c.tracks[j] = CodedTrack(d.tracks[j], by)
    <3>1. j \in Int /\ 3 * j + 2 \in Int /\ 3 * j + 3 \in Int /\ 3 * j + 4 \in Int
      OBVIOUS
    <3>2. TrackUpTo(d.tracks[j], by, j, m) = CodedTrack(d.tracks[j], by)
      BY <2>3, <2>6, <3>1 DEF TrackUpTo, CodedTrack
    <3>. QED
      BY <2>5, <3>2 DEF IsConverted
  <2>8. 1 <= m /\ 2 <= m /\ 3 <= m /\ 4 <= m
    BY <2>2
  <2>. QED
    BY <2>5, <2>6, <2>7, <2>8 DEF IsConverted, IsCoded
<1>. QED
  BY <1>1, <1>2

\* A disc whose record can be written and read.
Writable(d) == d \in DiscData /\ Complete(d) /\ AllUndivided(d)

\* Converting texts keeps what cddb_write asks of a disc.
LEMMA ConvertedKeeps ==
  ASSUME NEW d \in DiscData, NEW by \in Int, NEW m \in Int, NEW c, c = Converted(d, by, m)
  PROVE  /\ AllUndivided(d) => AllUndivided(c)
         /\ Writable(d) => Writable(c)
<1>1. IsConverted(c, d, by, m)
  BY ConvertedIs
<1>2. /\ d.title \in Texts /\ d.artist \in Texts /\ d.tracks \in Seq(TrackData)
      /\ c.tracks \in Seq(TrackData) /\ Len(d.tracks) \in Nat
  BY <1>1 DEF DiscData, IsConverted
<1>3. (c.title = Null <=> d.title = Null) /\ (Undivided(c.title) <=> Undivided(d.title))
  BY <1>1, <1>2, UpToIs DEF IsConverted
<1>4. (c.artist = Null <=> d.artist = Null) /\ (Undivided(c.artist) <=> Undivided(d.artist))
  BY <1>1, <1>2, UpToIs DEF IsConverted
<1>5. ASSUME NEW j \in 1..Len(d.tracks)
      PROVE  /\ c.tracks[j].frame_offset = d.tracks[j].frame_offset
             /\ c.tracks[j].title = Null <=> d.tracks[j].title = Null
             /\ Undivided(c.tracks[j].title) <=> Undivided(d.tracks[j].title)
             /\ Undivided(c.tracks[j].artist) <=> Undivided(d.tracks[j].artist)
  <2> DEFINE t == d.tracks[j]
             r == TrackUpTo(t, by, j, m)
  <2>1. t \in TrackData /\ j \in Int /\ c.tracks[j] = r
    BY <1>1, <1>2 DEF IsConverted
  <2> HIDE DEF t
  <2>2. /\ r.frame_offset = t.frame_offset
        /\ r.title = Null <=> t.title = Null
        /\ Undivided(t.title) <=> Undivided(r.title)
        /\ Undivided(t.artist) <=> Undivided(r.artist)
    BY <2>1, TrackUpToIs
  <2> HIDE DEF r
  <2>. QED
    BY <2>1, <2>2 DEF t
<1>6. DOMAIN d.tracks = 1..Len(d.tracks) /\ DOMAIN c.tracks = 1..Len(d.tracks)
      /\ (c.tracks = <<>> <=> d.tracks = <<>>)
  BY <1>1, <1>2 DEF IsConverted
<1>7. AllUndivided(d) => AllUndivided(c)
  BY <1>3, <1>4, <1>5, <1>6 DEF AllUndivided
<1>8. Complete(d) => Complete(c)
  BY <1>1, <1>3, <1>4, <1>5, <1>6 DEF Complete, IsConverted
<1>. QED
  BY <1>1, <1>7, <1>8 DEF Writable, IsConverted

\* The same of a whole disc.
LEMMA IconvKeeps ==
  ASSUME NEW d \in DiscData, NEW by \in Int, NEW c, c = DiscIconv(d, by)
  PROVE  c \in DiscData /\ (AllUndivided(d) => AllUndivided(c)) /\ (Writable(d) => Writable(c))
<1>1. CASE ~Charset
  BY <1>1 DEF DiscIconv
<1>2. CASE Charset
  <2>1. 4 + 3 * Len(d.tracks) \in Int
    BY DEF DiscData
  <2> DEFINE m == 4 + 3 * Len(d.tracks)
  <2>2. c = Converted(d, by, m)
    BY <1>2 DEF DiscIconv
  <2> HIDE DEF m
  <2>3. IsConverted(c, d, by, m)
    BY <2>1, <2>2, ConvertedIs DEF m
  <2>4. (AllUndivided(d) => AllUndivided(c)) /\ (Writable(d) => Writable(c))
    BY <2>1, <2>2, ConvertedKeeps DEF m
  <2>. QED
    BY <2>3, <2>4 DEF IsConverted
<1>. QED
  BY <1>1, <1>2

\* A conversion that fails leaves a disc all the same.
LEMMA IconvFailsKeeps ==
  ASSUME NEW d \in DiscData, NEW by \in Int, DiscIconvFails(d, by)
  PROVE  disc' \in DiscData /\ (AllUndivided(d) => AllUndivided(disc'))
<1>1. PICK n \in TextNumbers(d) : disc' = Converted(d, by, n - 1)
  BY DEF DiscIconvFails
<1>2. n - 1 \in Int
  BY DEF TextNumbers, DiscData
<1>3. IsConverted(disc', d, by, n - 1)
  BY <1>1, <1>2, ConvertedIs
<1>4. AllUndivided(d) => AllUndivided(disc')
  BY <1>1, <1>2, ConvertedKeeps
<1>. QED
  BY <1>3, <1>4 DEF IsConverted

----------------------------------------------------------------------------
(* The lines of a record.                                                  *)

\* What Line makes.
LEMMA LineFields ==
  ASSUME NEW key, NEW no, NEW data
  PROVE  /\ Line(key, no, data).key = key /\ Line(key, no, data).no = no
         /\ Line(key, no, data).data = data
  BY DEF Line

\* The lines that have a number,
LEMMA NumberLine ==
  ASSUME NEW key \in {"offset", "length", "revision", "year"}, NEW data \in Nat
  PROVE  Line(key, 0, data) \in Lines
  BY DEF Line, Lines

\* those that have a text,
LEMMA TextLine ==
  ASSUME NEW key \in Textual, NEW no \in Nat, NEW data \in Seq(Words)
  PROVE  Line(key, no, data) \in Lines
  BY DEF Line, Lines

\* and those that have neither.
LEMMA PlainLine ==
  ASSUME NEW key \in {"other", "offsets", "hidden", "order"}
  PROVE  Line(key, 0, <<>>) \in Lines
  BY DEF Line, Lines

\* What a line holds.
LEMMA LineData ==
  ASSUME NEW l \in Lines
  PROVE  /\ l.no \in Nat
         /\ l.key \in Textual => l.data \in Seq(Words)
         /\ l.key \in {"offset", "length", "revision", "year"} => l.data \in Nat
         /\ l.key \notin Textual \cup {"offset", "length", "revision", "year"} => l.data = <<>>
         /\ l.key \in Textual \cup {"offset", "length", "revision", "year",
                                    "other", "offsets", "hidden", "order"}
  BY DEF Lines, Textual

\* The text without words.
LEMMA EmptyText == <<>> \in Seq(Words) /\ <<>> # Null /\ <<>> \in Texts /\ Len(<<>>) = 0
<1>1. <<>> \in Seq(Words)
  OBVIOUS
<1>. QED
  BY <1>1, NullIsNoText DEF Texts

\* A sequence behind another.
IsJoin(u, s, t) ==
  /\ Len(u) = Len(s) + Len(t)
  /\ \A i \in 1..Len(s) : u[i] = s[i]
  /\ \A i \in 1..Len(t) : u[Len(s) + i] = t[i]

\* Two sequences behind each other.
LEMMA Joined ==
  ASSUME NEW S, NEW s \in Seq(S), NEW t \in Seq(S), NEW u, u = s \o t
  PROVE  u \in Seq(S) /\ IsJoin(u, s, t)
<1>1. Len(s) \in Nat /\ Len(t) \in Nat
  OBVIOUS
<1>2. u \in Seq(S) /\ Len(u) = Len(s) + Len(t)
  OBVIOUS
<1>3. ASSUME NEW i \in 1..Len(s) PROVE u[i] = s[i]
  BY <1>1
<1>4. ASSUME NEW i \in 1..Len(t) PROVE u[Len(s) + i] = t[i]
  BY <1>1
<1>. QED
  BY <1>2, <1>3, <1>4 DEF IsJoin

\* A line in which artist and title stand has one Slash at most.
Partable(l) ==
  l.key \in {"title", "ttitle"} =>
    \A i, k \in DOMAIN l.data :
      l.data[i].w = "/" /\ l.data[k].w = "/" => i = k /\ l.data[i] = Slash

\* The word between artist and title.
LEMMA SlashIs == Slash \in Words /\ Slash.w = "/"
<1>1. "/" \in Vocabulary
  BY VocabularyAssumption
<1>. QED
  BY <1>1 DEF Slash, Word, Words

\* Artist and title in one line.
IsName(u, a, t) ==
  /\ u \in Seq(Words) /\ Len(u) = Len(a) + 1 + Len(t)
  /\ \A i \in 1..Len(a) : u[i] = a[i]
  /\ u[Len(a) + 1] = Slash
  /\ \A i \in 1..Len(t) : u[Len(a) + 1 + i] = t[i]

\* It is the artist, the Slash and the title.
LEMMA NameIs ==
  ASSUME NEW a \in Seq(Words), NEW t \in Seq(Words), NEW u, u = a \o <<Slash>> \o t
  PROVE  IsName(u, a, t)
<1> DEFINE m == <<Slash>>
           b == a \o m
<1>1. m \in Seq(Words) /\ Len(m) = 1 /\ m[1] = Slash
  BY SlashIs
<1>2. u = b \o t
  OBVIOUS
<1> HIDE DEF m
<1>3. b \in Seq(Words) /\ IsJoin(b, a, m)
  BY <1>1, Joined
<1> HIDE DEF b
<1>4. u \in Seq(Words) /\ IsJoin(u, b, t)
  BY <1>2, <1>3, Joined
<1>5. Len(a) \in Nat /\ Len(t) \in Nat
  OBVIOUS
<1>6. Len(b) = Len(a) + 1 /\ Len(u) = Len(a) + 1 + Len(t)
  BY <1>1, <1>3, <1>4, <1>5 DEF IsJoin
<1>7. ASSUME NEW i \in 1..Len(a) PROVE u[i] = a[i]
  <2>1. i \in 1..Len(b)
    BY <1>5, <1>6
  <2>. QED
    BY <1>3, <1>4, <2>1 DEF IsJoin
<1>8. u[Len(a) + 1] = Slash
  <2>1. b[Len(a) + 1] = m[1]
    BY <1>1, <1>3 DEF IsJoin
  <2>2. Len(a) + 1 \in 1..Len(b)
    BY <1>5, <1>6
  <2>3. u[Len(a) + 1] = b[Len(a) + 1]
    BY <1>4, <2>2 DEF IsJoin
  <2>. QED
    BY <1>1, <2>1, <2>3
<1>9. ASSUME NEW i \in 1..Len(t) PROVE u[Len(a) + 1 + i] = t[i]
  BY <1>4, <1>6 DEF IsJoin
<1>. QED
  BY <1>4, <1>6, <1>7, <1>8, <1>9 DEF IsName

\* It has its only Slash behind the artist.
LEMMA NamePartable ==
  ASSUME NEW a \in Seq(Words), NEW t \in Seq(Words), NEW u, IsName(u, a, t),
         Undivided(a), Undivided(t)
  PROVE  \A i \in DOMAIN u : u[i].w = "/" => i = Len(a) + 1
<1>1. Len(a) \in Nat /\ Len(t) \in Nat /\ DOMAIN u = 1..(Len(a) + 1 + Len(t))
  BY DEF IsName
<1>2. (\A i \in 1..Len(a) : a[i].w # "/") /\ (\A i \in 1..Len(t) : t[i].w # "/")
  <2>1. a # Null /\ t # Null /\ DOMAIN a = 1..Len(a) /\ DOMAIN t = 1..Len(t)
    BY NullIsNoText
  <2>. QED
    BY <2>1 DEF Undivided
<1>3. SUFFICES ASSUME NEW i \in 1..(Len(a) + 1 + Len(t)), u[i].w = "/", i # Len(a) + 1 PROVE FALSE
  BY <1>1
<1>4. CASE i <= Len(a)
  <2>1. i \in 1..Len(a)
    BY <1>1, <1>4
  <2>. QED
    BY <1>2, <1>3, <2>1 DEF IsName
<1>5. CASE ~(i <= Len(a))
  <2> DEFINE k == i - Len(a) - 1
  <2>1. k \in 1..Len(t) /\ i = Len(a) + 1 + k
    BY <1>1, <1>3, <1>5
  <2> HIDE DEF k
  <2>. QED
    BY <1>2, <1>3, <2>1 DEF IsName
<1>. QED
  BY <1>4, <1>5

\* A line of artist and title.
LEMMA NameLinePartable ==
  ASSUME NEW a \in Seq(Words), NEW t \in Seq(Words), NEW u, IsName(u, a, t),
         Undivided(a), Undivided(t), NEW l, l.data = u
  PROVE  Partable(l)
<1>1. \A i \in DOMAIN u : u[i].w = "/" => i = Len(a) + 1
  BY NamePartable
<1>. QED
  BY <1>1 DEF Partable, IsName

\* One without a Slash.
LEMMA UndividedPartable ==
  ASSUME NEW t \in Seq(Words), Undivided(t), NEW l, l.data = t
  PROVE  Partable(l)
<1>1. t # Null
  BY NullIsNoText
<1>. QED
  BY <1>1 DEF Partable, Undivided

\* The other lines are never parted at a Slash.
LEMMA OtherPartable ==
  ASSUME NEW l, l.key \notin {"title", "ttitle"}
  PROVE  Partable(l)
  BY DEF Partable

\* The parts of a disc that is written.
LEMMA DiscFields ==
  ASSUME NEW d \in DiscData
  PROVE  /\ d.length \in Nat /\ d.revision \in Nat /\ d.year \in Nat /\ d.category \in Categories
         /\ d.genre \in Texts /\ d.title \in Texts /\ d.artist \in Texts /\ d.ext_data \in Texts
         /\ d.tracks \in Seq(TrackData) /\ Len(d.tracks) \in Nat
         /\ DOMAIN d.tracks = 1..Len(d.tracks)
         /\ \A i \in 1..Len(d.tracks) : d.tracks[i] \in TrackData
<1>1. d.tracks \in Seq(TrackData)
  BY DEF DiscData
<1>2. Len(d.tracks) \in Nat /\ DOMAIN d.tracks = 1..Len(d.tracks)
      /\ \A i \in 1..Len(d.tracks) : d.tracks[i] \in TrackData
  BY <1>1
<1>. QED
  BY <1>1, <1>2 DEF DiscData

\* What a disc has that can be written.
LEMMA WritableIs ==
  ASSUME NEW d, Writable(d)
  PROVE  /\ d \in DiscData /\ d.artist \in Seq(Words) /\ d.title \in Seq(Words)
         /\ Undivided(d.artist) /\ Undivided(d.title)
         /\ Len(d.tracks) \in Nat /\ 1 <= Len(d.tracks)
<1>1. d \in DiscData /\ d.tracks # <<>> /\ d.artist # Null /\ d.title # Null
      /\ Undivided(d.artist) /\ Undivided(d.title)
  BY DEF Writable, Complete, AllUndivided
<1>2. d.artist \in Texts /\ d.title \in Texts /\ d.tracks \in Seq(TrackData)
  BY <1>1, DiscFields
<1>3. Len(d.tracks) \in Nat /\ Len(d.tracks) # 0
  BY <1>1, <1>2
<1>. QED
  BY <1>1, <1>2, <1>3 DEF Texts

\* What a track of such a disc has.
LEMMA TrackIs ==
  ASSUME NEW d, Writable(d), NEW i \in 1..Len(d.tracks), NEW t, t = d.tracks[i]
  PROVE  /\ t \in TrackData /\ t.frame_offset \in Nat /\ t.title \in Seq(Words)
         /\ t.artist \in Texts /\ t.ext_data \in Texts
         /\ Undivided(t.artist) /\ Undivided(t.title)
<1>1. d \in DiscData /\ Complete(d) /\ AllUndivided(d)
  BY DEF Writable
<1>2. t \in TrackData /\ i \in DOMAIN d.tracks
  BY <1>1, DiscFields
<1>3. t.frame_offset # -1 /\ t.title # Null
  BY <1>1, <1>2 DEF Complete
<1>4. Undivided(t.artist) /\ Undivided(t.title)
  BY <1>1, <1>2 DEF AllUndivided
<1>. QED
  BY <1>2, <1>3, <1>4 DEF TrackData, Texts

\* What is written for NULL is a text.
LEMMA TextOfIs ==
  ASSUME NEW text \in Texts
  PROVE  TextOf(text) \in Seq(Words)
  BY EmptyText DEF TextOf, Texts

\* The title of a track in a record, with its artist or without.
LEMMA TrackTitleIs ==
  ASSUME NEW t \in TrackData, t.title \in Seq(Words), Undivided(t.artist), Undivided(t.title)
  PROVE  /\ TrackTitle(t) \in Seq(Words)
         /\ t.artist = Null => TrackTitle(t) = t.title
         /\ t.artist # Null => t.artist \in Seq(Words) /\ IsName(TrackTitle(t), t.artist, t.title)
         /\ \A l : l.data = TrackTitle(t) => Partable(l)
<1>1. CASE t.artist = Null
  <2>1. TrackTitle(t) = t.title
    BY <1>1 DEF TrackTitle
  <2>. QED
    BY <1>1, <2>1, UndividedPartable
<1>2. CASE t.artist # Null
  <2>1. t.artist \in Seq(Words)
    BY <1>2 DEF TrackData, Texts
  <2>2. TrackTitle(t) = t.artist \o <<Slash>> \o t.title
    BY <1>2 DEF TrackTitle
  <2>3. IsName(TrackTitle(t), t.artist, t.title)
    BY <2>1, <2>2, NameIs
  <2>4. ASSUME NEW l, l.data = TrackTitle(t) PROVE Partable(l)
    BY <2>1, <2>3, <2>4, NameLinePartable
  <2>5. TrackTitle(t) \in Seq(Words)
    BY <2>3 DEF IsName
  <2>. QED
    BY <1>2, <2>1, <2>3, <2>4, <2>5
<1>. QED
  BY <1>1, <1>2

----------------------------------------------------------------------------
(* The record as a whole.                                                  *)

AllPartable(s) == \A i \in 1..Len(s) : Partable(s[i])

\* Lines that can be parted, behind each other.
LEMMA JoinPartable ==
  ASSUME NEW s \in Seq(Lines), NEW t \in Seq(Lines), NEW u, u \in Seq(Lines), IsJoin(u, s, t),
         AllPartable(s), AllPartable(t)
  PROVE  AllPartable(u)
<1> SUFFICES ASSUME NEW i \in 1..Len(u) PROVE Partable(u[i])
  BY DEF AllPartable
<1>1. Len(s) \in Nat /\ Len(t) \in Nat /\ Len(u) = Len(s) + Len(t)
  BY DEF IsJoin
<1>2. CASE i <= Len(s)
  <2>1. i \in 1..Len(s)
    BY <1>1, <1>2
  <2>. QED
    BY <2>1 DEF IsJoin, AllPartable
<1>3. CASE ~(i <= Len(s))
  <2> DEFINE k == i - Len(s)
  <2>1. k \in 1..Len(t) /\ i = Len(s) + k
    BY <1>1, <1>3
  <2> HIDE DEF k
  <2>2. u[i] = t[k]
    BY <2>1 DEF IsJoin
  <2>. QED
    BY <2>1, <2>2 DEF AllPartable
<1>. QED
  BY <1>2, <1>3

\* The parts a record is made of: two lines,
LEMMA TwoLines ==
  ASSUME NEW a \in Lines, NEW b \in Lines, NEW u, u = <<a, b>>
  PROVE  u \in Seq(Lines) /\ Len(u) = 2 /\ u[1] = a /\ u[2] = b
  OBVIOUS

\* one line,
LEMMA OneLine ==
  ASSUME NEW a \in Lines, NEW u, u = <<a>>
  PROVE  u \in Seq(Lines) /\ Len(u) = 1 /\ u[1] = a
  OBVIOUS

\* the six lines behind the offsets,
LEMMA SixLines ==
  ASSUME NEW a \in Lines, NEW b \in Lines, NEW c \in Lines, NEW d \in Lines, NEW e \in Lines,
         NEW f \in Lines, NEW u, u = <<a, b, c, d, e, f>>
  PROVE  /\ u \in Seq(Lines) /\ Len(u) = 6 /\ u[1] = a /\ u[2] = b /\ u[3] = c /\ u[4] = d
         /\ u[5] = e /\ u[6] = f
  OBVIOUS

\* and one line for each track.
LEMMA EachLine ==
  ASSUME NEW n \in Nat, NEW u, u = [i \in 1..n |-> u[i]], \A i \in 1..n : u[i] \in Lines
  PROVE  u \in Seq(Lines) /\ Len(u) = n
<1>1. u \in [1..n -> Lines]
  OBVIOUS
<1>. QED
  BY <1>1

HeaderIs(h, d, n) ==
  /\ h \in Seq(Lines) /\ Len(h) = n + 8
  /\ h[1] = Other /\ h[2] = Line("offsets", 0, <<>>)
  /\ \A i \in 1..n : h[2 + i] = Line("offset", 0, d.tracks[i].frame_offset)
  /\ h[n + 3] = Other /\ h[n + 4] = Line("length", 0, d.length)
  /\ h[n + 5] = Other /\ h[n + 6] = Line("revision", 0, d.revision)
  /\ h[n + 7] = Other /\ h[n + 8] = Line("title", 0, d.artist \o <<Slash>> \o d.title)

\* Header has this shape,
LEMMA HeaderShape ==
  ASSUME NEW d, Writable(d), NEW n, n = Len(d.tracks)
  PROVE  HeaderIs(Header(d), d, n) /\ AllPartable(Header(d))
<1> DEFINE a == <<Other, Line("offsets", 0, <<>>)>>
           b == [i \in DOMAIN d.tracks |-> Line("offset", 0, d.tracks[i].frame_offset)]
           title == Line("title", 0, d.artist \o <<Slash>> \o d.title)
           c == <<Other, Line("length", 0, d.length), Other, Line("revision", 0, d.revision), Other,
                  title>>
           ab == a \o b
           h == ab \o c
<1>1. d \in DiscData /\ n \in Nat /\ DOMAIN d.tracks = 1..n
      /\ d.length \in Nat /\ d.revision \in Nat
      /\ d.artist \in Seq(Words) /\ d.title \in Seq(Words)
      /\ Undivided(d.artist) /\ Undivided(d.title)
  BY WritableIs, DiscFields
<1>2. Header(d) = h
  BY DEF Header
<1>3. Other \in Lines /\ Line("offsets", 0, <<>>) \in Lines
  BY PlainLine DEF Other
<1>4. IsName(d.artist \o <<Slash>> \o d.title, d.artist, d.title)
  BY <1>1, NameIs
<1>5. title \in Lines /\ Partable(title)
  <2>1. d.artist \o <<Slash>> \o d.title \in Seq(Words)
    BY <1>4 DEF IsName
  <2> DEFINE name == d.artist \o <<Slash>> \o d.title
  <2> HIDE DEF name
  <2>2. Line("title", 0, name).data = name
    BY LineFields
  <2>3. Line("title", 0, name) \in Lines /\ Partable(Line("title", 0, name))
    BY <1>1, <1>4, <2>1, <2>2, TextLine, NameLinePartable DEF Textual, name
  <2>. QED
    BY <2>3 DEF name
<1>6. Line("length", 0, d.length) \in Lines /\ Line("revision", 0, d.revision) \in Lines
  BY <1>1, NumberLine
<1>7. Other.key = "other" /\ Line("offsets", 0, <<>>).key = "offsets"
      /\ Line("length", 0, d.length).key = "length" /\ Line("revision", 0, d.revision).key = "revision"
  BY LineFields DEF Other
<1> HIDE DEF title
<1>8. a \in Seq(Lines) /\ Len(a) = 2 /\ a[1] = Other /\ a[2] = Line("offsets", 0, <<>>)
  BY <1>3, TwoLines
<1>9. /\ c \in Seq(Lines) /\ Len(c) = 6 /\ c[1] = Other /\ c[2] = Line("length", 0, d.length)
      /\ c[3] = Other /\ c[4] = Line("revision", 0, d.revision) /\ c[5] = Other /\ c[6] = title
  BY <1>3, <1>5, <1>6, SixLines
<1>10. ASSUME NEW i \in 1..n
       PROVE  b[i] = Line("offset", 0, d.tracks[i].frame_offset) /\ b[i] \in Lines /\ Partable(b[i])
  <2>1. d.tracks[i].frame_offset \in Nat
    BY TrackIs
  <2>2. b[i] = Line("offset", 0, d.tracks[i].frame_offset)
    BY <1>1
  <2>3. b[i].key = "offset"
    BY <2>2, LineFields
  <2>4. Partable(b[i])
    BY <2>3, OtherPartable
  <2>. QED
    BY <2>1, <2>2, <2>4, NumberLine
<1>11. b \in Seq(Lines) /\ Len(b) = n
  <2>1. b = [i \in 1..n |-> b[i]]
    BY <1>1
  <2> HIDE DEF b
  <2>. QED
    BY <1>1, <1>10, <2>1, EachLine
<1>12. AllPartable(a)
  BY <1>7, <1>8, OtherPartable DEF AllPartable
<1>13. AllPartable(b)
  BY <1>10, <1>11 DEF AllPartable
<1>14. AllPartable(c)
  <2> SUFFICES ASSUME NEW i \in 1..6 PROVE Partable(c[i])
    BY <1>9 DEF AllPartable
  <2>1. i = 1 \/ i = 2 \/ i = 3 \/ i = 4 \/ i = 5 \/ i = 6
    OBVIOUS
  <2>. QED
    BY <1>5, <1>7, <1>9, <2>1, OtherPartable
<1> HIDE DEF a, b, c
<1>15. ab \in Seq(Lines) /\ IsJoin(ab, a, b)
  BY <1>8, <1>11, Joined
<1>16. AllPartable(ab)
  BY <1>8, <1>11, <1>12, <1>13, <1>15, JoinPartable
<1> HIDE DEF ab
<1>17. h \in Seq(Lines) /\ IsJoin(h, ab, c)
  BY <1>9, <1>15, Joined
<1>18. AllPartable(h)
  BY <1>9, <1>14, <1>15, <1>16, <1>17, JoinPartable
<1> HIDE DEF h
<1>19. Len(ab) = n + 2 /\ Len(h) = n + 8
  BY <1>1, <1>8, <1>9, <1>11, <1>15, <1>17 DEF IsJoin
<1>20. h[1] = ab[1] /\ h[2] = ab[2] /\ \A i \in 1..n : h[2 + i] = ab[2 + i]
  BY <1>1, <1>17, <1>19 DEF IsJoin
<1>21. ab[1] = a[1] /\ ab[2] = a[2] /\ \A i \in 1..n : ab[2 + i] = b[i]
  BY <1>8, <1>11, <1>15 DEF IsJoin
<1>22. /\ h[n + 3] = c[1] /\ h[n + 4] = c[2] /\ h[n + 5] = c[3] /\ h[n + 6] = c[4]
       /\ h[n + 7] = c[5] /\ h[n + 8] = c[6]
  <2>1. \A k \in 1..6 : h[n + 2 + k] = c[k]
    BY <1>9, <1>17, <1>19 DEF IsJoin
  <2>2. /\ n + 2 + 1 = n + 3 /\ n + 2 + 2 = n + 4 /\ n + 2 + 3 = n + 5 /\ n + 2 + 4 = n + 6
        /\ n + 2 + 5 = n + 7 /\ n + 2 + 6 = n + 8
    BY <1>1
  <2>. QED
    BY <2>1, <2>2
<1>23. HeaderIs(h, d, n)
  BY <1>8, <1>9, <1>10, <1>17, <1>19, <1>20, <1>21, <1>22 DEF HeaderIs, title
<1>. QED
  BY <1>2, <1>18, <1>23

YearAndGenreIs(u, d) ==
  /\ u \in Seq(Lines) /\ Len(u) = 2 /\ u[1] = Line("year", 0, d.year)
  /\ u[2].key \in {"genre", "hidden"} /\ u[2].no = 0
  /\ u[2].key = "genre" => u[2].data = Genre(d)

\* YearAndGenre this,
LEMMA YearAndGenreShape ==
  ASSUME NEW d, Writable(d)
  PROVE  YearAndGenreIs(YearAndGenre(d), d) /\ AllPartable(YearAndGenre(d))
<1> DEFINE genre == Genre(d)
           y == Line("year", 0, d.year)
           g == IF d.year \in 100..999 THEN Hidden ELSE Line("genre", 0, genre)
           u == <<y, g>>
<1>1. d \in DiscData /\ d.year \in Nat /\ d.genre \in Texts /\ d.category \in Vocabulary
  BY WritableIs, DiscFields DEF Categories
<1>2. YearAndGenre(d) = u
  BY DEF YearAndGenre
<1>3. genre \in Seq(Words)
  <2>1. Word(d.category) \in Words
    BY <1>1 DEF Word, Words
  <2>2. <<Word(d.category)>> \in Seq(Words)
    BY <2>1
  <2>3. TextOf(d.genre) # <<>> => d.genre \in Seq(Words)
    BY <1>1 DEF TextOf, Texts
  <2>. QED
    BY <2>2, <2>3 DEF Genre
<1> HIDE DEF genre
<1>4. y \in Lines /\ y.key = "year"
  BY <1>1, NumberLine, LineFields
<1>5. Hidden \in Lines /\ Hidden.key = "hidden" /\ Hidden.no = 0
  BY PlainLine, LineFields DEF Hidden
<1>6. Line("genre", 0, genre) \in Lines /\ Line("genre", 0, genre).key = "genre"
      /\ Line("genre", 0, genre).no = 0 /\ Line("genre", 0, genre).data = genre
  BY <1>3, TextLine, LineFields DEF Textual
<1>7. /\ g \in Lines /\ g.key \in {"genre", "hidden"} /\ g.no = 0
      /\ g.key = "genre" => g.data = genre
  BY <1>5, <1>6
<1> HIDE DEF y, g
<1>8. u \in Seq(Lines) /\ Len(u) = 2 /\ u[1] = y /\ u[2] = g
  BY <1>4, <1>7, TwoLines
<1> HIDE DEF u
<1>9. AllPartable(u)
  <2> SUFFICES ASSUME NEW i \in 1..2 PROVE Partable(u[i])
    BY <1>8 DEF AllPartable
  <2>1. i = 1 \/ i = 2
    OBVIOUS
  <2>2. Partable(y) /\ Partable(g)
    BY <1>4, <1>7, OtherPartable
  <2>. QED
    BY <1>8, <2>1, <2>2
<1>. QED
  BY <1>2, <1>7, <1>8, <1>9 DEF YearAndGenreIs, y, genre

BodyIs(b, d, n) ==
  /\ b \in Seq(Lines) /\ Len(b) = 2 * n + 2
  /\ \A i \in 1..n : b[i] = Line("ttitle", i - 1, TrackTitle(d.tracks[i]))
  /\ b[n + 1] = Line("ext", 0, TextOf(d.ext_data))
  /\ \A i \in 1..n : b[n + 1 + i] = Line("extt", i - 1, TextOf(d.tracks[i].ext_data))
  /\ b[2 * n + 2] = Line("order", 0, <<>>)

\* and Body this.
LEMMA BodyShape ==
  ASSUME NEW d, Writable(d), NEW n, n = Len(d.tracks)
  PROVE  BodyIs(Body(d), d, n) /\ AllPartable(Body(d))
<1> DEFINE a == [i \in DOMAIN d.tracks |-> Line("ttitle", i - 1, TrackTitle(d.tracks[i]))]
           ext == Line("ext", 0, TextOf(d.ext_data))
           b == <<ext>>
           c == [i \in DOMAIN d.tracks |-> Line("extt", i - 1, TextOf(d.tracks[i].ext_data))]
           order == Line("order", 0, <<>>)
           e == <<order>>
           ab == a \o b
           abc == ab \o c
           u == abc \o e
<1>1. d \in DiscData /\ n \in Nat /\ DOMAIN d.tracks = 1..n /\ d.ext_data \in Texts
  BY WritableIs, DiscFields
<1>2. Body(d) = u
  BY DEF Body
<1>3. ASSUME NEW i \in 1..n
      PROVE  a[i] = Line("ttitle", i - 1, TrackTitle(d.tracks[i])) /\ a[i] \in Lines /\ Partable(a[i])
  <2> DEFINE t == d.tracks[i]
  <2>1. t \in TrackData /\ t.title \in Seq(Words) /\ Undivided(t.artist) /\ Undivided(t.title)
    BY TrackIs
  <2>2. a[i] = Line("ttitle", i - 1, TrackTitle(t))
    BY <1>1
  <2>3. i - 1 \in Nat
    OBVIOUS
  <2> HIDE DEF t, a
  <2>4. TrackTitle(t) \in Seq(Words) /\ \A l : l.data = TrackTitle(t) => Partable(l)
    BY <2>1, TrackTitleIs
  <2>5. a[i].data = TrackTitle(t)
    BY <2>2, LineFields
  <2>6. a[i] \in Lines
    BY <2>2, <2>3, <2>4, TextLine DEF Textual
  <2>. QED
    BY <2>2, <2>4, <2>5, <2>6 DEF t
<1>4. ASSUME NEW i \in 1..n
      PROVE  /\ c[i] = Line("extt", i - 1, TextOf(d.tracks[i].ext_data))
             /\ c[i] \in Lines /\ Partable(c[i])
  <2> DEFINE t == TextOf(d.tracks[i].ext_data)
  <2>1. d.tracks[i].ext_data \in Texts
    BY TrackIs
  <2>2. t \in Seq(Words)
    BY <2>1, TextOfIs
  <2>3. c[i] = Line("extt", i - 1, t)
    BY <1>1
  <2>4. i - 1 \in Nat
    OBVIOUS
  <2> HIDE DEF t, c
  <2>5. c[i] \in Lines
    BY <2>2, <2>3, <2>4, TextLine DEF Textual
  <2>6. c[i].key = "extt"
    BY <2>3, LineFields
  <2>7. Partable(c[i])
    BY <2>6, OtherPartable
  <2>. QED
    BY <2>3, <2>5, <2>7 DEF t
<1>5. ext \in Lines /\ Partable(ext)
  <2>1. TextOf(d.ext_data) \in Seq(Words)
    BY <1>1, TextOfIs
  <2>2. ext.key = "ext"
    BY LineFields
  <2>. QED
    BY <2>1, <2>2, TextLine, OtherPartable DEF Textual
<1>6. order \in Lines /\ Partable(order)
  <2>1. order.key = "order"
    BY LineFields
  <2>. QED
    BY <2>1, PlainLine, OtherPartable
<1>7. a \in Seq(Lines) /\ Len(a) = n
  <2>1. a = [i \in 1..n |-> a[i]]
    BY <1>1
  <2> HIDE DEF a
  <2>. QED
    BY <1>1, <1>3, <2>1, EachLine
<1>8. c \in Seq(Lines) /\ Len(c) = n
  <2>1. c = [i \in 1..n |-> c[i]]
    BY <1>1
  <2> HIDE DEF c
  <2>. QED
    BY <1>1, <1>4, <2>1, EachLine
<1> HIDE DEF a, c, ext, order
<1>9. b \in Seq(Lines) /\ Len(b) = 1 /\ b[1] = ext
  BY <1>5, OneLine
<1>10. e \in Seq(Lines) /\ Len(e) = 1 /\ e[1] = order
  BY <1>6, OneLine
<1> HIDE DEF b, e
<1>11. AllPartable(a) /\ AllPartable(b) /\ AllPartable(c) /\ AllPartable(e)
  BY <1>3, <1>4, <1>5, <1>6, <1>7, <1>8, <1>9, <1>10 DEF AllPartable
<1>12. ab \in Seq(Lines) /\ IsJoin(ab, a, b)
  BY <1>7, <1>9, Joined
<1>13. AllPartable(ab)
  BY <1>7, <1>9, <1>11, <1>12, JoinPartable
<1> HIDE DEF ab
<1>14. abc \in Seq(Lines) /\ IsJoin(abc, ab, c)
  BY <1>8, <1>12, Joined
<1>15. AllPartable(abc)
  BY <1>8, <1>11, <1>12, <1>13, <1>14, JoinPartable
<1> HIDE DEF abc
<1>16. u \in Seq(Lines) /\ IsJoin(u, abc, e)
  BY <1>10, <1>14, Joined
<1>17. AllPartable(u)
  BY <1>10, <1>11, <1>14, <1>15, <1>16, JoinPartable
<1> HIDE DEF u
<1>18. Len(ab) = n + 1 /\ Len(abc) = 2 * n + 1 /\ Len(u) = 2 * n + 2
  BY <1>1, <1>7, <1>8, <1>9, <1>10, <1>12, <1>14, <1>16 DEF IsJoin
<1>19. \A i \in 1..(2 * n + 1) : u[i] = abc[i]
  BY <1>16, <1>18 DEF IsJoin
<1>20. \A i \in 1..(n + 1) : abc[i] = ab[i]
  BY <1>14, <1>18 DEF IsJoin
<1>21. ASSUME NEW i \in 1..n PROVE u[i] = a[i]
  <2>1. i \in 1..(2 * n + 1) /\ i \in 1..(n + 1)
    BY <1>1
  <2>2. ab[i] = a[i]
    BY <1>7, <1>12 DEF IsJoin
  <2>. QED
    BY <1>19, <1>20, <2>1, <2>2
<1>22. u[n + 1] = ext
  <2>1. n + 1 \in 1..(2 * n + 1) /\ n + 1 \in 1..(n + 1) /\ 1 \in 1..1
    BY <1>1
  <2>2. ab[n + 1] = b[1]
    BY <1>7, <1>9, <1>12, <2>1 DEF IsJoin
  <2>. QED
    BY <1>9, <1>19, <1>20, <2>1, <2>2
<1>23. ASSUME NEW i \in 1..n PROVE u[n + 1 + i] = c[i]
  <2>1. n + 1 + i \in 1..(2 * n + 1)
    BY <1>1
  <2>2. abc[n + 1 + i] = c[i]
    BY <1>8, <1>14, <1>18 DEF IsJoin
  <2>. QED
    BY <1>19, <2>1, <2>2
<1>24. u[2 * n + 2] = order
  <2>1. u[2 * n + 1 + 1] = e[1]
    BY <1>10, <1>16, <1>18 DEF IsJoin
  <2>2. 2 * n + 1 + 1 = 2 * n + 2
    BY <1>1
  <2>. QED
    BY <1>10, <2>1, <2>2
<1>25. BodyIs(u, d, n)
  BY <1>3, <1>4, <1>16, <1>18, <1>21, <1>22, <1>23, <1>24 DEF BodyIs, ext, order
<1>. QED
  BY <1>2, <1>17, <1>25

\* What cddb_write_data makes of a disc, line by line; y is the number of lines for year
\* and genre.
Shape(w, d, y) ==
  LET n == Len(d.tracks)
  IN /\ w \in Seq(Lines) /\ Len(w) = 3 * n + 10 + y
     /\ w[1] = Other /\ w[2] = Line("offsets", 0, <<>>)
     /\ \A i \in 1..n : w[2 + i] = Line("offset", 0, d.tracks[i].frame_offset)
     /\ w[n + 3] = Other /\ w[n + 4] = Line("length", 0, d.length)
     /\ w[n + 5] = Other /\ w[n + 6] = Line("revision", 0, d.revision)
     /\ w[n + 7] = Other /\ w[n + 8] = Line("title", 0, d.artist \o <<Slash>> \o d.title)
     /\ y = 2 => /\ w[n + 9] = Line("year", 0, d.year)
                 /\ w[n + 10].key \in {"genre", "hidden"} /\ w[n + 10].no = 0
                 /\ w[n + 10].key = "genre" => w[n + 10].data = Genre(d)
     /\ \A i \in 1..n : w[n + 8 + y + i] = Line("ttitle", i - 1, TrackTitle(d.tracks[i]))
     /\ w[2 * n + 9 + y] = Line("ext", 0, TextOf(d.ext_data))
     /\ \A i \in 1..n : w[2 * n + 9 + y + i] = Line("extt", i - 1, TextOf(d.tracks[i].ext_data))
     /\ w[3 * n + 10 + y] = Line("order", 0, <<>>)

\* A record is header, year and genre and body, in this order.
LEMMA RecordJoined ==
  ASSUME NEW d, NEW n \in Nat, n = Len(d.tracks), NEW h, HeaderIs(h, d, n), NEW b, BodyIs(b, d, n),
         NEW g \in Seq(Lines), NEW y \in Nat, y \in {0, 2}, Len(g) = y,
         y = 2 => YearAndGenreIs(g, d), NEW w, w = h \o g \o b,
         AllPartable(h), AllPartable(g), AllPartable(b)
  PROVE  Shape(w, d, y) /\ AllPartable(w)
<1> DEFINE hg == h \o g
<1>1. h \in Seq(Lines) /\ b \in Seq(Lines) /\ Len(h) = n + 8 /\ Len(b) = 2 * n + 2
  BY DEF HeaderIs, BodyIs
<1>2. w = hg \o b
  OBVIOUS
<1>3. hg \in Seq(Lines) /\ IsJoin(hg, h, g)
  BY <1>1, Joined
<1> HIDE DEF hg
<1>4. w \in Seq(Lines) /\ IsJoin(w, hg, b)
  BY <1>1, <1>2, <1>3, Joined
<1>5. AllPartable(hg)
  BY <1>1, <1>3, JoinPartable
<1>6. AllPartable(w)
  BY <1>1, <1>3, <1>4, <1>5, JoinPartable
<1>7. Len(hg) = n + 8 + y /\ Len(w) = 3 * n + 10 + y
  BY <1>1, <1>3, <1>4 DEF IsJoin
<1>8. ASSUME NEW i \in 1..(n + 8) PROVE w[i] = h[i]
  <2>1. i \in 1..Len(hg) /\ i \in 1..Len(h)
    BY <1>1, <1>7
  <2>. QED
    BY <1>3, <1>4, <2>1 DEF IsJoin
<1>9. ASSUME NEW i \in 1..y PROVE w[n + 8 + i] = g[i]
  <2>1. n + 8 + i \in 1..Len(hg) /\ i \in 1..Len(g)
    BY <1>1, <1>7
  <2>2. hg[n + 8 + i] = g[i]
    BY <1>1, <1>3, <2>1 DEF IsJoin
  <2>. QED
    BY <1>4, <2>1, <2>2 DEF IsJoin
<1>10. ASSUME NEW i \in 1..(2 * n + 2) PROVE w[n + 8 + y + i] = b[i]
  BY <1>1, <1>4, <1>7 DEF IsJoin
<1>11. /\ w[1] = Other /\ w[2] = Line("offsets", 0, <<>>)
       /\ w[n + 3] = Other /\ w[n + 4] = Line("length", 0, d.length)
       /\ w[n + 5] = Other /\ w[n + 6] = Line("revision", 0, d.revision)
       /\ w[n + 7] = Other /\ w[n + 8] = Line("title", 0, d.artist \o <<Slash>> \o d.title)
  <2>1. /\ 1 \in 1..(n + 8) /\ 2 \in 1..(n + 8) /\ n + 3 \in 1..(n + 8) /\ n + 4 \in 1..(n + 8)
        /\ n + 5 \in 1..(n + 8) /\ n + 6 \in 1..(n + 8) /\ n + 7 \in 1..(n + 8)
        /\ n + 8 \in 1..(n + 8)
    OBVIOUS
  <2>. QED
    BY <1>8, <2>1 DEF HeaderIs
<1>12. ASSUME NEW i \in 1..n PROVE w[2 + i] = Line("offset", 0, d.tracks[i].frame_offset)
  <2>1. 2 + i \in 1..(n + 8)
    OBVIOUS
  <2>. QED
    BY <1>8, <2>1 DEF HeaderIs
<1>13. y = 2 => /\ w[n + 9] = Line("year", 0, d.year)
                /\ w[n + 10].key \in {"genre", "hidden"} /\ w[n + 10].no = 0
                /\ w[n + 10].key = "genre" => w[n + 10].data = Genre(d)
  <2> SUFFICES ASSUME y = 2
               PROVE  /\ w[n + 9] = Line("year", 0, d.year)
                      /\ w[n + 10].key \in {"genre", "hidden"} /\ w[n + 10].no = 0
                      /\ w[n + 10].key = "genre" => w[n + 10].data = Genre(d)
    OBVIOUS
  <2>1. w[n + 8 + 1] = g[1] /\ w[n + 8 + 2] = g[2]
    <3>1. 1 \in 1..y /\ 2 \in 1..y
      OBVIOUS
    <3>. QED
      BY <1>9, <3>1
  <2>2. n + 8 + 1 = n + 9 /\ n + 8 + 2 = n + 10
    OBVIOUS
  <2>. QED
    BY <2>1, <2>2 DEF YearAndGenreIs
<1>14. ASSUME NEW i \in 1..n
       PROVE  w[n + 8 + y + i] = Line("ttitle", i - 1, TrackTitle(d.tracks[i]))
  <2>1. i \in 1..(2 * n + 2)
    OBVIOUS
  <2>. QED
    BY <1>10, <2>1 DEF BodyIs
<1>15. w[2 * n + 9 + y] = Line("ext", 0, TextOf(d.ext_data))
  <2>1. n + 1 \in 1..(2 * n + 2) /\ n + 8 + y + (n + 1) = 2 * n + 9 + y
    OBVIOUS
  <2>2. w[n + 8 + y + (n + 1)] = b[n + 1]
    BY <1>10, <2>1
  <2>. QED
    BY <2>1, <2>2 DEF BodyIs
<1>16. ASSUME NEW i \in 1..n
       PROVE  w[2 * n + 9 + y + i] = Line("extt", i - 1, TextOf(d.tracks[i].ext_data))
  <2>1. n + 1 + i \in 1..(2 * n + 2) /\ n + 8 + y + (n + 1 + i) = 2 * n + 9 + y + i
    OBVIOUS
  <2>2. w[n + 8 + y + (n + 1 + i)] = b[n + 1 + i]
    BY <1>10, <2>1
  <2>. QED
    BY <2>1, <2>2 DEF BodyIs
<1>17. w[3 * n + 10 + y] = Line("order", 0, <<>>)
  <2>1. 2 * n + 2 \in 1..(2 * n + 2) /\ n + 8 + y + (2 * n + 2) = 3 * n + 10 + y
    OBVIOUS
  <2>2. w[n + 8 + y + (2 * n + 2)] = b[2 * n + 2]
    BY <1>10, <2>1
  <2>. QED
    BY <2>1, <2>2 DEF BodyIs
<1>18. Shape(w, d, y)
  BY <1>4, <1>7, <1>11, <1>12, <1>13, <1>14, <1>15, <1>16, <1>17 DEF Shape
<1>. QED
  BY <1>6, <1>18

\* cddb_write_data makes a record of this shape.
LEMMA RecordShape ==
  ASSUME NEW d, Writable(d), NEW old \in BOOLEAN
  PROVE  /\ Shape(Record(d, old), d, IF old THEN 0 ELSE 2)
         /\ AllPartable(Record(d, old))
<1> DEFINE n == Len(d.tracks)
           h == Header(d)
           b == Body(d)
           g == IF old THEN <<>> ELSE YearAndGenre(d)
           y == IF old THEN 0 ELSE 2
           w == Record(d, old)
<1>1. n \in Nat /\ y \in Nat /\ y \in {0, 2}
  BY WritableIs
<1>2. HeaderIs(h, d, n) /\ AllPartable(h)
  BY HeaderShape
<1>3. BodyIs(b, d, n) /\ AllPartable(b)
  BY BodyShape
<1>4. g \in Seq(Lines) /\ Len(g) = y /\ (y = 2 => YearAndGenreIs(g, d)) /\ AllPartable(g)
  <2>1. CASE old
    BY <2>1 DEF AllPartable
  <2>2. CASE ~old
    <3>1. YearAndGenreIs(YearAndGenre(d), d) /\ AllPartable(YearAndGenre(d))
      BY YearAndGenreShape
    <3>. QED
      BY <2>2, <3>1 DEF YearAndGenreIs
  <2>. QED
    BY <2>1, <2>2
<1>5. w = h \o g \o b
  BY DEF Record
<1> HIDE DEF h, b, g, w
<1>6. Shape(w, d, y) /\ AllPartable(w)
  <2> HIDE DEF y, n
  <2>1. n = Len(d.tracks)
    BY DEF n
  <2>. QED
    BY <1>1, <1>2, <1>3, <1>4, <1>5, <2>1, RecordJoined
<1>. QED
  BY <1>6 DEF w

----------------------------------------------------------------------------
(* The parts of a line, of a disc and of a track.                          *)

OneSlash(data) ==
  \A i, k \in DOMAIN data : data[i].w = "/" /\ data[k].w = "/" => i = k /\ data[i] = Slash

\* What stands before and behind the only Slash.
LEMMA PartsAre ==
  ASSUME NEW data \in Seq(Words), OneSlash(data)
  PROVE  /\ Split(data) => /\ BeforeSlash(data) \in Seq(Words) /\ AfterSlash(data) \in Seq(Words)
                           /\ Undivided(BeforeSlash(data)) /\ Undivided(AfterSlash(data))
                           /\ \E i \in 1..Len(data) :
                                /\ data[i] = Slash
                                /\ BeforeSlash(data) = SubSeq(data, 1, i - 1)
                                /\ AfterSlash(data) = SubSeq(data, i + 1, Len(data))
         /\ ~Split(data) => Undivided(data)
<1>1. DOMAIN data = 1..Len(data) /\ Len(data) \in Nat
  OBVIOUS
<1>2. CASE Split(data)
  <2>1. PICK i \in 1..Len(data) : data[i] = Slash
    BY <1>1, <1>2 DEF Split, Slashes
  <2>2. \A k \in 1..Len(data) : data[k].w = "/" => k = i
    BY <1>1, <2>1, SlashIs DEF OneSlash
  <2>3. Slashes(data) = {i}
    BY <1>1, <2>1, <2>2, SlashIs DEF Slashes
  <2>4. Max(Slashes(data)) = i
    BY <2>1, <2>3 DEF Max
  <2>5. BeforeSlash(data) = SubSeq(data, 1, i - 1) /\ AfterSlash(data) = SubSeq(data, i + 1, Len(data))
    BY <2>4 DEF BeforeSlash, AfterSlash
  <2> DEFINE a == SubSeq(data, 1, i - 1)
             b == SubSeq(data, i + 1, Len(data))
  <2>6. a \in Seq(Words) /\ Len(a) = i - 1 /\ \A k \in 1..(i - 1) : a[k] = data[k]
    BY <1>1, <2>1
  <2>7. b \in Seq(Words) /\ Len(b) = Len(data) - i /\ \A k \in 1..(Len(data) - i) : b[k] = data[i + k]
    <3> DEFINE m == i + 1
               n == Len(data)
    <3>1. m \in 1..(Len(data) + 1) /\ n \in (m - 1)..Len(data) /\ n - m + 1 = Len(data) - i
      BY <1>1, <2>1
    <3>2. b = SubSeq(data, m, n)
      OBVIOUS
    <3> HIDE DEF m, n, b
    <3>3. b \in Seq(Words) /\ Len(b) = n - m + 1 /\ \A k \in 1..(n - m + 1) : b[k] = data[m + k - 1]
      BY <3>1, <3>2, SubSeqProperties
    <3>4. ASSUME NEW k \in 1..(Len(data) - i) PROVE b[k] = data[i + k]
      <4>1. b[k] = data[m + k - 1]
        BY <3>1, <3>3
      <4>2. m + k - 1 = i + k
        BY <1>1, <2>1 DEF m
      <4>. QED
        BY <4>1, <4>2
    <3>. QED
      BY <3>1, <3>3, <3>4
  <2> HIDE DEF a, b
  <2>8. Undivided(a)
    <3>1. \A k \in 1..(i - 1) : a[k].w # "/"
      BY <1>1, <2>1, <2>2, <2>6
    <3>2. DOMAIN a = 1..(i - 1)
      BY <2>1, <2>6
    <3>. QED
      BY <3>1, <3>2 DEF Undivided
  <2>9. Undivided(b)
    <3>1. \A k \in 1..(Len(data) - i) : i + k \in 1..Len(data) /\ i + k # i
      BY <1>1, <2>1
    <3>2. \A k \in 1..(Len(data) - i) : b[k].w # "/"
      BY <2>2, <2>7, <3>1
    <3>3. DOMAIN b = 1..(Len(data) - i)
      BY <1>1, <2>1, <2>7
    <3>. QED
      BY <3>2, <3>3 DEF Undivided
  <2>. QED
    BY <1>2, <2>1, <2>5, <2>6, <2>7, <2>8, <2>9 DEF a, b
<1>3. CASE ~Split(data)
  <2>1. \A i \in 1..Len(data) : data[i] # Slash
    BY <1>1, <1>3 DEF Split, Slashes
  <2>2. \A i \in 1..Len(data) : data[i].w # "/"
    BY <1>1, <2>1 DEF OneSlash
  <2>. QED
    BY <1>1, <1>3, <2>2 DEF Undivided
<1>. QED
  BY <1>2, <1>3

\* A text with more behind it.
LEMMA ExtendedIs ==
  ASSUME NEW t \in Texts, NEW more \in Seq(Words)
  PROVE  /\ Extended(t, more) \in Seq(Words) /\ Extended(t, more) # Null
         /\ Undivided(t) /\ Undivided(more) => Undivided(Extended(t, more))
<1>1. CASE t = Null
  BY <1>1, NullIsNoText DEF Extended
<1>2. CASE t # Null
  <2> DEFINE u == t \o more
  <2>1. t \in Seq(Words) /\ Extended(t, more) = u
    BY <1>2 DEF Texts, Extended
  <2>2. u \in Seq(Words) /\ IsJoin(u, t, more)
    BY <2>1, Joined
  <2>3. u # Null
    BY <2>2, NullIsNoText
  <2>4. ASSUME Undivided(t), Undivided(more), NEW i \in DOMAIN u PROVE u[i].w # "/"
    <3>1. Len(t) \in Nat /\ Len(more) \in Nat /\ DOMAIN t = 1..Len(t) /\ DOMAIN more = 1..Len(more)
      BY <2>1
    <3>2. i \in 1..(Len(t) + Len(more))
      BY <2>2, <2>4 DEF IsJoin
    <3>3. (\A k \in 1..Len(t) : t[k].w # "/") /\ (\A k \in 1..Len(more) : more[k].w # "/")
      BY <1>2, <2>4, <3>1, NullIsNoText DEF Undivided
    <3> HIDE DEF u
    <3>4. CASE i <= Len(t)
      <4>1. i \in 1..Len(t)
        BY <3>1, <3>2, <3>4
      <4>. QED
        BY <2>2, <3>3, <4>1 DEF IsJoin
    <3>5. CASE ~(i <= Len(t))
      <4> DEFINE k == i - Len(t)
      <4>1. k \in 1..Len(more) /\ i = Len(t) + k
        BY <3>1, <3>2, <3>5
      <4> HIDE DEF k
      <4>. QED
        BY <2>2, <3>3, <4>1 DEF IsJoin
    <3>. QED
      BY <3>4, <3>5
  <2> HIDE DEF u
  <2>. QED
    BY <2>1, <2>2, <2>3, <2>4 DEF Undivided
<1>. QED
  BY <1>1, <1>2

\* A line of a track goes into its artist and title.
LEMMA NamedIs ==
  ASSUME NEW t \in TrackData, Undivided(t.artist), Undivided(t.title),
         NEW data \in Seq(Words), OneSlash(data), NEW r, r = Named(t, data)
  PROVE  /\ r \in TrackData /\ Undivided(r.artist) /\ Undivided(r.title)
         /\ r.frame_offset = t.frame_offset /\ r.ext_data = t.ext_data
         /\ Split(data) => /\ r.artist = Extended(t.title, BeforeSlash(data))
                           /\ r.title = AfterSlash(data)
         /\ ~Split(data) => r.artist = t.artist /\ r.title = Extended(t.title, data)
<1>1. t.title \in Texts /\ t.artist \in Texts
  BY DEF TrackData
<1>2. CASE Split(data)
  <2> DEFINE a == BeforeSlash(data)
             b == AfterSlash(data)
             e == Extended(t.title, a)
  <2>1. a \in Seq(Words) /\ b \in Seq(Words) /\ Undivided(a) /\ Undivided(b)
    BY <1>2, PartsAre
  <2> HIDE DEF a, b
  <2>2. e \in Seq(Words) /\ Undivided(e)
    BY <1>1, <2>1, ExtendedIs
  <2>3. r = [t EXCEPT !.artist = e, !.title = b]
    BY <1>2 DEF Named, a, b
  <2> HIDE DEF e
  <2>4. r \in TrackData /\ r.artist = e /\ r.title = b /\ r.frame_offset = t.frame_offset
        /\ r.ext_data = t.ext_data
    BY <2>1, <2>2, <2>3 DEF TrackData, Texts
  <2>. QED
    BY <1>2, <2>1, <2>2, <2>4 DEF e, a, b
<1>3. CASE ~Split(data)
  <2> DEFINE e == Extended(t.title, data)
  <2>1. Undivided(data)
    BY <1>3, PartsAre
  <2>2. e \in Seq(Words) /\ Undivided(e)
    BY <1>1, <2>1, ExtendedIs
  <2>3. r = [t EXCEPT !.title = e]
    BY <1>3 DEF Named
  <2> HIDE DEF e
  <2>4. r \in TrackData /\ r.title = e /\ r.artist = t.artist /\ r.frame_offset = t.frame_offset
        /\ r.ext_data = t.ext_data
    BY <2>2, <2>3 DEF TrackData, Texts
  <2>. QED
    BY <1>3, <2>2, <2>4 DEF e
<1>. QED
  BY <1>2, <1>3

Good(d) == d \in DiscData /\ AllUndivided(d)

\* Everything but artist and title of the disc is as it was.
NamesApart(e, d) ==
  /\ e.length = d.length /\ e.revision = d.revision /\ e.year = d.year /\ e.genre = d.genre
  /\ e.ext_data = d.ext_data /\ e.tracks = d.tracks

\* Everything but the tracks.
TracksApart(e, d) ==
  /\ e.length = d.length /\ e.revision = d.revision /\ e.year = d.year /\ e.genre = d.genre
  /\ e.ext_data = d.ext_data /\ e.artist = d.artist /\ e.title = d.title

\* What is not put into a disc stays.
Renamed(d, a, t) == [d EXCEPT !.artist = a, !.title = t]

\* What is put into a disc keeps it a disc: artist and title,
LEMMA DiscGiven ==
  ASSUME NEW d \in DiscData, AllUndivided(d),
         NEW a \in Texts, NEW t \in Texts, Undivided(a), Undivided(t),
         NEW e, e = Renamed(d, a, t)
  PROVE  Good(e) /\ NamesApart(e, d) /\ e.artist = a /\ e.title = t
  BY DEF DiscData, AllUndivided, Good, NamesApart, Renamed

\* the length,
LEMMA LengthGiven ==
  ASSUME NEW d \in DiscData, AllUndivided(d), NEW v \in Nat, NEW e, e = [d EXCEPT !.length = v]
  PROVE  /\ e \in DiscData /\ AllUndivided(e) /\ e.artist = d.artist /\ e.title = d.title
         /\ e.length = v /\ e.revision = d.revision /\ e.year = d.year /\ e.genre = d.genre
         /\ e.ext_data = d.ext_data /\ e.tracks = d.tracks
  BY DEF DiscData, AllUndivided

\* the revision,
LEMMA RevisionGiven ==
  ASSUME NEW d \in DiscData, AllUndivided(d), NEW v \in Nat, NEW e, e = [d EXCEPT !.revision = v]
  PROVE  /\ e \in DiscData /\ AllUndivided(e) /\ e.artist = d.artist /\ e.title = d.title
         /\ e.length = d.length /\ e.revision = v /\ e.year = d.year /\ e.genre = d.genre
         /\ e.ext_data = d.ext_data /\ e.tracks = d.tracks
  BY DEF DiscData, AllUndivided

\* the year,
LEMMA YearGiven ==
  ASSUME NEW d \in DiscData, AllUndivided(d), NEW v \in Nat, NEW e, e = [d EXCEPT !.year = v]
  PROVE  /\ e \in DiscData /\ AllUndivided(e) /\ e.artist = d.artist /\ e.title = d.title
         /\ e.length = d.length /\ e.revision = d.revision /\ e.year = v /\ e.genre = d.genre
         /\ e.ext_data = d.ext_data /\ e.tracks = d.tracks
  BY DEF DiscData, AllUndivided

\* the genre,
LEMMA GenreGiven ==
  ASSUME NEW d \in DiscData, AllUndivided(d), NEW v \in Texts, NEW e, e = [d EXCEPT !.genre = v]
  PROVE  /\ e \in DiscData /\ AllUndivided(e) /\ e.artist = d.artist /\ e.title = d.title
         /\ e.length = d.length /\ e.revision = d.revision /\ e.year = d.year /\ e.genre = v
         /\ e.ext_data = d.ext_data /\ e.tracks = d.tracks
  BY DEF DiscData, AllUndivided

\* the extended data,
LEMMA ExtGiven ==
  ASSUME NEW d \in DiscData, AllUndivided(d), NEW v \in Texts, NEW e, e = [d EXCEPT !.ext_data = v]
  PROVE  /\ e \in DiscData /\ AllUndivided(e) /\ e.artist = d.artist /\ e.title = d.title
         /\ e.length = d.length /\ e.revision = d.revision /\ e.year = d.year /\ e.genre = d.genre
         /\ e.ext_data = v /\ e.tracks = d.tracks
  BY DEF DiscData, AllUndivided

UndividedTracks(s) == \A i \in 1..Len(s) : Undivided(s[i].artist) /\ Undivided(s[i].title)

WithTracks(d, s) == [d EXCEPT !.tracks = s]

\* the tracks.
LEMMA TracksGiven ==
  ASSUME NEW d \in DiscData, AllUndivided(d), NEW s \in Seq(TrackData), UndividedTracks(s),
         NEW e, e = WithTracks(d, s)
  PROVE  Good(e) /\ TracksApart(e, d) /\ e.tracks = s
<1>1. DOMAIN s = 1..Len(s)
  OBVIOUS
<1>. QED
  BY <1>1 DEF DiscData, AllUndivided, UndividedTracks, Good, TracksApart, WithTracks

\* The names of a disc apart from those of its tracks.
LEMMA AllUndividedIs ==
  ASSUME NEW d \in DiscData
  PROVE  AllUndivided(d) <=> Undivided(d.artist) /\ Undivided(d.title) /\ UndividedTracks(d.tracks)
  BY DiscFields DEF AllUndivided, UndividedTracks

\* Track k of a disc is exchanged.
LEMMA TrackGiven ==
  ASSUME NEW s \in Seq(TrackData), UndividedTracks(s), NEW k, k \in 1..Len(s), NEW r \in TrackData,
         Undivided(r.artist), Undivided(r.title), NEW z, z = [s EXCEPT ![k] = r]
  PROVE  /\ z \in Seq(TrackData) /\ UndividedTracks(z) /\ Len(z) = Len(s) /\ z[k] = r
         /\ \A i \in 1..Len(s) : i # k => z[i] = s[i]
<1>1. DOMAIN s = 1..Len(s) /\ Len(s) \in Nat
  OBVIOUS
<1>2. z \in Seq(TrackData) /\ Len(z) = Len(s) /\ z[k] = r /\ \A i \in 1..Len(s) : i # k => z[i] = s[i]
  BY <1>1
<1>. QED
  BY <1>2 DEF UndividedTracks

\* A new disc structure is a disc.
LEMMA NewDiscIs ==
  /\ NewDisc \in DiscData /\ AllUndivided(NewDisc)
  /\ NewTrack \in TrackData /\ Undivided(NewTrack.artist) /\ Undivided(NewTrack.title)
<1>1. "misc" \in Categories
  BY VocabularyAssumption
<1>2. <<>> \in Seq(TrackData) /\ DOMAIN <<>> = {}
  OBVIOUS
<1>. QED
  BY <1>1, <1>2 DEF NewDisc, NewTrack, DiscData, TrackData, Texts, AllUndivided, Undivided

----------------------------------------------------------------------------
(* What the lines of a record make of the disc structure.                  *)

\* What a state of CddbRecord has besides types: artists and titles have no Slash, a line
\* one at most, the disc that was written was complete, and the locals of a call that has
\* not begun are as it finds them.
TypeInv ==
  /\ RecordTypeOK
  /\ AllUndivided(disc) /\ Writable(meant) /\ AllPartable(rec)
  /\ pc = "idle" => /\ at = 0 /\ dotted = FALSE /\ state = "start" /\ multi_line = "none"
                    /\ track_no = 0 /\ old_no = -1
  /\ state \in {"start", "offsets"} => track_no <= Len(disc.tracks)

\* What the types say of the record and the disc.
LEMMA TypeFacts ==
  ASSUME TypeInv
  PROVE  /\ rec \in Seq(Lines) /\ Len(rec) \in Nat /\ DOMAIN rec = 1..Len(rec)
         /\ Good(disc) /\ meant \in DiscData /\ before \in DiscData
         /\ at \in Nat /\ at <= Len(rec) + 1 /\ track_no \in Nat /\ old_no \in Nat \cup {-1}
         /\ disc.tracks \in Seq(TrackData) /\ Len(disc.tracks) \in Nat
<1>1. rec \in Seq(Lines) /\ disc \in DiscData /\ meant \in DiscData /\ before \in DiscData
  BY DEF TypeInv, RecordTypeOK
<1>2. Len(rec) \in Nat /\ DOMAIN rec = 1..Len(rec)
  BY <1>1
<1>3. at \in Nat /\ at <= Len(rec) + 1
  BY <1>2 DEF TypeInv, RecordTypeOK
<1>. QED
  BY <1>1, <1>2, <1>3, DiscFields DEF TypeInv, RecordTypeOK, Good

\* The line that comes next.
LEMMA LineTypes ==
  ASSUME TypeInv
  PROVE  /\ line.no \in Nat
         /\ line.key \in Textual => line.data \in Seq(Words)
         /\ line.key \in {"offset", "length", "revision", "year"} => line.data \in Nat
         /\ line.key \in {"title", "ttitle"} => OneSlash(line.data)
         /\ line.key \in Textual \cup {"offset", "length", "revision", "year",
                                       "other", "offsets", "hidden", "order", "dot"}
         /\ line.key # "dot" => at < Len(rec) /\ at + 1 \in 1..Len(rec) /\ line = rec[at + 1]
         /\ at < Len(rec) => line \in Lines /\ line = rec[at + 1] /\ line.key # "dot"
<1>1. rec \in Seq(Lines) /\ Len(rec) \in Nat /\ at \in Nat /\ AllPartable(rec)
  BY TypeFacts DEF TypeInv
<1>2. CASE at < Len(rec)
  <2>1. at + 1 \in 1..Len(rec)
    BY <1>1, <1>2
  <2>2. line = rec[at + 1] /\ line \in Lines /\ Partable(line)
    BY <1>1, <1>2, <2>1 DEF line, AllPartable
  <2> HIDE DEF line
  <2>3. line.key # "dot"
    BY <2>2, LineData DEF Textual
  <2>. QED
    BY <1>2, <2>1, <2>2, <2>3, LineData DEF Partable, OneSlash
<1>3. CASE ~(at < Len(rec))
  <2>1. line = Line("dot", 0, <<>>)
    BY <1>3 DEF line
  <2>2. line.key = "dot" /\ line.no = 0
    BY <2>1, LineFields
  <2>. QED
    BY <1>3, <2>2 DEF Textual
<1>. QED
  BY <1>2, <1>3

\* The lines a state asks for.
LEMMA TextOfLine ==
  ASSUME TypeInv, line.key \in {"title", "ttitle"}
  PROVE  line.data \in Seq(Words) /\ OneSlash(line.data) /\ at < Len(rec) /\ line = rec[at + 1]
  BY LineTypes DEF Textual

HadArtist == IF multi_line = "none" THEN Null ELSE disc.artist
HadTitle  == IF multi_line = "none" THEN Null ELSE disc.title

\* A title of the disc keeps the disc a disc.
LEMMA DiscTitleMakes ==
  ASSUME TypeInv, DiscTitle
  PROVE  /\ Good(disc') /\ NamesApart(disc', disc)
         /\ Split(line.data) => /\ disc'.artist = Extended(HadArtist, BeforeSlash(line.data))
                                /\ disc'.title = Extended(HadTitle, AfterSlash(line.data))
                                /\ multi_line' = "title"
         /\ ~Split(line.data) /\ multi_line = "title" =>
              /\ disc'.artist = HadArtist /\ disc'.title = Extended(HadTitle, line.data)
              /\ multi_line' = "title"
         /\ ~Split(line.data) /\ multi_line # "title" =>
              /\ disc'.artist = Extended(HadArtist, line.data) /\ disc'.title = HadTitle
              /\ multi_line' = "artist"
<1> DEFINE d == IF multi_line = "none" THEN [disc EXCEPT !.artist = Null, !.title = Null] ELSE disc
           data == line.data
<1>1. disc \in DiscData /\ AllUndivided(disc)
  BY TypeFacts DEF Good
<1>2. data \in Seq(Words) /\ OneSlash(data)
  BY TextOfLine DEF DiscTitle
<1>3. Null \in Texts /\ Undivided(Null)
  BY DEF Texts, Undivided
<1>4. d \in DiscData /\ AllUndivided(d) /\ d.artist = HadArtist /\ d.title = HadTitle
      /\ NamesApart(d, disc)
  <2>1. CASE multi_line = "none"
    <3>1. d = Renamed(disc, Null, Null) /\ HadArtist = Null /\ HadTitle = Null
      BY <2>1 DEF HadArtist, HadTitle, Renamed
    <3> HIDE DEF d
    <3>. QED
      BY <1>1, <1>3, <3>1, DiscGiven DEF Good
  <2>2. CASE multi_line # "none"
    BY <1>1, <2>2 DEF HadArtist, HadTitle, NamesApart
  <2>. QED
    BY <2>1, <2>2
<1>5. d.artist \in Texts /\ d.title \in Texts /\ Undivided(d.artist) /\ Undivided(d.title)
  <2> HIDE DEF d
  <2>. QED
    BY <1>4, DiscFields DEF AllUndivided
<1>6. /\ Split(data) => /\ disc' = [d EXCEPT !.artist = Extended(@, BeforeSlash(data)),
                                             !.title = Extended(@, AfterSlash(data))]
                        /\ multi_line' = "title"
      /\ ~Split(data) /\ multi_line = "title" =>
           disc' = [d EXCEPT !.title = Extended(@, data)] /\ multi_line' = multi_line
      /\ ~Split(data) /\ multi_line # "title" =>
           disc' = [d EXCEPT !.artist = Extended(@, data)] /\ multi_line' = "artist"
  BY DEF DiscTitle
<1> HIDE DEF d, data
<1>7. CASE Split(data)
  <2> DEFINE a == Extended(d.artist, BeforeSlash(data))
             t == Extended(d.title, AfterSlash(data))
  <2>1. /\ BeforeSlash(data) \in Seq(Words) /\ AfterSlash(data) \in Seq(Words)
        /\ Undivided(BeforeSlash(data)) /\ Undivided(AfterSlash(data))
    BY <1>2, <1>7, PartsAre
  <2>2. a \in Texts /\ Undivided(a)
    BY <1>5, <2>1, ExtendedIs DEF Texts
  <2>3. t \in Texts /\ Undivided(t)
    BY <1>5, <2>1, ExtendedIs DEF Texts
  <2>4. disc' = Renamed(d, a, t)
    BY <1>6, <1>7 DEF Renamed
  <2> HIDE DEF a, t
  <2>5. Good(disc') /\ NamesApart(disc', d) /\ disc'.artist = a /\ disc'.title = t
    BY <1>4, <2>2, <2>3, <2>4, DiscGiven
  <2>. QED
    BY <1>4, <1>6, <1>7, <2>5 DEF NamesApart, a, t, data
<1>8. CASE ~Split(data) /\ multi_line = "title"
  <2> DEFINE t == Extended(d.title, data)
  <2>1. Undivided(data)
    BY <1>2, <1>8, PartsAre
  <2>2. t \in Texts /\ Undivided(t)
    BY <1>2, <1>5, <2>1, ExtendedIs DEF Texts
  <2>3. disc' = [d EXCEPT !.title = t]
    BY <1>6, <1>8
  <2> HIDE DEF t
  <2>4. disc' = Renamed(d, d.artist, t)
    BY <1>4, <2>3 DEF DiscData, Renamed
  <2>5. Good(disc') /\ NamesApart(disc', d) /\ disc'.artist = d.artist /\ disc'.title = t
    BY <1>4, <1>5, <2>2, <2>4, DiscGiven
  <2>. QED
    BY <1>4, <1>6, <1>8, <2>5 DEF NamesApart, t, data
<1>9. CASE ~Split(data) /\ multi_line # "title"
  <2> DEFINE a == Extended(d.artist, data)
  <2>1. Undivided(data)
    BY <1>2, <1>9, PartsAre
  <2>2. a \in Texts /\ Undivided(a)
    BY <1>2, <1>5, <2>1, ExtendedIs DEF Texts
  <2>3. disc' = [d EXCEPT !.artist = a]
    BY <1>6, <1>9
  <2> HIDE DEF a
  <2>4. disc' = Renamed(d, a, d.title)
    BY <1>4, <2>3 DEF DiscData, Renamed
  <2>5. Good(disc') /\ NamesApart(disc', d) /\ disc'.artist = a /\ disc'.title = d.title
    BY <1>4, <1>5, <2>2, <2>4, DiscGiven
  <2>. QED
    BY <1>4, <1>6, <1>9, <2>5 DEF NamesApart, a, data
<1>. QED
  BY <1>7, <1>8, <1>9 DEF data

\* So does an offset, for a track it has or a new one.
LEMMA HeaderOffsetMakes ==
  ASSUME TypeInv, HeaderOffset
  PROVE  /\ Good(disc') /\ TracksApart(disc', disc)
         /\ track_no < Len(disc.tracks) => Len(disc'.tracks) = Len(disc.tracks)
         /\ track_no >= Len(disc.tracks) => Len(disc'.tracks) = Len(disc.tracks) + 1
         /\ track_no + 1 \in 1..Len(disc'.tracks)
         /\ disc'.tracks[track_no + 1].frame_offset = line.data
         /\ \A i \in 1..Len(disc.tracks) : i # track_no + 1 => disc'.tracks[i] = disc.tracks[i]
<1> DEFINE s == disc.tracks
           had == IF track_no < Len(s) THEN s ELSE Append(s, NewTrack)
           k == track_no + 1
           r == [had[k] EXCEPT !.frame_offset = line.data]
           z == [had EXCEPT ![k] = r]
<1>1. disc \in DiscData /\ AllUndivided(disc) /\ s \in Seq(TrackData) /\ UndividedTracks(s)
      /\ Len(s) \in Nat /\ track_no \in Nat
  BY TypeFacts, AllUndividedIs DEF Good
<1>2. track_no <= Len(s)
  BY DEF HeaderOffset, TypeInv
<1>3. line.data \in Nat
  BY LineTypes DEF HeaderOffset
<1>4. disc' = WithTracks(disc, z)
  BY DEF HeaderOffset, WithTracks
<1> HIDE DEF s
<1>5. /\ had \in Seq(TrackData) /\ k \in 1..Len(had) /\ UndividedTracks(had)
      /\ track_no < Len(s) => Len(had) = Len(s)
      /\ track_no >= Len(s) => Len(had) = Len(s) + 1
      /\ \A i \in 1..Len(s) : had[i] = s[i]
  <2>1. CASE track_no < Len(s)
    BY <1>1, <1>2, <2>1
  <2>2. CASE ~(track_no < Len(s))
    <3> DEFINE q == Append(s, NewTrack)
    <3>1. had = q
      BY <2>2
    <3>2. /\ q \in Seq(TrackData) /\ Len(q) = Len(s) + 1 /\ q[Len(s) + 1] = NewTrack
          /\ \A i \in 1..Len(s) : q[i] = s[i]
      BY <1>1, NewDiscIs
    <3> HIDE DEF q
    <3>3. UndividedTracks(q)
      <4>1. \A i \in 1..(Len(s) + 1) : i \in 1..Len(s) \/ i = Len(s) + 1
        BY <1>1
      <4>. QED
        BY <1>1, <3>2, <4>1, NewDiscIs DEF UndividedTracks
    <3>. QED
      <4>1. track_no = Len(s) /\ k \in 1..Len(q)
        BY <1>1, <1>2, <2>2, <3>2
      <4> HIDE DEF had, k
      <4>. QED
        BY <1>1, <2>2, <3>1, <3>2, <3>3, <4>1
  <2>. QED
    BY <2>1, <2>2
<1> HIDE DEF had, k
<1>6. had[k] \in TrackData /\ Undivided(had[k].artist) /\ Undivided(had[k].title)
  BY <1>5 DEF UndividedTracks
<1>7. r \in TrackData /\ Undivided(r.artist) /\ Undivided(r.title) /\ r.frame_offset = line.data
  BY <1>3, <1>6 DEF TrackData
<1> HIDE DEF r
<1>8. /\ z \in Seq(TrackData) /\ UndividedTracks(z) /\ Len(z) = Len(had) /\ z[k] = r
      /\ \A i \in 1..Len(had) : i # k => z[i] = had[i]
  BY <1>5, <1>7, TrackGiven
<1> HIDE DEF z
<1>9. Good(disc') /\ TracksApart(disc', disc) /\ disc'.tracks = z
  BY <1>1, <1>4, <1>8, TracksGiven
<1>10. ASSUME NEW i \in 1..Len(s), i # k PROVE z[i] = s[i]
  <2>1. i \in 1..Len(had)
    BY <1>1, <1>5
  <2>. QED
    BY <1>5, <1>8, <1>10, <2>1
<1>. QED
  BY <1>5, <1>7, <1>8, <1>9, <1>10 DEF s, k

\* A disc without a title has that of its artist when its title lines have ended.
LEMMA EndsTitleIs ==
  ASSUME TypeInv
  PROVE  /\ Good(EndsTitle) /\ NamesApart(EndsTitle, disc) /\ EndsTitle.artist = disc.artist
         /\ state # "title" \/ disc.title # Null => EndsTitle.title = disc.title
         /\ state = "title" /\ disc.title = Null => EndsTitle.title = disc.artist
<1>1. disc \in DiscData /\ AllUndivided(disc)
  BY TypeFacts DEF Good
<1>2. CASE state = "title" /\ disc.artist # Null /\ disc.title = Null
  <2> DEFINE a == disc.artist
  <2>1. a \in Texts /\ Undivided(a)
    BY <1>1, DiscFields DEF AllUndivided
  <2>2. EndsTitle = Renamed(disc, a, a)
    <3>1. EndsTitle = [disc EXCEPT !.title = a]
      BY <1>2 DEF EndsTitle
    <3>. QED
      BY <1>1, <3>1 DEF DiscData, Renamed
  <2> HIDE DEF a
  <2>3. Good(EndsTitle) /\ NamesApart(EndsTitle, disc) /\ EndsTitle.artist = a /\ EndsTitle.title = a
    BY <1>1, <2>1, <2>2, DiscGiven
  <2>. QED
    BY <1>2, <2>3 DEF a
<1>3. CASE ~(state = "title" /\ disc.artist # Null /\ disc.title = Null)
  <2>1. EndsTitle = disc
    BY <1>3 DEF EndsTitle
  <2>. QED
    BY <1>1, <1>3, <2>1 DEF Good, NamesApart
<1>. QED
  BY <1>2, <1>3

\* Track k alone is changed.
OtherwiseSame(k) ==
  /\ Good(disc') /\ disc'.length = disc.length /\ disc'.revision = disc.revision
  /\ disc'.year = disc.year /\ disc'.genre = disc.genre /\ disc'.ext_data = disc.ext_data
  /\ disc'.artist = disc.artist /\ disc'.title = EndsTitle.title
  /\ Len(disc'.tracks) = Len(disc.tracks)
  /\ \A i \in 1..Len(disc.tracks) : i # k => disc'.tracks[i] = disc.tracks[i]

\* A line for a track changes that track only.
LEMMA TrackLineMakes ==
  ASSUME TypeInv, NEW k, k \in 1..Len(disc.tracks), NEW r \in TrackData,
         Undivided(r.artist), Undivided(r.title),
         disc' = [EndsTitle EXCEPT !.tracks = [EndsTitle.tracks EXCEPT ![k] = r]]
  PROVE  OtherwiseSame(k) /\ disc'.tracks[k] = r
<1> DEFINE e == EndsTitle
           s == e.tracks
           z == [s EXCEPT ![k] = r]
<1>1. Good(e) /\ NamesApart(e, disc) /\ e.artist = disc.artist
  BY EndsTitleIs
<1>2. disc' = WithTracks(e, z)
  BY DEF WithTracks
<1> HIDE DEF e
<1>3. e \in DiscData /\ AllUndivided(e) /\ s \in Seq(TrackData) /\ UndividedTracks(s)
      /\ s = disc.tracks
  BY <1>1, DiscFields, AllUndividedIs DEF Good, NamesApart
<1> HIDE DEF s
<1>4. /\ z \in Seq(TrackData) /\ UndividedTracks(z) /\ Len(z) = Len(s) /\ z[k] = r
      /\ \A i \in 1..Len(s) : i # k => z[i] = s[i]
  BY <1>3, TrackGiven
<1> HIDE DEF z
<1>5. Good(disc') /\ TracksApart(disc', e) /\ disc'.tracks = z
  BY <1>2, <1>3, <1>4, TracksGiven
<1>. QED
  BY <1>1, <1>3, <1>4, <1>5 DEF OtherwiseSame, NamesApart, TracksApart, e

\* The track a line for a title goes to, without what an earlier read has left there.
Cleared(t) == [t EXCEPT !.artist = Null, !.title = Null]

\* A track without its names is a track.
LEMMA ClearedIs ==
  ASSUME NEW t \in TrackData
  PROVE  /\ Cleared(t) \in TrackData /\ Cleared(t).artist = Null /\ Cleared(t).title = Null
         /\ Cleared(t).frame_offset = t.frame_offset /\ Cleared(t).ext_data = t.ext_data
         /\ Undivided(Null)
  BY DEF Cleared, TrackData, Texts, Undivided

TakenFor(t) == IF line.no = OldNo THEN t ELSE Cleared(t)

\* So is one that has taken a line.
LEMMA TakenForIs ==
  ASSUME NEW t \in TrackData, Undivided(t.artist), Undivided(t.title)
  PROVE  /\ TakenFor(t) \in TrackData /\ Undivided(TakenFor(t).artist) /\ Undivided(TakenFor(t).title)
         /\ TakenFor(t).frame_offset = t.frame_offset /\ TakenFor(t).ext_data = t.ext_data
  BY ClearedIs DEF TakenFor

\* The track a line is for.
LEMMA TrackAt ==
  ASSUME TypeInv, NEW k \in 1..Len(disc.tracks)
  PROVE  disc.tracks[k] \in TrackData /\ Undivided(disc.tracks[k].artist)
         /\ Undivided(disc.tracks[k].title)
<1>1. UndividedTracks(disc.tracks)
  BY TypeFacts, AllUndividedIs DEF Good
<1>. QED
  BY <1>1, TypeFacts DEF UndividedTracks

\* A title of a track keeps the other tracks.
LEMMA TrackTitleLineMakes ==
  ASSUME TypeInv, TrackTitleLine, NEW k, k = line.no + 1
  PROVE  /\ k \in 1..Len(disc.tracks) /\ OtherwiseSame(k)
         /\ disc'.tracks[k] = Named(TakenFor(disc.tracks[k]), line.data)
<1> DEFINE data == line.data
           t == TakenFor(disc.tracks[k])
           r == Named(t, data)
<1>1. line.key = "ttitle" /\ line.no < Len(disc.tracks)
  BY DEF TrackTitleLine, Knows
<1>2. line.no \in Nat /\ data \in Seq(Words) /\ OneSlash(data)
  BY <1>1, LineTypes DEF Textual
<1>3. k \in 1..Len(disc.tracks)
  BY <1>1, <1>2, TypeFacts
<1>4. EndsTitle.tracks = disc.tracks
  BY EndsTitleIs DEF NamesApart
<1>5. disc' = [EndsTitle EXCEPT !.tracks = [EndsTitle.tracks EXCEPT ![k] = r]]
  BY <1>4 DEF TrackTitleLine, TakenFor, Cleared
<1>6. t \in TrackData /\ Undivided(t.artist) /\ Undivided(t.title)
  BY <1>3, TrackAt, TakenForIs
<1> HIDE DEF t, data
<1>7. r \in TrackData /\ Undivided(r.artist) /\ Undivided(r.title)
  BY <1>2, <1>6, NamedIs
<1> HIDE DEF r
<1>8. OtherwiseSame(k) /\ disc'.tracks[k] = r
  BY <1>3, <1>5, <1>7, TrackLineMakes
<1>. QED
  BY <1>3, <1>8 DEF r, t, data

\* An empty line adds nothing.
Longer(had, data) == IF data = <<>> THEN had ELSE Extended(had, data)

\* The longer text is a text.
LEMMA LongerIs ==
  ASSUME NEW had \in Texts, NEW data \in Seq(Words)
  PROVE  Longer(had, data) \in Texts
  BY ExtendedIs DEF Longer, Texts

\* The extended data a line for a track goes behind.
HadExt(t) == IF line.no = OldNo THEN t.ext_data ELSE Null

\* So does an extended line of a track.
LEMMA TrackExtMakes ==
  ASSUME TypeInv, TrackExt, NEW k, k = line.no + 1
  PROVE  /\ k \in 1..Len(disc.tracks) /\ OtherwiseSame(k)
         /\ disc'.tracks[k].artist = disc.tracks[k].artist
         /\ disc'.tracks[k].title = disc.tracks[k].title
         /\ disc'.tracks[k].frame_offset = disc.tracks[k].frame_offset
         /\ disc'.tracks[k].ext_data = Longer(HadExt(disc.tracks[k]), line.data)
<1> DEFINE data == line.data
           t == disc.tracks[k]
           v == Longer(HadExt(t), data)
           r == [t EXCEPT !.ext_data = v]
<1>1. line.key = "extt" /\ line.no < Len(disc.tracks)
  BY DEF TrackExt, Knows
<1>2. line.no \in Nat /\ data \in Seq(Words)
  BY <1>1, LineTypes DEF Textual
<1>3. k \in 1..Len(disc.tracks)
  BY <1>1, <1>2, TypeFacts
<1>4. EndsTitle.tracks = disc.tracks
  BY EndsTitleIs DEF NamesApart
<1>5. disc' = [EndsTitle EXCEPT !.tracks = [EndsTitle.tracks EXCEPT ![k] = r]]
  <2>1. disc' = [EndsTitle EXCEPT !.tracks[line.no + 1].ext_data = v]
    BY <1>4 DEF TrackExt, Longer, HadExt
  <2> HIDE DEF v
  <2>. QED
    BY <1>4, <2>1
<1>6. t \in TrackData /\ Undivided(t.artist) /\ Undivided(t.title)
  BY <1>3, TrackAt
<1> HIDE DEF t, data
<1>7. v \in Texts
  <2>1. HadExt(t) \in Texts
    BY <1>6 DEF HadExt, TrackData, Texts
  <2>. QED
    BY <1>2, <2>1, LongerIs
<1> HIDE DEF v
<1>8. r \in TrackData /\ r.artist = t.artist /\ r.title = t.title /\ r.frame_offset = t.frame_offset
      /\ r.ext_data = v
  BY <1>6, <1>7 DEF TrackData
<1> HIDE DEF r
<1>9. OtherwiseSame(k) /\ disc'.tracks[k] = r
  BY <1>3, <1>5, <1>6, <1>8, TrackLineMakes
<1>. QED
  BY <1>3, <1>8, <1>9 DEF v, t, data

\* The extended data of the disc.
HadDiscExt == IF Multi = "none" THEN Null ELSE EndsTitle.ext_data

\* An extended line of the disc keeps the disc a disc.
LEMMA DiscExtMakes ==
  ASSUME TypeInv, DiscExt
  PROVE  /\ Good(disc') /\ disc'.artist = disc.artist /\ disc'.title = EndsTitle.title
         /\ disc'.length = disc.length /\ disc'.revision = disc.revision /\ disc'.year = disc.year
         /\ disc'.genre = disc.genre /\ disc'.tracks = disc.tracks
         /\ disc'.ext_data = Longer(HadDiscExt, line.data)
<1> DEFINE data == line.data
           e == EndsTitle
           v == Longer(HadDiscExt, data)
<1>1. line.key = "ext"
  BY DEF DiscExt, Knows
<1>2. data \in Seq(Words)
  BY <1>1, LineTypes DEF Textual
<1>3. Good(e) /\ NamesApart(e, disc) /\ e.artist = disc.artist
  BY EndsTitleIs
<1>4. disc' = [e EXCEPT !.ext_data = v]
  BY DEF DiscExt, Longer, HadDiscExt
<1>5. HadDiscExt \in Texts
  BY <1>3, DiscFields DEF HadDiscExt, Good, Texts
<1>6. v \in Texts
  BY <1>2, <1>5, LongerIs
<1> HIDE DEF v, e
<1>7. /\ disc' \in DiscData /\ AllUndivided(disc') /\ disc'.artist = e.artist /\ disc'.title = e.title
      /\ disc'.length = e.length /\ disc'.revision = e.revision /\ disc'.year = e.year
      /\ disc'.genre = e.genre /\ disc'.ext_data = v /\ disc'.tracks = e.tracks
  BY <1>3, <1>4, <1>6, ExtGiven DEF Good
<1>. QED
  BY <1>3, <1>7 DEF Good, NamesApart, e, v

----------------------------------------------------------------------------
(* Types.                                                                  *)

States == {"start", "offsets", "length", "revision", "title", "stop",
           "year", "genre", "ttitle", "ext", "extt", "order", "dot"}

\* The order of the states of cddb_parse_record.
LEMMA OrderIs ==
  /\ Len(Order) = 7 /\ DOMAIN Order = 1..7
  /\ Order[1] = "year" /\ Order[2] = "genre" /\ Order[3] = "ttitle" /\ Order[4] = "ext"
  /\ Order[5] = "extt" /\ Order[6] = "order" /\ Order[7] = "dot"
  BY DEF Order

\* The states of cddb_parse_record.
LEMMA StatesAre ==
  {"start", "offsets", "length", "revision", "title", "stop"} \cup Range(Order) = States
<1>1. Range(Order) = {Order[i] : i \in 1..7}
  BY OrderIs DEF Range
<1>2. 1..7 = {1, 2, 3, 4, 5, 6, 7}
  OBVIOUS
<1>3. Range(Order) = {"year", "genre", "ttitle", "ext", "extt", "order", "dot"}
  BY <1>1, <1>2, OrderIs
<1>. QED
  BY <1>3 DEF States

\* Where a keyword stands in the order of the states.
LEMMA PlaceIs ==
  /\ Place("year") = 1 /\ Place("genre") = 2 /\ Place("ttitle") = 3 /\ Place("ext") = 4
  /\ Place("extt") = 5 /\ Place("order") = 6 /\ Place("dot") = 7
  /\ \A key : key \notin {"year", "genre", "ttitle", "ext", "extt", "order", "dot"} => Place(key) = 8
<1>1. ASSUME NEW k \in 1..7 PROVE Place(Order[k]) = k
  <2>1. \A i \in DOMAIN Order : Order[i] = Order[k] => i = k
    <3>1. \A i \in 1..7 : i = 1 \/ i = 2 \/ i = 3 \/ i = 4 \/ i = 5 \/ i = 6 \/ i = 7
      OBVIOUS
    <3>. QED
      BY <3>1, OrderIs
  <2>. QED
    BY <2>1, OrderIs DEF Place
<1>2. Place(Order[1]) = 1 /\ Place(Order[2]) = 2 /\ Place(Order[3]) = 3 /\ Place(Order[4]) = 4
      /\ Place(Order[5]) = 5 /\ Place(Order[6]) = 6 /\ Place(Order[7]) = 7
  BY <1>1
<1>3. ASSUME NEW key, key \notin {"year", "genre", "ttitle", "ext", "extt", "order", "dot"}
      PROVE  Place(key) = 8
  <2>1. \A i \in 1..7 : i = 1 \/ i = 2 \/ i = 3 \/ i = 4 \/ i = 5 \/ i = 6 \/ i = 7
    OBVIOUS
  <2>2. ~\E i \in DOMAIN Order : Order[i] = key
    BY <1>3, <2>1, OrderIs
  <2>. QED
    BY <2>2, OrderIs DEF Place
<1>. QED
  BY <1>2, <1>3, OrderIs

\* The locals are kept or reset.
LEMMA MultiIs ==
  /\ Multi \in {"none", multi_line} /\ OldNo \in {-1, old_no}
  BY DEF Multi, OldNo

\* The types of what a read changes.
ReadTypes ==
  /\ Good(disc) /\ state \in States /\ multi_line \in {"none", "artist", "title", "ext"}
  /\ track_no \in Nat /\ old_no \in Nat \cup {-1}
  /\ state \in {"start", "offsets"} => track_no <= Len(disc.tracks)

Typed ==
  /\ rec \in Seq(Lines) /\ AllPartable(rec) /\ Writable(meant) /\ before \in DiscData
  /\ pc \in {"idle", "reading"} /\ at \in 0..(Len(rec) + 1)
  /\ ret \in {"none", "ok", "failed"} /\ calls \in 0..MaxCalls /\ events \in 0..MaxEvents
  /\ {plain, fit, dotted} \subseteq BOOLEAN
  /\ pc = "idle" => /\ at = 0 /\ dotted = FALSE /\ state = "start" /\ multi_line = "none"
                    /\ track_no = 0 /\ old_no = -1
  /\ ReadTypes

\* The types once more, in the order the proofs need them.
LEMMA TypeParts == TypeInv <=> Typed
  BY StatesAre DEF TypeInv, RecordTypeOK, ReadTypes, Good, Writable, Typed

\* The discs that are written, and the new one.
LEMMA ContentIs ==
  /\ \A x \in Contents : Writable(x) /\ Good(x)
  /\ Good(NewDisc)
  BY ContentsAssumption, NewDiscIs DEF Writable, Good

\* Writing keeps to the types of lines.
LEMMA RecordTypes ==
  ASSUME NEW d, Writable(d), NEW old \in BOOLEAN
  PROVE  Record(d, old) \in Seq(Lines) /\ AllPartable(Record(d, old)) /\ Len(Record(d, old)) \in Nat
<1>1. Record(d, old) \in Seq(Lines) /\ AllPartable(Record(d, old))
  BY RecordShape DEF Shape
<1>. QED
  BY <1>1

\* The types hold in the beginning.
LEMMA TypeInit == Init => TypeInv
<1> SUFFICES ASSUME Init PROVE TypeInv
  OBVIOUS
<1>1. Writable(meant) /\ Writable(DiscIconv(meant, 1))
  <2>1. Writable(meant)
    BY ContentIs DEF Init
  <2>. QED
    BY <2>1, IconvKeeps DEF Writable
<1>2. rec \in Seq(Lines) /\ AllPartable(rec) /\ Len(rec) \in Nat
  BY <1>1, RecordTypes DEF Init
<1>3. Good(disc) /\ before \in DiscData /\ Len(disc.tracks) \in Nat
  BY ContentIs, DiscFields DEF Init, Good
<1>4. 0 \in 0..MaxCalls /\ 0 \in 0..MaxEvents /\ 0 \in 0..(Len(rec) + 1)
  BY <1>2, BoundAssumption
<1>5. ReadTypes
  BY <1>3 DEF Init, ReadTypes, States
<1>6. /\ pc = "idle" /\ at = 0 /\ dotted = FALSE /\ state = "start" /\ multi_line = "none"
      /\ track_no = 0 /\ old_no = -1 /\ ret = "none" /\ calls = 0 /\ events = 0
      /\ plain = TRUE /\ fit = FALSE
  BY DEF Init
<1>. QED
  BY <1>1, <1>2, <1>3, <1>4, <1>5, <1>6, TypeParts DEF Typed

\* What a step of the parser leaves alone.
LEMMA TakesKeeps ==
  ASSUME TypeInv, Takes, ReadTypes'
  PROVE  TypeInv'
<1>1. /\ rec' = rec /\ pc' = pc /\ dotted' = dotted /\ ret' = ret /\ calls' = calls
      /\ events' = events /\ meant' = meant /\ before' = before /\ plain' = plain /\ fit' = fit
      /\ at' = at + 1 /\ pc = "reading" /\ at <= Len(rec)
  BY TypeFacts DEF Takes, Comes, history
<1>2. at' \in 0..(Len(rec) + 1)
  BY <1>1, TypeFacts
<1>3. Typed
  BY TypeParts
<1>4. AllPartable(rec)' /\ Writable(meant)'
  BY <1>1, <1>3 DEF Typed
<1>5. Typed'
  BY <1>1, <1>2, <1>3, <1>4 DEF Typed
<1>. QED
  BY <1>5, TypeParts, PTL

\* The lines of the header and the title.
LEMMA HeaderTypes ==
  ASSUME TypeInv,
         HeaderStart \/ HeaderOffset \/ HeaderLength \/ HeaderRevision \/ DiscTitle \/ SkipToTitle
  PROVE  ReadTypes'
<1>1. ReadTypes /\ disc \in DiscData /\ AllUndivided(disc)
  BY TypeParts DEF Typed, ReadTypes, Good
<1>2. CASE HeaderStart
  BY <1>1, <1>2 DEF HeaderStart, ReadTypes, States
<1>3. CASE HeaderOffset
  <2>1. Good(disc') /\ track_no + 1 \in 1..Len(disc'.tracks)
    BY <1>3, HeaderOffsetMakes
  <2>2. track_no' = track_no + 1 /\ state' = state /\ multi_line' = multi_line /\ old_no' = old_no
    BY <1>3 DEF HeaderOffset
  <2>. QED
    BY <1>1, <2>1, <2>2 DEF ReadTypes
<1>4. CASE HeaderLength
  <2>1. multi_line' = multi_line /\ track_no' = track_no /\ old_no' = old_no
        /\ state' \in {"revision", "length"}
    BY <1>4 DEF HeaderLength
  <2>2. Good(disc')
    <3>1. CASE line.key = "length"
      <4> DEFINE v == line.data
      <4>1. v \in Nat
        BY <3>1, LineTypes
      <4>2. disc' = [disc EXCEPT !.length = v]
        BY <1>4, <3>1 DEF HeaderLength
      <4> HIDE DEF v
      <4>. QED
        BY <1>1, <4>1, <4>2, LengthGiven DEF Good
    <3>2. CASE line.key # "length"
      BY <1>1, <1>4, <3>2 DEF HeaderLength, ReadTypes
    <3>. QED
      BY <3>1, <3>2
  <2>. QED
    BY <1>1, <2>1, <2>2 DEF ReadTypes, States
<1>5. CASE HeaderRevision
  <2>1. multi_line' = multi_line /\ track_no' = track_no /\ old_no' = old_no
        /\ state' \in {"revision", "title"}
    BY <1>5 DEF HeaderRevision
  <2>2. Good(disc')
    <3>1. CASE line.key = "revision"
      <4> DEFINE v == line.data
      <4>1. v \in Nat
        BY <3>1, LineTypes
      <4>2. disc' = [disc EXCEPT !.revision = v]
        BY <1>5, <3>1 DEF HeaderRevision
      <4> HIDE DEF v
      <4>. QED
        BY <1>1, <4>1, <4>2, RevisionGiven DEF Good
    <3>2. CASE line.key # "revision"
      BY <1>1, <1>5, <3>2 DEF HeaderRevision, ReadTypes
    <3>. QED
      BY <3>1, <3>2
  <2>. QED
    BY <1>1, <2>1, <2>2 DEF ReadTypes, States
<1>6. CASE DiscTitle
  <2>1. Good(disc') /\ multi_line' \in {"title", "artist"}
    BY <1>6, DiscTitleMakes
  <2>2. state' = state /\ state = "title" /\ track_no' = track_no /\ old_no' = old_no
    BY <1>6 DEF DiscTitle
  <2>. QED
    BY <1>1, <2>1, <2>2 DEF ReadTypes
<1>7. CASE SkipToTitle
  BY <1>1, <1>7 DEF SkipToTitle, ReadTypes
<1>. QED
  BY <1>2, <1>3, <1>4, <1>5, <1>6, <1>7

\* The lines behind the title.
LEMMA BodyTypes ==
  ASSUME TypeInv,
         DiscYear \/ DiscGenre \/ TrackTitleLine \/ DiscExt \/ TrackExt \/ PlayOrder \/ EndDot
           \/ Unexpected
  PROVE  ReadTypes'
<1>1. ReadTypes
  BY TypeParts DEF Typed
<1>2. Good(EndsTitle) /\ Multi \in {"none", multi_line} /\ OldNo \in {-1, old_no}
  BY EndsTitleIs, MultiIs
<1>3. ASSUME Good(disc'), state' \in States \ {"start", "offsets"}, track_no' = track_no,
             multi_line' \in {"none", multi_line, "title", "artist", "ext"},
             old_no' \in {-1, old_no, line.no}
      PROVE  ReadTypes'
  BY <1>1, <1>3, LineTypes DEF ReadTypes
<1>4. CASE DiscYear
  <2> DEFINE v == line.data
             e == EndsTitle
  <2>1. v \in Nat
    BY <1>4, LineTypes DEF DiscYear, Knows
  <2>2. disc' = [e EXCEPT !.year = v]
    BY <1>4 DEF DiscYear
  <2> HIDE DEF v, e
  <2>3. Good(disc')
    BY <1>2, <2>1, <2>2, YearGiven DEF Good, e
  <2>. QED
    BY <1>2, <1>3, <1>4, <2>3 DEF DiscYear, States
<1>5. CASE DiscGenre
  <2> DEFINE v == line.data
             e == EndsTitle
  <2>1. v \in Texts
    BY <1>5, LineTypes DEF DiscGenre, Knows, Textual, Texts
  <2>2. disc' = [e EXCEPT !.genre = v]
    BY <1>5 DEF DiscGenre
  <2> HIDE DEF v, e
  <2>3. Good(disc')
    BY <1>2, <2>1, <2>2, GenreGiven DEF Good, e
  <2>. QED
    BY <1>2, <1>3, <1>5, <2>3 DEF DiscGenre, States
<1>6. CASE TrackTitleLine
  <2> DEFINE k == line.no + 1
  <2>1. OtherwiseSame(k)
    BY <1>6, TrackTitleLineMakes
  <2>2. Good(disc')
    BY <2>1 DEF OtherwiseSame
  <2>. QED
    BY <1>2, <1>3, <1>6, <2>2 DEF TrackTitleLine, States
<1>7. CASE DiscExt
  <2>1. Good(disc')
    BY <1>7, DiscExtMakes
  <2>. QED
    BY <1>2, <1>3, <1>7, <2>1 DEF DiscExt, States
<1>8. CASE TrackExt
  <2> DEFINE k == line.no + 1
  <2>1. OtherwiseSame(k)
    BY <1>8, TrackExtMakes
  <2>2. Good(disc')
    BY <2>1 DEF OtherwiseSame
  <2>. QED
    BY <1>2, <1>3, <1>8, <2>2 DEF TrackExt, States
<1>9. CASE PlayOrder
  BY <1>2, <1>3, <1>9 DEF PlayOrder, States
<1>10. CASE EndDot
  BY <1>2, <1>3, <1>10 DEF EndDot, States
<1>11. CASE Unexpected
  <2>1. state' = state /\ state \notin {"start", "offsets"}
    BY <1>11, PlaceIs, OrderIs DEF Unexpected, InBody
  <2>. QED
    BY <1>1, <1>2, <1>3, <1>11, <2>1 DEF Unexpected, ReadTypes
<1>. QED
  BY <1>4, <1>5, <1>6, <1>7, <1>8, <1>9, <1>10, <1>11

Reading == HeaderStart \/ HeaderOffset \/ HeaderLength \/ HeaderRevision \/ DiscTitle \/ SkipToTitle
           \/ DiscYear \/ DiscGenre \/ TrackTitleLine \/ DiscExt \/ TrackExt \/ PlayOrder \/ EndDot
           \/ Unexpected

\* A line that is read keeps the types.
LEMMA ReadingTypes ==
  ASSUME TypeInv, Reading
  PROVE  TypeInv' /\ Takes
<1>1. Takes
  BY DEF Reading, HeaderStart, HeaderOffset, HeaderLength, HeaderRevision, DiscTitle, SkipToTitle,
         DiscYear, DiscGenre, TrackTitleLine, DiscExt, TrackExt, PlayOrder, EndDot, Unexpected, Knows
<1>2. ReadTypes'
  BY HeaderTypes, BodyTypes DEF Reading
<1>. QED
  BY <1>1, <1>2, TakesKeeps

\* One fault more is within the bound, and so is one call more.
LEMMA Counters ==
  ASSUME TypeInv
  PROVE  /\ Event => events' \in 0..MaxEvents
         /\ Call => calls' \in 0..MaxCalls
<1>1. calls \in 0..MaxCalls /\ events \in 0..MaxEvents /\ MaxCalls \in Nat /\ MaxEvents \in Nat
  BY BoundAssumption DEF TypeInv, RecordTypeOK
<1>. QED
  BY <1>1 DEF Event, Call

\* Of the calls that do not read, and of the end of one that does.
LEMMA CallTypes ==
  ASSUME TypeInv,
         rec' = rec \/ (rec' \in Seq(Lines) /\ AllPartable(rec')),
         meant' = meant \/ Writable(meant'), before' = before \/ before' = disc,
         Good(disc'), pc' \in {"idle", "reading"},
         at' = 0 /\ state' = "start" /\ multi_line' = "none" /\ track_no' = 0 /\ old_no' = -1,
         dotted' \in BOOLEAN, pc' = "idle" => dotted' = FALSE,
         ret' \in {"none", "ok", "failed"}, calls' \in 0..MaxCalls, events' \in 0..MaxEvents,
         plain' \in BOOLEAN, fit' \in BOOLEAN
  PROVE  TypeInv'
<1>1. Typed
  BY TypeParts
<1>2. rec' \in Seq(Lines) /\ AllPartable(rec)' /\ Writable(meant)' /\ before' \in DiscData
  BY <1>1 DEF Typed, ReadTypes, Good
<1>3. Len(rec') \in Nat /\ Len(disc'.tracks) \in Nat
  BY <1>2, DiscFields DEF Good
<1>4. ReadTypes'
  BY <1>3 DEF ReadTypes, States
<1>5. at' \in 0..(Len(rec') + 1)
  BY <1>3
<1>6. Typed'
  BY <1>1, <1>2, <1>4, <1>5 DEF Typed
<1>. QED
  BY <1>6, TypeParts, PTL

\* A line put in at p.
IsInsert(t, s, p, e) ==
  /\ Len(t) = Len(s) + 1
  /\ \A i \in 1..(p - 1) : t[i] = s[i]
  /\ t[p] = e
  /\ \A i \in p..Len(s) : t[i + 1] = s[i]

\* InsertAt says that of the record.
LEMMA InsertIs ==
  ASSUME NEW S, NEW s \in Seq(S), NEW e \in S, NEW p \in 1..(Len(s) + 1), NEW t, t = InsertAt(s, p, e)
  PROVE  t \in Seq(S) /\ IsInsert(t, s, p, e)
<1> DEFINE a == SubSeq(s, 1, p - 1)
           m == <<e>>
           b == SubSeq(s, p, Len(s))
           am == a \o m
<1>1. Len(s) \in Nat /\ p \in Nat /\ 1 <= p /\ p <= Len(s) + 1
  OBVIOUS
<1>2. t = am \o b
  BY DEF InsertAt
<1>3. a \in Seq(S) /\ Len(a) = p - 1 /\ \A i \in 1..(p - 1) : a[i] = s[i]
  BY <1>1
<1>4. m \in Seq(S) /\ Len(m) = 1 /\ m[1] = e
  OBVIOUS
<1>5. b \in Seq(S) /\ Len(b) = Len(s) - p + 1 /\ \A i \in 1..(Len(s) - p + 1) : b[i] = s[p + i - 1]
  BY <1>1
<1> HIDE DEF a, m, b
<1>6. am \in Seq(S) /\ IsJoin(am, a, m)
  BY <1>3, <1>4, Joined
<1> HIDE DEF am
<1>7. t \in Seq(S) /\ IsJoin(t, am, b)
  BY <1>2, <1>5, <1>6, Joined
<1>8. Len(am) = p /\ Len(t) = Len(s) + 1
  BY <1>1, <1>3, <1>4, <1>5, <1>6, <1>7 DEF IsJoin
<1>9. ASSUME NEW i \in 1..(p - 1) PROVE t[i] = s[i]
  <2>1. i \in 1..Len(am) /\ i \in 1..Len(a)
    BY <1>1, <1>3, <1>8
  <2>. QED
    BY <1>3, <1>6, <1>7, <2>1 DEF IsJoin
<1>10. t[p] = e
  <2>1. p \in 1..Len(am) /\ p = Len(a) + 1 /\ 1 \in 1..1
    BY <1>1, <1>3, <1>8
  <2>2. am[p] = m[1]
    BY <1>4, <1>6, <2>1 DEF IsJoin
  <2>. QED
    BY <1>4, <1>7, <2>1, <2>2 DEF IsJoin
<1>11. ASSUME NEW i \in p..Len(s) PROVE t[i + 1] = s[i]
  <2> DEFINE k == i - p + 1
  <2>1. k \in 1..(Len(s) - p + 1) /\ i + 1 = p + k /\ p + k - 1 = i
    BY <1>1
  <2> HIDE DEF k
  <2>2. t[p + k] = b[k]
    BY <1>5, <1>7, <1>8, <2>1 DEF IsJoin
  <2>. QED
    BY <1>5, <2>1, <2>2
<1>. QED
  BY <1>7, <1>8, <1>9, <1>10, <1>11 DEF IsInsert

\* Line p, in two parts.
IsSplit(u, s, p, a, b) ==
  /\ Len(u) = Len(s) + 1
  /\ \A i \in 1..(p - 1) : u[i] = s[i]
  /\ u[p] = a /\ u[p + 1] = b
  /\ \A i \in (p + 1)..Len(s) : u[i + 1] = s[i]

\* The two parts in the place of the line leave the other lines in their order.
LEMMA SplitIs ==
  ASSUME NEW S, NEW s \in Seq(S), NEW a \in S, NEW b \in S, NEW p \in 1..Len(s),
         NEW u, u = ReplaceAt(InsertAt(s, p, a), p + 1, b)
  PROVE  u \in Seq(S) /\ IsSplit(u, s, p, a, b)
<1> DEFINE t == InsertAt(s, p, a)
<1>1. Len(s) \in Nat /\ p \in Nat /\ 1 <= p /\ p <= Len(s) /\ p \in 1..(Len(s) + 1)
  OBVIOUS
<1>2. t \in Seq(S) /\ IsInsert(t, s, p, a)
  BY <1>1, InsertIs
<1>3. u = [t EXCEPT ![p + 1] = b]
  BY DEF ReplaceAt
<1> HIDE DEF t
<1>4. Len(t) = Len(s) + 1 /\ DOMAIN t = 1..(Len(s) + 1)
  BY <1>1, <1>2 DEF IsInsert
<1>5. u \in Seq(S) /\ Len(u) = Len(t) /\ u[p + 1] = b
      /\ \A i \in 1..(Len(s) + 1) : i # p + 1 => u[i] = t[i]
  BY <1>1, <1>2, <1>3, <1>4
<1>6. ASSUME NEW i \in 1..(p - 1) PROVE u[i] = s[i]
  <2>1. i \in 1..(Len(s) + 1) /\ i # p + 1
    BY <1>1
  <2>. QED
    BY <1>2, <1>5, <2>1 DEF IsInsert
<1>7. u[p] = a
  <2>1. p \in 1..(Len(s) + 1) /\ p # p + 1
    BY <1>1
  <2>. QED
    BY <1>2, <1>5, <2>1 DEF IsInsert
<1>8. ASSUME NEW i \in (p + 1)..Len(s) PROVE u[i + 1] = s[i]
  <2>1. i + 1 \in 1..(Len(s) + 1) /\ i + 1 # p + 1 /\ i \in p..Len(s)
    BY <1>1
  <2>. QED
    BY <1>2, <1>5, <2>1 DEF IsInsert
<1>. QED
  BY <1>4, <1>5, <1>6, <1>7, <1>8 DEF IsSplit

\* Line l with its words from f + 1 to m alone.
Half(l, f, m) == [l EXCEPT !.data = SubSeq(l.data, f + 1, m)]

\* The two halves of a line.
LEMMA HalvesAre ==
  ASSUME NEW l \in Lines, l.key \in Textual, Partable(l), NEW q \in 0..Len(l.data),
         NEW a, a = Half(l, 0, q), NEW b, b = Half(l, q, Len(l.data))
  PROVE  /\ a \in Lines /\ a.key = l.key /\ a.no = l.no /\ a.data = SubSeq(l.data, 1, q)
         /\ b \in Lines /\ b.key = l.key /\ b.no = l.no /\ b.data = SubSeq(l.data, q + 1, Len(l.data))
         /\ Partable(a) /\ Partable(b)
<1> DEFINE d == l.data
           n == Len(d)
           s == SubSeq(d, 1, q)
           t == SubSeq(d, q + 1, n)
<1>0. a = [l EXCEPT !.data = s] /\ b = [l EXCEPT !.data = t]
  BY DEF Half
<1>1. d \in Seq(Words) /\ n \in Nat /\ q \in Nat /\ q <= n /\ DOMAIN d = 1..n
      /\ l \in [key : Textual, no : Nat, data : Seq(Words)]
  BY DEF Lines, Textual
<1>2. s \in Seq(Words) /\ DOMAIN s = 1..q /\ \A i \in 1..q : s[i] = d[i]
  BY <1>1
<1>3. t \in Seq(Words) /\ DOMAIN t = 1..(n - q) /\ \A i \in 1..(n - q) : t[i] = d[q + i]
  <2>1. \A i \in (q + 1)..n : d[i] \in Words
    BY <1>1
  <2>2. t \in Seq(Words) /\ Len(t) = n - q
    <3>1. q + 1 \in Int /\ n \in Int
      BY <1>1
    <3>2. t \in Seq(Words) /\ Len(t) = IF q + 1 <= n THEN n - (q + 1) + 1 ELSE 0
      <4> HIDE DEF d, n
      <4>. QED
        BY <2>1, <3>1, SubSeqProperties
    <3>. QED
      BY <1>1, <3>2
  <2>3. ASSUME NEW i \in 1..(n - q) PROVE t[i] = d[q + i]
    <3>1. t[i] = d[q + 1 + i - 1]
      BY <1>1
    <3>2. q + 1 + i - 1 = q + i
      BY <1>1
    <3>. QED
      BY <3>1, <3>2
  <2> HIDE DEF t
  <2>4. DOMAIN t = 1..(n - q)
    BY <1>1, <2>2
  <2>. QED
    BY <2>2, <2>3, <2>4
<1> HIDE DEF s, t
<1>5. /\ a \in Lines /\ a.key = l.key /\ a.no = l.no /\ a.data = s
      /\ b \in Lines /\ b.key = l.key /\ b.no = l.no /\ b.data = t
  <2> HIDE DEF d, n
  <2>1. a \in [key : Textual, no : Nat, data : Seq(Words)]
        /\ b \in [key : Textual, no : Nat, data : Seq(Words)]
        /\ a.key = l.key /\ a.no = l.no /\ a.data = s /\ b.key = l.key /\ b.no = l.no /\ b.data = t
    BY <1>0, <1>1, <1>2, <1>3
  <2>. QED
    BY <2>1 DEF Lines
<1>6. CASE l.key \notin {"title", "ttitle"}
  BY <1>5, <1>6, OtherPartable DEF s, t
<1>7. CASE l.key \in {"title", "ttitle"}
  <2>1. \A i, k \in 1..n : d[i].w = "/" /\ d[k].w = "/" => i = k /\ d[i] = Slash
    BY <1>1, <1>7 DEF Partable
  <2> HIDE DEF d, n
  <2>2. \A i, k \in 1..q : s[i].w = "/" /\ s[k].w = "/" => i = k /\ s[i] = Slash
    <3>1. \A i \in 1..q : i \in 1..n
      BY <1>1
    <3>. QED
      BY <1>2, <2>1, <3>1
  <2>3. \A i, k \in 1..(n - q) : t[i].w = "/" /\ t[k].w = "/" => i = k /\ t[i] = Slash
    <3>1. \A i \in 1..(n - q) : q + i \in 1..n
      BY <1>1
    <3>2. \A i, k \in 1..(n - q) : q + i = q + k => i = k
      BY <1>1
    <3>. QED
      BY <1>3, <2>1, <3>1, <3>2
  <2>4. Partable(a)
    <3>1. DOMAIN a.data = 1..q /\ a.data = s
      BY <1>2, <1>5
    <3>. QED
      BY <2>2, <3>1 DEF Partable
  <2>5. Partable(b)
    <3>1. DOMAIN b.data = 1..(n - q) /\ b.data = t
      BY <1>3, <1>5
    <3>2. \A i, k \in DOMAIN b.data :
            b.data[i].w = "/" /\ b.data[k].w = "/" => i = k /\ b.data[i] = Slash
      BY <2>3, <3>1
    <3>. QED
      BY <3>2 DEF Partable
  <2>. QED
    BY <1>5, <2>4, <2>5 DEF s, t, d, n
<1>. QED
  BY <1>6, <1>7

\* A disc with what a match of a query says.
Matched(d, c, g, t, a) == [d EXCEPT !.category = c, !.genre = g, !.title = t, !.artist = a]

\* Such a disc is a disc, without a " / " in its names.
LEMMA MatchedIs ==
  ASSUME NEW d \in DiscData, AllUndivided(d), NEW c \in Categories, NEW g \in Texts,
         NEW a \in Texts, NEW t \in Texts, Undivided(a), Undivided(t),
         NEW e, e = Matched(d, c, g, t, a)
  PROVE  Good(e)
  BY DEF DiscData, AllUndivided, Good, Matched

\* While no call runs the locals have their first values.
LEMMA IdleLocals ==
  ASSUME TypeInv, pc = "idle"
  PROVE  at = 0 /\ dotted = FALSE /\ state = "start" /\ multi_line = "none" /\ track_no = 0 /\ old_no = -1
  BY DEF TypeInv

\* What the types say of the other variables.
LEMMA CallFacts ==
  ASSUME TypeInv
  PROVE  /\ Typed /\ Good(disc) /\ disc \in DiscData /\ AllUndivided(disc)
         /\ ret \in {"none", "ok", "failed"} /\ calls \in 0..MaxCalls /\ events \in 0..MaxEvents
         /\ plain \in BOOLEAN /\ fit \in BOOLEAN /\ dotted \in BOOLEAN /\ pc \in {"idle", "reading"}
<1>1. Typed
  BY TypeParts
<1>. QED
  BY <1>1 DEF Typed, ReadTypes, Good

\* The types hold behind each call: a new structure,
LEMMA NewStructureTypes ==
  ASSUME TypeInv, NEW x \in Contents \cup {NewDisc}, NewStructure(x)
  PROVE  TypeInv'
<1>1. Good(disc')
  BY ContentIs DEF NewStructure
<1>. QED
  BY <1>1, IdleLocals, CallFacts, CallTypes DEF NewStructure, locals

\* cddb_write,
LEMMA WriteTypes ==
  ASSUME TypeInv, CddbWrite
  PROVE  TypeInv'
<1>1. Writable(disc)
  BY CallFacts DEF CddbWrite, Writable
<1>2. Writable(disc')
  BY <1>1, CallFacts, IconvKeeps DEF CddbWrite
<1>3. Good(disc')
  BY <1>2 DEF Writable, Good
<1>4. rec' \in Seq(Lines) /\ AllPartable(rec')
  BY <1>2, RecordTypes DEF CddbWrite, WriteData
<1>5. calls' \in 0..MaxCalls /\ pc = "idle"
  BY Counters DEF CddbWrite, Call
<1>. QED
  BY <1>1, <1>3, <1>4, <1>5, IdleLocals, CallFacts, CallTypes DEF CddbWrite, locals

\* one that fails,
LEMMA WriteFailsTypes ==
  ASSUME TypeInv, CddbWriteFails
  PROVE  TypeInv'
<1>1. Good(disc') /\ events' \in 0..MaxEvents
  <2>1. CASE Complete(disc)
    <3>1. DiscIconvFails(disc, 1)
      BY <2>1 DEF CddbWriteFails
    <3>2. events' \in 0..MaxEvents
      BY <3>1, Counters DEF DiscIconvFails, Fault
    <3>. QED
      BY <3>1, <3>2, CallFacts, IconvFailsKeeps DEF Good
  <2>2. CASE ~Complete(disc)
    BY <2>2, CallFacts DEF CddbWriteFails
  <2>. QED
    BY <2>1, <2>2
<1>2. calls' \in 0..MaxCalls /\ pc = "idle"
  BY Counters DEF CddbWriteFails, Call
<1>. QED
  BY <1>1, <1>2, IdleLocals, CallFacts, CallTypes DEF CddbWriteFails, locals

\* a match of a query,
LEMMA QueryMatchTypes ==
  ASSUME TypeInv, NEW artist \in BOOLEAN, QueryMatch(artist)
  PROVE  TypeInv'
<1> DEFINE said == DiscIconv(meant, 1)
           g == <<Word(said.category)>>
           a == IF artist THEN said.artist ELSE disc.artist
           m == Matched(disc, said.category, g, said.title, a)
<1>1. Good(said)
  BY CallFacts, IconvKeeps DEF Typed, Writable, Good
<1>2. said \in DiscData /\ AllUndivided(said)
  BY <1>1 DEF Good
<1>3. /\ said.category \in Categories /\ said.title \in Texts /\ said.artist \in Texts
      /\ Undivided(said.title) /\ Undivided(said.artist)
      /\ disc.artist \in Texts /\ Undivided(disc.artist)
  BY <1>2, CallFacts DEF DiscData, AllUndivided
<1>4. /\ Call
      /\ \/ disc' = DiscIconv(m, -1) /\ ret' = "ok" /\ events' = events
         \/ DiscIconvFails(m, -1) /\ ret' = "failed"
      /\ fit' = FALSE
      /\ rec' = rec /\ pc' = pc /\ locals' = locals /\ meant' = meant /\ before' = before /\ plain' = plain
  BY DEF QueryMatch, Matched
<1> HIDE DEF said
<1>5. g \in Texts
  BY <1>3 DEF Word, Words, Texts, Categories
<1>6. a \in Texts /\ Undivided(a)
  BY <1>3
<1> HIDE DEF g, a
<1>7. Good(m)
  BY <1>3, <1>5, <1>6, CallFacts, MatchedIs
<1> HIDE DEF m
<1>8. Good(disc') /\ events' \in 0..MaxEvents
  <2>1. CASE disc' = DiscIconv(m, -1) /\ events' = events
    BY <1>7, <2>1, CallFacts, IconvKeeps DEF Good
  <2>2. CASE DiscIconvFails(m, -1)
    <3>1. events' \in 0..MaxEvents
      BY <2>2, Counters DEF DiscIconvFails, Fault
    <3>. QED
      BY <1>7, <2>2, <3>1, IconvFailsKeeps DEF Good
  <2>. QED
    BY <1>4, <2>1, <2>2
<1>9. calls' \in 0..MaxCalls /\ pc = "idle"
  BY <1>4, Counters DEF Call
<1>. QED
  BY <1>4, <1>8, <1>9, IdleLocals, CallFacts, CallTypes DEF locals

\* What a database makes of a record keeps to the types if its lines do.
LEMMA ChangesTypes ==
  ASSUME TypeInv, NEW new, Changes(new), new \in Seq(Lines), AllPartable(new),
         events' \in 0..MaxEvents, plain' \in BOOLEAN
  PROVE  TypeInv'
<1>1. rec' \in Seq(Lines) /\ AllPartable(rec') /\ pc = "idle"
  BY DEF Changes
<1>. QED
  BY <1>1, IdleLocals, CallFacts, CallTypes DEF Changes, locals

\* a line that a database splits,
LEMMA WrapTypes ==
  ASSUME TypeInv, NEW p \in DOMAIN rec, rec[p].key \in Textual, NEW q \in 0..Len(rec[p].data), Wrap(p, q)
  PROVE  TypeInv'
<1> DEFINE l == rec[p]
           a == [l EXCEPT !.data = SubSeq(l.data, 1, q)]
           b == [l EXCEPT !.data = SubSeq(l.data, q + 1, Len(l.data))]
           u == ReplaceAt(InsertAt(rec, p, a), p + 1, b)
<1>1. rec \in Seq(Lines) /\ p \in 1..Len(rec) /\ l \in Lines /\ Partable(l)
  BY CallFacts DEF Typed, AllPartable
<1>2. Changes(u) /\ Event /\ plain' = plain
  BY DEF Wrap
<1> HIDE DEF l, u
<1>2a. /\ u = ReplaceAt(InsertAt(rec, p, a), p + 1, b)
       /\ a = Half(l, 0, q) /\ b = Half(l, q, Len(l.data)) /\ l.key \in Textual /\ q \in 0..Len(l.data)
  BY DEF u, l, Half
<1> HIDE DEF a, b
<1>3. a \in Lines /\ b \in Lines /\ Partable(a) /\ Partable(b)
  BY <1>1, <1>2a, HalvesAre
<1>4. u \in Seq(Lines) /\ IsSplit(u, rec, p, a, b)
  BY <1>1, <1>2a, <1>3, SplitIs
<1>5. AllPartable(u)
  <2> SUFFICES ASSUME NEW i \in 1..Len(u) PROVE Partable(u[i])
    BY DEF AllPartable
  <2> HIDE DEF u
  <2>1. Len(u) = Len(rec) + 1 /\ p \in Nat /\ Len(rec) \in Nat /\ i \in Nat
    BY <1>1, <1>4 DEF IsSplit
  <2>2. \A k \in 1..Len(rec) : Partable(rec[k])
    BY CallFacts DEF Typed, AllPartable
  <2>3. CASE i \in 1..(p - 1)
    <3>1. i \in 1..Len(rec)
      BY <1>1, <2>1, <2>3
    <3>. QED
      BY <1>4, <2>2, <2>3, <3>1 DEF IsSplit
  <2>4. CASE i = p \/ i = p + 1
    BY <1>3, <1>4, <2>4 DEF IsSplit
  <2>5. CASE i > p + 1
    <3>1. PICK k \in (p + 1)..Len(rec) : i = k + 1
      <4> DEFINE k == i - 1
      <4>1. k \in (p + 1)..Len(rec) /\ i = k + 1
        BY <1>1, <2>1, <2>5
      <4> HIDE DEF k
      <4>. QED
        BY <4>1
    <3>2. k \in 1..Len(rec)
      BY <1>1
    <3>. QED
      BY <1>4, <2>2, <3>1, <3>2 DEF IsSplit
  <2>. QED
    BY <1>1, <2>1, <2>3, <2>4, <2>5
<1> HIDE DEF u
<1>6. events' \in 0..MaxEvents /\ plain' \in BOOLEAN
  BY <1>2, Counters, CallFacts
<1>. QED
  BY <1>2, <1>4, <1>5, <1>6, ChangesTypes

\* a line that it puts in,
LEMMA SpoilTypes ==
  ASSUME TypeInv, NEW p \in DOMAIN rec, Spoil(p)
  PROVE  TypeInv'
<1> DEFINE new(e) == InsertAt(rec, p + 1, e)
<1>1. rec \in Seq(Lines) /\ p \in 1..Len(rec) /\ Len(rec) \in Nat /\ AllPartable(rec)
  BY CallFacts DEF Typed
<1>2. PICK e \in {Other, Line("ttitle", 9, <<>>)} : Changes(new(e)) /\ Event /\ plain' = FALSE
  BY DEF Spoil, Fault
<1>3. e \in Lines /\ Partable(e)
  <2>1. Other \in Lines /\ Other.key = "other"
    BY DEF Other, Line, Lines
  <2>2. Line("ttitle", 9, <<>>) \in Lines /\ Line("ttitle", 9, <<>>).data = <<>>
    <3>1. <<>> \in Seq(Words)
      OBVIOUS
    <3>. QED
      BY <3>1 DEF Line, Lines, Textual
  <2>3. CASE e = Other
    BY <2>1, <2>3, OtherPartable
  <2>4. CASE e = Line("ttitle", 9, <<>>)
    <3>1. DOMAIN e.data = {}
      BY <2>2, <2>4
    <3>. QED
      BY <2>2, <2>4, <3>1 DEF Partable
  <2>. QED
    BY <2>3, <2>4
<1>4. p + 1 \in 1..(Len(rec) + 1)
  BY <1>1
<1> DEFINE t == new(e)
<1>5. t \in Seq(Lines) /\ IsInsert(t, rec, p + 1, e)
  BY <1>1, <1>3, <1>4, InsertIs
<1>6. Changes(t) /\ Event /\ plain' = FALSE
  BY <1>2
<1> HIDE DEF t, new
<1>7. AllPartable(t)
  <2> SUFFICES ASSUME NEW i \in 1..Len(t) PROVE Partable(t[i])
    BY DEF AllPartable
  <2>1. Len(t) = Len(rec) + 1 /\ p \in Nat /\ i \in Nat /\ p + 1 - 1 = p
    BY <1>1, <1>5 DEF IsInsert
  <2>2. \A k \in 1..Len(rec) : Partable(rec[k])
    BY <1>1 DEF AllPartable
  <2>3. CASE i \in 1..(p + 1 - 1)
    <3>1. i \in 1..Len(rec)
      BY <1>1, <2>1, <2>3
    <3>. QED
      BY <1>5, <2>2, <2>3, <3>1 DEF IsInsert
  <2>4. CASE i = p + 1
    BY <1>3, <1>5, <2>4 DEF IsInsert
  <2>5. CASE i > p + 1
    <3>1. PICK k \in (p + 1)..Len(rec) : i = k + 1
      <4> DEFINE k == i - 1
      <4>1. k \in (p + 1)..Len(rec) /\ i = k + 1
        BY <1>1, <2>1, <2>5
      <4> HIDE DEF k
      <4>. QED
        BY <4>1
    <3>2. k \in 1..Len(rec)
      BY <1>1
    <3>. QED
      BY <1>5, <2>2, <3>1, <3>2 DEF IsInsert
  <2>. QED
    BY <1>1, <2>1, <2>3, <2>4, <2>5
<1>8. events' \in 0..MaxEvents /\ plain' \in BOOLEAN
  BY <1>6, Counters
<1>. QED
  BY <1>5, <1>6, <1>7, <1>8, ChangesTypes

\* the begin of a read,
LEMMA CddbReadTypes ==
  ASSUME TypeInv, CddbRead
  PROVE  TypeInv'
<1>1. calls' \in 0..MaxCalls /\ pc = "idle"
  BY Counters DEF CddbRead, Call
<1>. QED
  BY <1>1, IdleLocals, CallFacts, CallTypes DEF CddbRead

\* its end,
LEMMA ReadStopsTypes ==
  ASSUME TypeInv, TrackNotFound \/ ReadEnds
  PROVE  TypeInv'
<1>1. CASE TrackNotFound
  <2>1. Good(disc')
    BY <1>1, EndsTitleIs DEF TrackNotFound
  <2>. QED
    BY <1>1, <2>1, CallFacts, CallTypes DEF TrackNotFound, Returns
<1>2. CASE ReadEnds
  <2>1. Good(disc') /\ events' \in 0..MaxEvents
    <3>1. CASE disc' = DiscIconv(disc, -1)
      <4>1. Good(disc')
        BY <3>1, CallFacts, IconvKeeps DEF Good
      <4>2. Event \/ events' = events
        BY <1>2 DEF ReadEnds, Fault, DiscIconvFails
      <4>. QED
        BY <4>1, <4>2, Counters, CallFacts
    <3>2. CASE DiscIconvFails(disc, -1)
      <4>1. events' \in 0..MaxEvents
        BY <3>2, Counters DEF DiscIconvFails, Fault
      <4>. QED
        BY <3>2, <4>1, CallFacts, IconvFailsKeeps DEF Good
    <3>. QED
      BY <1>2, <3>1, <3>2 DEF ReadEnds
  <2>2. ret' \in {"none", "ok", "failed"} /\ fit' \in BOOLEAN
    BY <1>2, CallFacts DEF ReadEnds
  <2>. QED
    BY <1>2, <2>1, <2>2, CallFacts, CallTypes DEF ReadEnds, Returns
<1>. QED
  BY <1>1, <1>2

\* and where nothing happens.
LEMMA TypeStay ==
  ASSUME TypeInv, UNCHANGED recVars
  PROVE  TypeInv'
<1>1. Typed
  BY TypeParts
<1>2. Typed'
  BY <1>1 DEF recVars, locals, history, Typed, ReadTypes, AllPartable, Good
<1>. QED
  BY <1>2, TypeParts, PTL

\* Every step keeps the types.
LEMMA TypeNext == TypeInv /\ [Next]_recVars => TypeInv'
<1> SUFFICES ASSUME TypeInv, [Next]_recVars PROVE TypeInv'
  OBVIOUS
<1>1. CASE UNCHANGED recVars
  BY <1>1, TypeStay
<1>2. CASE \E x \in Contents \cup {NewDisc} : NewStructure(x)
  BY <1>2, NewStructureTypes
<1>3. CASE CddbWrite \/ CddbWriteFails \/ CddbRead
  BY <1>3, WriteTypes, WriteFailsTypes, CddbReadTypes
<1>4. CASE \E artist \in BOOLEAN : QueryMatch(artist)
  BY <1>4, QueryMatchTypes
<1>5. CASE \E p \in {p \in DOMAIN rec : rec[p].key \in Textual} :
             Spoil(p) \/ \E q \in 0..Len(rec[p].data) : Wrap(p, q)
  BY <1>5, SpoilTypes, WrapTypes
<1>6. CASE Reading
  BY <1>6, ReadingTypes
<1>7. CASE TrackNotFound \/ ReadEnds
  BY <1>7, ReadStopsTypes
<1>. QED
  BY <1>1, <1>2, <1>3, <1>4, <1>5, <1>6, <1>7 DEF Next, Reading

\* The types of the record parser hold: whatever is written, split, spoiled and read, the
\* lines, the texts and the parser's place stay what they are meant to be, and no line is
\* taken behind the end of the record but the dot (cddb_parse_record).
THEOREM RecordTypesHold == Spec => []RecordTypeOK
<1>1. TypeInv => RecordTypeOK
  BY DEF TypeInv
<1>. QED
  BY <1>1, TypeInit, TypeNext, PTL DEF Spec

----------------------------------------------------------------------------
(* What a read has told so far.                                            *)

\* Line l is the part p of a line of the record w: its words from p.from + 1 to p.to.  A
\* line that has no text is never parted.
IsPiece(l, p, w) ==
  /\ p.slot \in 1..Len(w) /\ l.key = w[p.slot].key /\ l.no = w[p.slot].no
  /\ IF l.key \in Textual
     THEN /\ p.from <= p.to /\ p.to <= Len(w[p.slot].data)
          /\ l.data = SubSeq(w[p.slot].data, p.from + 1, p.to)
     ELSE l.data = w[p.slot].data

\* Part q goes on where p has ended.
Continued(p, q, w) == q.slot = p.slot /\ q.from = p.to /\ w[p.slot].key \in Textual

\* Part q begins the next line.
Begun(p, q, w) ==
  /\ q.slot = p.slot + 1 /\ q.from = 0
  /\ p.slot # 0 /\ w[p.slot].key \in Textual => p.to = Len(w[p.slot].data)

\* One of both.
Follows(p, q, w) == Continued(p, q, w) \/ Begun(p, q, w)

\* A part of a line: which line, and from where to where.
Pieces == [slot : Nat, from : Nat, to : Nat]

\* Where a read begins.
Nowhere == [slot |-> 0, from |-> 0, to |-> 0]

\* The lines of the database are those of w, in parts.
Cut(x, w) ==
  /\ x \in [1..Len(rec) -> Pieces] /\ Len(rec) > 0
  /\ \A i \in 1..Len(rec) : IsPiece(rec[i], x[i], w)
  /\ Follows(Nowhere, x[1], w) /\ x[Len(rec)].slot = Len(w)
  /\ \A i \in 1..Len(rec) : i + 1 \in 1..Len(rec) => Follows(x[i], x[i + 1], w)
  /\ \A i, k \in 1..Len(rec) : i <= k => x[i].slot <= x[k].slot

\* Where the parser stands when the last line it has read is line j of w.
Parser(n, y, w, j) ==
  /\ j <= 1 => state = "start" /\ track_no = 0
  /\ 2 <= j /\ j <= n + 2 => state = "offsets" /\ track_no = j - 2
  /\ j = n + 3 => state = "length"
  /\ n + 4 <= j /\ j <= n + 5 => state = "revision"
  /\ n + 6 <= j /\ j <= n + 8 => state = "title"
  /\ j < n + 8 => multi_line = "none"
  /\ j < n + 9 + y => old_no = -1
  /\ y = 2 /\ j = n + 9 => state = "genre"
  /\ y = 2 /\ j = n + 10 => state = IF w[j].key = "genre" THEN "ttitle" ELSE "genre"
  /\ n + 8 + y < j /\ j < 2 * n + 9 + y => state = "ttitle" /\ old_no = j - (n + 9 + y)
  /\ j = 2 * n + 9 + y => state = "ext" /\ multi_line = "ext" /\ old_no = -1
  /\ 2 * n + 9 + y < j /\ j < 3 * n + 10 + y => state = "extt" /\ old_no = j - (2 * n + 10 + y)
  /\ j = 3 * n + 10 + y => state = "dot"

\* The tracks an offset has come for.
Got(n, j) == IF j < 2 THEN 0 ELSE IF j > n + 2 THEN n ELSE j - 2

\* What each group of lines has told behind the first k words of line j.
HeaderRead(d, n, j) ==
  /\ Len(disc.tracks) = IF Len(before.tracks) > Got(n, j) THEN Len(before.tracks) ELSE Got(n, j)
  /\ \A i \in 1..n : 2 + i <= j => disc.tracks[i].frame_offset = d.tracks[i].frame_offset
  /\ n + 4 <= j => disc.length = d.length
  /\ n + 6 <= j => disc.revision = d.revision

\* Of an artist and a title in one line, k words.
NameRead(artist, title, a, t, k) ==
  IF k <= Len(a) THEN artist = SubSeq(a, 1, k) /\ title = Null
  ELSE artist = a /\ title = SubSeq(t, 1, k - Len(a) - 1)

DiscNameRead(d, n, j, k) ==
  /\ j = n + 8 => /\ NameRead(disc.artist, disc.title, d.artist, d.title, k)
                  /\ multi_line = IF k <= Len(d.artist) THEN "artist" ELSE "title"
  /\ j > n + 8 => disc.artist = d.artist /\ disc.title = d.title

YearRead(d, n, y, j) ==
  IF y = 2 /\ j >= n + 9 THEN Has("year") /\ disc.year = d.year ELSE disc.year = before.year

\* The first line of a keyword.
LineOf(key) == rec[CHOOSE i \in DOMAIN rec :
                 rec[i].key = key /\ \A j \in 1..(i - 1) : rec[j].key # key]

GenreRead(n, y, w, j) ==
  IF y = 2 /\ j >= n + 10 /\ w[n + 10].key = "genre"
  THEN Has("genre") /\ disc.genre = LineOf("genre").data /\ disc.genre # Null
  ELSE disc.genre = before.genre

\* The part of an artist before the Slash was put into the title.
TrackNameRead(r, t, k) ==
  IF t.artist = Null THEN r.artist = Null /\ r.title = SubSeq(t.title, 1, k)
  ELSE IF k <= Len(t.artist) THEN r.artist = Null /\ r.title = SubSeq(t.artist, 1, k)
  ELSE r.artist = t.artist /\ r.title = SubSeq(t.title, 1, k - Len(t.artist) - 1)

TrackNamesRead(d, n, y, j, k) ==
  \A i \in 1..n :
    /\ j = n + 8 + y + i => TrackNameRead(disc.tracks[i], d.tracks[i], k)
    /\ j > n + 8 + y + i => /\ disc.tracks[i].artist = d.tracks[i].artist
                            /\ disc.tracks[i].title = d.tracks[i].title

ExtRead(d, n, y, j, k) ==
  /\ j = 2 * n + 9 + y => disc.ext_data = Read(SubSeq(TextOf(d.ext_data), 1, k))
  /\ j > 2 * n + 9 + y => disc.ext_data = Read(d.ext_data)

TrackExtsRead(d, n, y, j, k) ==
  \A i \in 1..n :
    /\ j = 2 * n + 9 + y + i =>
         disc.tracks[i].ext_data = Read(SubSeq(TextOf(d.tracks[i].ext_data), 1, k))
    /\ j > 2 * n + 9 + y + i => disc.tracks[i].ext_data = Read(d.tracks[i].ext_data)

OthersStay(n) == \A i \in (n + 1)..Len(disc.tracks) : disc.tracks[i] = before.tracks[i]

\* What of the record w of disc d is in the structure: line j is the last, and its first
\* k words have come.
Told(d, n, y, w, j, k) ==
  /\ HeaderRead(d, n, j) /\ DiscNameRead(d, n, j, k) /\ YearRead(d, n, y, j) /\ GenreRead(n, y, w, j)
  /\ TrackNamesRead(d, n, y, j, k) /\ ExtRead(d, n, y, j, k) /\ TrackExtsRead(d, n, y, j, k)
  /\ OthersStay(n)

Progress(d, n, y, w, j, k) == Parser(n, y, w, j) /\ Told(d, n, y, w, j, k)

\* The part that was read last.
Reached(x) == IF at = 0 THEN Nowhere ELSE x[at]

\* The record w of disc d, of n tracks and with y lines for year and genre, is in the
\* database in the parts x; a read of it has told all up to the part it has reached.
Reads(d, n, y, w, x) ==
  /\ y \in {0, 2} /\ n = Len(d.tracks) /\ Shape(w, d, y) /\ Cut(x, w)
  /\ pc = "reading" => IF at <= Len(rec)
                       THEN Progress(d, n, y, w, Reached(x).slot, Reached(x).to)
                       ELSE state = "stop" /\ Told(d, n, y, w, Len(w), 0)

\* It holds of the disc that was written, unless the record was spoiled since.
RInv == plain => \E d, n, y, w, x : d = DiscIconv(meant, 1) /\ Reads(d, n, y, w, x)

----------------------------------------------------------------------------
(* Texts that come in parts.                                               *)

\* A part of a text.
LEMMA PartIs ==
  ASSUME NEW t \in Seq(Words), NEW k \in Nat, NEW m \in Nat, k <= m, m <= Len(t),
         NEW s, s = SubSeq(t, k + 1, m)
  PROVE  s \in Seq(Words) /\ Len(s) = m - k /\ \A i \in 1..(m - k) : s[i] = t[k + i]
<1>1. \A i \in (k + 1)..m : t[i] \in Words
  OBVIOUS
<1>2. k + 1 \in Int /\ m \in Int
  OBVIOUS
<1>3. s \in Seq(Words) /\ Len(s) = IF k + 1 <= m THEN m - (k + 1) + 1 ELSE 0
  BY <1>1, <1>2, SubSeqProperties
<1>4. Len(s) = m - k
  BY <1>3
<1>5. ASSUME NEW i \in 1..(m - k) PROVE s[i] = t[k + i]
  <2>1. k + 1 <= m /\ i \in 1..(m - (k + 1) + 1) /\ k + 1 + i - 1 = k + i
    OBVIOUS
  <2>2. s[i] = t[k + 1 + i - 1]
    BY <1>1, <1>2, <2>1, SubSeqProperties
  <2>. QED
    BY <2>1, <2>2
<1>. QED
  BY <1>3, <1>4, <1>5

\* The first words of a text.
LEMMA FirstPartIs ==
  ASSUME NEW t \in Seq(Words), NEW m \in Nat, m <= Len(t), NEW s, s = SubSeq(t, 1, m)
  PROVE  s \in Seq(Words) /\ Len(s) = m /\ \A i \in 1..m : s[i] = t[i]
  OBVIOUS

\* Two sequences that have the same words are the same.
LEMMA SameWords ==
  ASSUME NEW a \in Seq(Words), NEW b \in Seq(Words), Len(a) = Len(b), \A i \in 1..Len(a) : a[i] = b[i]
  PROVE  a = b
  BY WordsEqual

\* The first part and the next one are a longer first part.
LEMMA PiecesJoin ==
  ASSUME NEW t \in Seq(Words), NEW k \in Nat, NEW m \in Nat, k <= m, m <= Len(t)
  PROVE  SubSeq(t, 1, k) \o SubSeq(t, k + 1, m) = SubSeq(t, 1, m)
<1> DEFINE a == SubSeq(t, 1, k)
           b == SubSeq(t, k + 1, m)
           c == SubSeq(t, 1, m)
           u == a \o b
<1>0. Len(t) \in Nat /\ k <= Len(t)
  OBVIOUS
<1>1. a \in Seq(Words) /\ Len(a) = k /\ \A i \in 1..k : a[i] = t[i]
  BY <1>0
<1>2. b \in Seq(Words) /\ Len(b) = m - k /\ \A i \in 1..(m - k) : b[i] = t[k + i]
  BY PartIs
<1>3. c \in Seq(Words) /\ Len(c) = m /\ \A i \in 1..m : c[i] = t[i]
  BY <1>0
<1> HIDE DEF a, b, c
<1>4. u \in Seq(Words) /\ IsJoin(u, a, b)
  BY <1>1, <1>2, Joined
<1> HIDE DEF u
<1>5. Len(u) = m
  BY <1>1, <1>2, <1>4 DEF IsJoin
<1>6. ASSUME NEW i \in 1..m PROVE u[i] = c[i]
  <2>1. CASE i <= k
    <3>1. i \in 1..k
      BY <2>1
    <3>. QED
      BY <1>1, <1>3, <1>4, <3>1 DEF IsJoin
  <2>2. CASE i > k
    <3> DEFINE q == i - k
    <3>1. q \in 1..(m - k) /\ i = k + q
      BY <2>2
    <3> HIDE DEF q
    <3>2. u[k + q] = b[q]
      BY <1>1, <1>2, <1>4, <3>1 DEF IsJoin
    <3>. QED
      BY <1>2, <1>3, <3>1, <3>2
  <2>. QED
    BY <2>1, <2>2
<1>7. u = c
  BY <1>3, <1>4, <1>5, <1>6, SameWords
<1>. QED
  BY <1>7 DEF u, a, b, c

\* A first part that is all of the text.
LEMMA WholeText ==
  ASSUME NEW t \in Seq(Words)
  PROVE  SubSeq(t, 1, Len(t)) = t /\ SubSeq(t, 1, 0) = <<>>
<1>1. SubSeq(t, 1, Len(t)) \in Seq(Words) /\ Len(SubSeq(t, 1, Len(t))) = Len(t)
      /\ \A i \in 1..Len(t) : SubSeq(t, 1, Len(t))[i] = t[i]
  OBVIOUS
<1>. QED
  BY <1>1, SameWords

\* What has come of a text: nothing, or its first k words.
HasCome(had, t, k) == had = SubSeq(t, 1, k) \/ (had = Null /\ k = 0)

\* The next part is put behind what has come.
LEMMA ExtendedGrows ==
  ASSUME NEW t \in Seq(Words), NEW k \in Nat, NEW m \in Nat, k <= m, m <= Len(t),
         NEW had, HasCome(had, t, k)
  PROVE  Extended(had, SubSeq(t, k + 1, m)) = SubSeq(t, 1, m)
<1>0. Len(t) \in Nat /\ k <= Len(t) /\ SubSeq(t, 1, k) \in Seq(Words)
  OBVIOUS
<1>1. CASE had = Null
  <2>1. k = 0
    BY <1>0, <1>1, NullIsNoText DEF HasCome
  <2>2. k + 1 = 1
    BY <2>1
  <2>. QED
    BY <1>1, <2>2 DEF Extended
<1>2. CASE had # Null
  BY <1>2, PiecesJoin DEF Extended, HasCome
<1>. QED
  BY <1>1, <1>2

\* Of extended data, none is kept as NULL.
LEMMA LongerGrows ==
  ASSUME NEW t \in Seq(Words), NEW k \in Nat, NEW m \in Nat, k <= m, m <= Len(t),
         NEW had, had = Read(SubSeq(t, 1, k)) \/ (had = Null /\ k = 0)
  PROVE  Longer(had, SubSeq(t, k + 1, m)) = Read(SubSeq(t, 1, m))
<1> DEFINE a == SubSeq(t, 1, k)
           b == SubSeq(t, k + 1, m)
           c == SubSeq(t, 1, m)
<1>0. Len(t) \in Nat /\ k <= Len(t)
  OBVIOUS
<1>1. a \in Seq(Words) /\ Len(a) = k /\ c \in Seq(Words) /\ Len(c) = m
  BY <1>0
<1>2. b \in Seq(Words) /\ Len(b) = m - k
  BY PartIs
<1>3. a \o b = c
  BY PiecesJoin
<1> HIDE DEF a, b, c
<1>4. had = Read(a)
  <2>1. CASE k = 0
    BY <1>1, <2>1 DEF Read, a
  <2>. QED
    BY <2>1 DEF a
<1>5. Null # a /\ Null # b /\ Null # <<>>
  BY <1>1, <1>2, NullIsNoText, EmptyText
<1>6. CASE b = <<>>
  <2>1. c = a
    BY <1>1, <1>3, <1>6
  <2>. QED
    BY <1>4, <1>6, <2>1 DEF Longer, a, b, c
<1>7. CASE b # <<>>
  <2>1. m > k /\ c # <<>>
    BY <1>0, <1>1, <1>2, <1>7
  <2>2. CASE a = <<>>
    <3>1. c = b
      BY <1>2, <1>3, <2>2
    <3>. QED
      BY <1>4, <1>7, <2>1, <2>2, <3>1 DEF Longer, Extended, Read, a, b, c
  <2>3. CASE a # <<>>
    BY <1>3, <1>4, <1>5, <1>7, <2>1, <2>3 DEF Longer, Extended, Read, a, b, c
  <2>. QED
    BY <2>2, <2>3
<1>. QED
  BY <1>6, <1>7

\* What is written for extended data, read to its end.
LEMMA ExtDone ==
  ASSUME NEW e \in Texts, NEW k, k = Len(TextOf(e))
  PROVE  Read(SubSeq(TextOf(e), 1, k)) = Read(e)
<1>1. SubSeq(TextOf(e), 1, k) = TextOf(e)
  BY TextOfIs, WholeText
<1>2. Read(TextOf(e)) = Read(e)
  BY NullIsNoText, EmptyText DEF Read, TextOf
<1>. QED
  BY <1>1, <1>2

\* Artist and title in one line: what a part of the line is.
NamePieceIs(data, a, t, k, m) ==
  /\ m <= Len(a) => ~Split(data) /\ data = SubSeq(a, k + 1, m)
  /\ k <= Len(a) /\ Len(a) < m => /\ Split(data) /\ BeforeSlash(data) = SubSeq(a, k + 1, Len(a))
                                  /\ AfterSlash(data) = SubSeq(t, 1, m - Len(a) - 1)
  /\ Len(a) < k => ~Split(data) /\ data = SubSeq(t, k - Len(a), m - Len(a) - 1)

\* Where the words of the next part stand, and which of them is the Slash.
LEMMA NamePiece ==
  ASSUME NEW a \in Seq(Words), NEW t \in Seq(Words), Undivided(a), Undivided(t),
         NEW u, IsName(u, a, t), NEW k \in Nat, NEW m \in Nat, k <= m, m <= Len(u),
         NEW data, data = SubSeq(u, k + 1, m), OneSlash(data)
  PROVE  NamePieceIs(data, a, t, k, m)
<1>1. Len(a) \in Nat /\ Len(t) \in Nat /\ Len(u) = Len(a) + 1 + Len(t) /\ u \in Seq(Words)
  BY DEF IsName
<1>2. data \in Seq(Words) /\ Len(data) = m - k /\ \A i \in 1..(m - k) : data[i] = u[k + i]
  BY <1>1, PartIs
<1>3. DOMAIN data = 1..(m - k)
  BY <1>2
<1>4. \A i \in 1..Len(u) : u[i].w = "/" => i = Len(a) + 1
  BY <1>1, NamePartable
<1>5. ASSUME NEW i \in 1..(m - k), data[i] = Slash PROVE k + i = Len(a) + 1
  <2>1. k + i \in 1..Len(u)
    BY <1>1
  <2>. QED
    BY <1>2, <1>4, <1>5, <2>1, SlashIs
<1>6. Split(data) <=> \E i \in 1..(m - k) : data[i] = Slash
  BY <1>3 DEF Split, Slashes
<1>7. ASSUME m <= Len(a) PROVE ~Split(data) /\ data = SubSeq(a, k + 1, m)
  <2>1. ~Split(data)
    <3>1. \A i \in 1..(m - k) : k + i # Len(a) + 1
      BY <1>1, <1>7
    <3>. QED
      BY <1>5, <1>6, <3>1
  <2> DEFINE b == SubSeq(a, k + 1, m)
  <2>2. b \in Seq(Words) /\ Len(b) = m - k /\ \A i \in 1..(m - k) : b[i] = a[k + i]
    BY <1>7, PartIs
  <2>3. ASSUME NEW i \in 1..(m - k) PROVE data[i] = b[i]
    <3>1. k + i \in 1..Len(a)
      BY <1>1, <1>7
    <3>. QED
      BY <1>2, <2>2, <3>1 DEF IsName
  <2> HIDE DEF b
  <2>4. data = b
    BY <1>2, <2>2, <2>3, SameWords
  <2>. QED
    BY <2>1, <2>4 DEF b
<1>8. ASSUME Len(a) < k PROVE ~Split(data) /\ data = SubSeq(t, k - Len(a), m - Len(a) - 1)
  <2>1. ~Split(data)
    <3>1. \A i \in 1..(m - k) : k + i # Len(a) + 1
      BY <1>1, <1>8
    <3>. QED
      BY <1>5, <1>6, <3>1
  <2> DEFINE f == k - Len(a) - 1
             g == m - Len(a) - 1
             b == SubSeq(t, f + 1, g)
  <2>2. f \in Nat /\ g \in Nat /\ f <= g /\ g <= Len(t) /\ g - f = m - k /\ f + 1 = k - Len(a)
    BY <1>1, <1>8
  <2>3. \A i \in 1..(m - k) : Len(a) + 1 + (f + i) = k + i /\ f + i \in 1..Len(t)
    BY <1>1, <1>8
  <2> HIDE DEF f, g
  <2>4. b \in Seq(Words) /\ Len(b) = m - k /\ \A i \in 1..(m - k) : b[i] = t[f + i]
    BY <2>2, PartIs
  <2>5. ASSUME NEW i \in 1..(m - k) PROVE data[i] = b[i]
    <3>1. u[Len(a) + 1 + (f + i)] = t[f + i]
      BY <2>3 DEF IsName
    <3>. QED
      BY <1>2, <2>3, <2>4, <3>1
  <2> HIDE DEF b
  <2>6. data = b
    BY <1>2, <2>4, <2>5, SameWords
  <2>7. data = SubSeq(t, k - Len(a), g)
    BY <2>2, <2>6 DEF b
  <2>. QED
    BY <2>1, <2>7 DEF g
<1>9. ASSUME k <= Len(a), Len(a) < m
      PROVE  /\ Split(data) /\ BeforeSlash(data) = SubSeq(a, k + 1, Len(a))
             /\ AfterSlash(data) = SubSeq(t, 1, m - Len(a) - 1)
  <2> DEFINE p == Len(a) + 1 - k
  <2>1. p \in 1..(m - k) /\ k + p = Len(a) + 1 /\ p \in Nat
    BY <1>1, <1>9
  <2> HIDE DEF p
  <2>2. data[p] = Slash
    BY <1>2, <2>1 DEF IsName
  <2>3. Split(data)
    BY <1>6, <2>1, <2>2
  <2>4. PICK i \in 1..Len(data) : /\ data[i] = Slash
                                  /\ BeforeSlash(data) = SubSeq(data, 1, i - 1)
                                  /\ AfterSlash(data) = SubSeq(data, i + 1, Len(data))
    BY <1>2, <2>3, PartsAre
  <2>5. i = p
    <3>1. i \in 1..(m - k) /\ i \in Nat
      BY <1>2
    <3>2. k + i = Len(a) + 1
      BY <1>5, <2>4, <3>1
    <3>. QED
      BY <1>1, <2>1, <3>1, <3>2
  <2>6. BeforeSlash(data) = SubSeq(a, k + 1, Len(a))
    <3> DEFINE b == SubSeq(data, 1, p - 1)
               c == SubSeq(a, k + 1, Len(a))
               z == p - 1
    <3>1. z \in Nat /\ z <= Len(data) /\ z = Len(a) - k /\ \A j \in 1..z : k + j \in 1..Len(a) /\ j \in 1..(m - k)
      BY <1>1, <1>2, <2>1
    <3>2. b \in Seq(Words) /\ Len(b) = z /\ \A j \in 1..z : b[j] = data[j]
      <4> HIDE DEF z
      <4>1. b = SubSeq(data, 1, z)
        BY DEF z
      <4>2. data \in Seq(Words) /\ z \in Nat /\ z <= Len(data)
        BY <1>2, <3>1
      <4> HIDE DEF b
      <4>3. b \in Seq(Words) /\ Len(b) = z
        BY <4>1, <4>2, FirstPartIs, SMTT(60)
      <4>4. \A j \in 1..z : b[j] = data[j]
        BY <4>1, <4>2, FirstPartIs, SMTT(60)
      <4>. QED
        BY <4>3, <4>4
    <3>3. c \in Seq(Words) /\ Len(c) = z /\ \A j \in 1..z : c[j] = a[k + j]
      BY <1>1, <1>9, <3>1, PartIs
    <3>4. ASSUME NEW j \in 1..z PROVE b[j] = c[j]
      <4> HIDE DEF b, c, z
      <4>. QED
        BY <1>2, <3>1, <3>2, <3>3 DEF IsName
    <3> HIDE DEF b, c, z
    <3>5. b = c
      BY <3>2, <3>3, <3>4, SameWords
    <3>. QED
      BY <2>4, <2>5, <3>5 DEF b, c
  <2>7. AfterSlash(data) = SubSeq(t, 1, m - Len(a) - 1)
    <3> DEFINE g == m - Len(a) - 1
               b == SubSeq(data, p + 1, m - k)
               c == SubSeq(t, 1, g)
    <3>0. Len(a) + 1 + Len(t) >= m /\ p = Len(a) + 1 - k
      BY <1>1, <2>1
    <3>1. g \in Nat /\ g <= Len(t) /\ m - k - p = g /\ p <= m - k /\ m - k \in Nat
      BY <1>1, <1>9, <2>1, <3>0
    <3>2. \A j \in 1..g : /\ Len(a) + 1 + j = k + (p + j) /\ p + j \in 1..(m - k) /\ j \in 1..Len(t)
      BY <1>1, <1>9, <2>1, <3>0
    <3> HIDE DEF g
    <3>3. b \in Seq(Words) /\ Len(b) = g /\ \A j \in 1..g : b[j] = data[p + j]
      <4> DEFINE e == m - k
      <4>1. e \in Nat /\ e = Len(data) /\ p <= e /\ e - p = g
        BY <1>2, <3>1
      <4>2. b = SubSeq(data, p + 1, e)
        OBVIOUS
      <4> HIDE DEF e, b
      <4>. QED
        BY <1>2, <2>1, <4>1, <4>2, PartIs
    <3>4. c \in Seq(Words) /\ Len(c) = g /\ \A j \in 1..g : c[j] = t[j]
      BY <1>1, <3>1
    <3> HIDE DEF b, c
    <3>5. ASSUME NEW j \in 1..g PROVE b[j] = c[j]
      <4>1. data[p + j] = u[k + (p + j)]
        BY <1>2, <3>2
      <4>2. u[Len(a) + 1 + j] = t[j]
        BY <3>2 DEF IsName
      <4>. QED
        BY <3>2, <3>3, <3>4, <4>1, <4>2
    <3>6. b = c
      BY <3>3, <3>4, <3>5, SameWords
    <3>7. AfterSlash(data) = b
      BY <1>2, <2>4, <2>5 DEF b
    <3>. QED
      BY <3>6, <3>7 DEF c, g
  <2>. QED
    BY <2>3, <2>6, <2>7
<1>. QED
  BY <1>7, <1>8, <1>9 DEF NamePieceIs

\* What has come of artist and title in one line, k words of it.
HasName(hadA, hadT, a, t, k) ==
  IF k <= Len(a) THEN HasCome(hadA, a, k) /\ hadT = Null
  ELSE hadA = a /\ hadT = SubSeq(t, 1, k - Len(a) - 1)

\* The words behind word k of a line, up to word m.
IsPart(data, u, k, m) ==
  /\ k \in Nat /\ m \in Nat /\ k <= m /\ m <= Len(u)
  /\ data = SubSeq(u, k + 1, m) /\ OneSlash(data)

\* A part of it is taken: behind the Slash of the line, or of one before, is the title.
TakesName(data, hadA, hadT, newA, newT, a, k) ==
  /\ Split(data) => newA = Extended(hadA, BeforeSlash(data)) /\ newT = Extended(hadT, AfterSlash(data))
  /\ ~Split(data) /\ Len(a) < k => newA = hadA /\ newT = Extended(hadT, data)
  /\ ~Split(data) /\ k <= Len(a) => newA = Extended(hadA, data) /\ newT = hadT

\* The next part, up to word m: cddb_parse_record, case STATE_DISC_TITLE.
LEMMA NameStep ==
  ASSUME NEW a \in Seq(Words), NEW t \in Seq(Words), Undivided(a), Undivided(t),
         NEW u, IsName(u, a, t), NEW k, NEW m, NEW data, IsPart(data, u, k, m),
         NEW hadA, NEW hadT, HasName(hadA, hadT, a, t, k), NEW newA, NEW newT,
         TakesName(data, hadA, hadT, newA, newT, a, k)
  PROVE  NameRead(newA, newT, a, t, m) /\ (Split(data) \/ Len(a) < k <=> Len(a) < m)
<1>6. /\ k \in Nat /\ m \in Nat /\ k <= m /\ m <= Len(u)
      /\ data = SubSeq(u, k + 1, m) /\ OneSlash(data)
  BY DEF IsPart
<1>1. Len(a) \in Nat /\ Len(t) \in Nat /\ Len(u) = Len(a) + 1 + Len(t)
  BY DEF IsName
<1>2. NamePieceIs(data, a, t, k, m)
  BY <1>6, NamePiece
<1>0. /\ Split(data) => newA = Extended(hadA, BeforeSlash(data)) /\ newT = Extended(hadT, AfterSlash(data))
      /\ ~Split(data) /\ Len(a) < k => newA = hadA /\ newT = Extended(hadT, data)
      /\ ~Split(data) /\ k <= Len(a) => newA = Extended(hadA, data) /\ newT = hadT
  BY DEF TakesName
<1>3. CASE m <= Len(a)
  <2>1. ~Split(data) /\ data = SubSeq(a, k + 1, m) /\ k <= Len(a) /\ ~(Len(a) < k) /\ ~(Len(a) < m)
    BY <1>6, <1>1, <1>2, <1>3 DEF NamePieceIs
  <2>2. newA = Extended(hadA, SubSeq(a, k + 1, m)) /\ newT = Null /\ HasCome(hadA, a, k)
    BY <1>0, <2>1 DEF HasName
  <2>3. newA = SubSeq(a, 1, m)
    BY <1>6, <1>3, <2>2, ExtendedGrows
  <2>. QED
    BY <1>3, <2>1, <2>2, <2>3 DEF NameRead
<1>4. CASE k <= Len(a) /\ Len(a) < m
  <2> DEFINE g == m - Len(a) - 1
  <2>1. Split(data) /\ BeforeSlash(data) = SubSeq(a, k + 1, Len(a)) /\ AfterSlash(data) = SubSeq(t, 1, g)
    BY <1>2, <1>4 DEF NamePieceIs
  <2>2. HasCome(hadA, a, k) /\ hadT = Null
    BY <1>4 DEF HasName
  <2>3. Extended(hadA, SubSeq(a, k + 1, Len(a))) = SubSeq(a, 1, Len(a))
    BY <1>6, <1>1, <1>4, <2>2, ExtendedGrows
  <2>4. newA = a
    BY <1>0, <2>1, <2>3, WholeText
  <2>5. newT = SubSeq(t, 1, g)
    BY <1>0, <2>1, <2>2 DEF Extended
  <2>6. ~(m <= Len(a))
    BY <1>6, <1>1, <1>4
  <2>. QED
    BY <1>4, <2>1, <2>4, <2>5, <2>6 DEF NameRead
<1>5. CASE Len(a) < k
  <2> DEFINE f == k - Len(a) - 1
             g == m - Len(a) - 1
  <2>1. ~Split(data) /\ data = SubSeq(t, k - Len(a), g)
    BY <1>2, <1>5 DEF NamePieceIs
  <2>2. f \in Nat /\ g \in Nat /\ f <= g /\ g <= Len(t) /\ f + 1 = k - Len(a)
        /\ ~(m <= Len(a)) /\ ~(k <= Len(a)) /\ Len(a) < m
    BY <1>6, <1>1, <1>5
  <2>3. hadA = a /\ hadT = SubSeq(t, 1, f)
    BY <2>2 DEF HasName
  <2> HIDE DEF f, g
  <2>4. Extended(hadT, SubSeq(t, f + 1, g)) = SubSeq(t, 1, g)
    BY <2>2, <2>3, ExtendedGrows DEF HasCome
  <2>5. newA = a /\ newT = SubSeq(t, 1, g)
    BY <1>0, <1>5, <2>1, <2>2, <2>3, <2>4
  <2>. QED
    BY <1>5, <2>2, <2>5 DEF NameRead, g
<1>. QED
  BY <1>6, <1>1, <1>3, <1>4, <1>5

\* All of it has come.
LEMMA NameDone ==
  ASSUME NEW a \in Seq(Words), NEW t \in Seq(Words), NEW u, IsName(u, a, t), NEW k, k = Len(u),
         NEW newA, NEW newT, NameRead(newA, newT, a, t, k)
  PROVE  newA = a /\ newT = t /\ newA # Null /\ newT # Null /\ Len(a) < k
<1>1. Len(a) \in Nat /\ Len(t) \in Nat /\ k = Len(a) + 1 + Len(t)
  BY DEF IsName
<1>2. ~(k <= Len(a)) /\ k - Len(a) - 1 = Len(t) /\ Len(a) < k
  BY <1>1
<1>3. newA = a /\ newT = SubSeq(t, 1, Len(t))
  BY <1>2 DEF NameRead
<1>. QED
  BY <1>2, <1>3, WholeText, NullIsNoText

\* A part of a text that has no Slash has none.
LEMMA NoSlash ==
  ASSUME NEW t \in Seq(Words), Undivided(t), NEW k \in Nat, NEW m \in Nat, k <= m, m <= Len(t),
         NEW data, data = SubSeq(t, k + 1, m)
  PROVE  ~Split(data)
<1>1. data \in Seq(Words) /\ Len(data) = m - k /\ \A i \in 1..(m - k) : data[i] = t[k + i]
  BY PartIs
<1>2. \A i \in 1..(m - k) : k + i \in DOMAIN t
  OBVIOUS
<1>3. t # Null
  BY NullIsNoText
<1>4. \A i \in 1..(m - k) : data[i].w # "/"
  BY <1>1, <1>2, <1>3 DEF Undivided
<1>5. DOMAIN data = 1..(m - k)
  BY <1>1
<1>. QED
  BY <1>4, <1>5, SlashIs DEF Split, Slashes

\* What has come of the title of a track: an artist is put into the title.
HasTrackName(r, t, k) ==
  IF t.artist = Null THEN r.artist = Null /\ HasCome(r.title, t.title, k)
  ELSE IF k <= Len(t.artist) THEN r.artist = Null /\ HasCome(r.title, t.artist, k)
  ELSE r.artist = t.artist /\ r.title = SubSeq(t.title, 1, k - Len(t.artist) - 1)

\* A part of it is taken: z is the track r afterwards.
TakesTrackName(data, r, z) ==
  /\ Split(data) => z.artist = Extended(r.title, BeforeSlash(data)) /\ z.title = AfterSlash(data)
  /\ ~Split(data) => z.artist = r.artist /\ z.title = Extended(r.title, data)

\* The next part: cddb_parse_record, case STATE_TRACK_TITLE.
LEMMA TrackNameStep ==
  ASSUME NEW t \in TrackData, t.title \in Seq(Words), Undivided(t.artist), Undivided(t.title),
         NEW u, u = TrackTitle(t), NEW k, NEW m, NEW data, IsPart(data, u, k, m),
         NEW r, HasTrackName(r, t, k), NEW z, TakesTrackName(data, r, z)
  PROVE  TrackNameRead(z, t, m)
<1>3. /\ k \in Nat /\ m \in Nat /\ k <= m /\ m <= Len(u)
      /\ data = SubSeq(u, k + 1, m) /\ OneSlash(data)
  BY DEF IsPart
<1>4. /\ Split(data) => z.artist = Extended(r.title, BeforeSlash(data)) /\ z.title = AfterSlash(data)
      /\ ~Split(data) => z.artist = r.artist /\ z.title = Extended(r.title, data)
  BY DEF TakesTrackName
<1>1. CASE t.artist = Null
  <2>1. u = t.title
    BY <1>1, TrackTitleIs
  <2>2. ~Split(data)
    BY <1>3, <2>1, NoSlash
  <2>3. z.artist = Null /\ z.title = Extended(r.title, data) /\ HasCome(r.title, t.title, k)
    BY <1>1, <1>4, <2>2 DEF HasTrackName
  <2>4. z.title = SubSeq(t.title, 1, m)
    <3>1. PICK v, had : v = t.title /\ had = r.title
      OBVIOUS
    <3>2. v \in Seq(Words) /\ k \in Nat /\ m \in Nat /\ k <= m /\ m <= Len(v) /\ HasCome(had, v, k)
      BY <1>3, <2>1, <2>3, <3>1
    <3>3. Extended(had, SubSeq(v, k + 1, m)) = SubSeq(v, 1, m)
      BY <3>2, ExtendedGrows
    <3>4. data = SubSeq(v, k + 1, m) /\ z.title = Extended(had, data)
      BY <1>3, <2>1, <2>3, <3>1
    <3>. QED
      BY <3>1, <3>3, <3>4
  <2>. QED
    BY <1>1, <2>3, <2>4 DEF TrackNameRead
<1>2. CASE t.artist # Null
  <2> DEFINE a == t.artist
             s == t.title
  <2>1. a \in Seq(Words) /\ s \in Seq(Words) /\ IsName(u, a, s)
    BY <1>2, TrackTitleIs
  <2>2. Len(a) \in Nat /\ Len(s) \in Nat /\ Len(u) = Len(a) + 1 + Len(s)
    BY <2>1 DEF IsName
  <2>3. NamePieceIs(data, a, s, k, m)
    BY <1>3, <2>1, NamePiece
  <2>7. IF k <= Len(a) THEN r.artist = Null /\ HasCome(r.title, a, k)
        ELSE r.artist = a /\ r.title = SubSeq(s, 1, k - Len(a) - 1)
    BY <1>2 DEF HasTrackName
  <2> SUFFICES IF m <= Len(a) THEN z.artist = Null /\ z.title = SubSeq(a, 1, m)
               ELSE z.artist = a /\ z.title = SubSeq(s, 1, m - Len(a) - 1)
    BY <1>2 DEF TrackNameRead
  <2> HIDE DEF a, s
  <2>4. CASE m <= Len(a)
    <3>1. ~Split(data) /\ data = SubSeq(a, k + 1, m) /\ k <= Len(a)
      BY <1>3, <2>2, <2>3, <2>4 DEF NamePieceIs
    <3>2. z.artist = Null /\ z.title = Extended(r.title, data) /\ HasCome(r.title, a, k)
      BY <1>4, <2>7, <3>1
    <3>3. z.title = SubSeq(a, 1, m)
      BY <1>3, <2>1, <2>4, <3>1, <3>2, ExtendedGrows
    <3>. QED
      BY <2>4, <3>2, <3>3
  <2>5. CASE k <= Len(a) /\ Len(a) < m
    <3>1. Split(data) /\ BeforeSlash(data) = SubSeq(a, k + 1, Len(a))
          /\ AfterSlash(data) = SubSeq(s, 1, m - Len(a) - 1)
      BY <2>3, <2>5 DEF NamePieceIs
    <3>2. HasCome(r.title, a, k)
      BY <2>5, <2>7
    <3>3. Extended(r.title, SubSeq(a, k + 1, Len(a))) = SubSeq(a, 1, Len(a))
      <4> DEFINE p == Len(a)
      <4>1. p \in Nat /\ k <= p /\ p <= Len(a) /\ a \in Seq(Words)
        BY <2>1, <2>2, <2>5
      <4> HIDE DEF p
      <4>2. Extended(r.title, SubSeq(a, k + 1, p)) = SubSeq(a, 1, p)
        BY <1>3, <3>2, <4>1, ExtendedGrows
      <4>. QED
        BY <4>2 DEF p
    <3>4. z.artist = a /\ z.title = SubSeq(s, 1, m - Len(a) - 1)
      BY <1>4, <2>1, <3>1, <3>3, WholeText
    <3>5. ~(m <= Len(a))
      BY <1>3, <2>2, <2>5
    <3>. QED
      BY <3>4, <3>5
  <2>6. CASE Len(a) < k
    <3> DEFINE f == k - Len(a) - 1
               g == m - Len(a) - 1
    <3>1. ~Split(data) /\ data = SubSeq(s, k - Len(a), g)
      BY <2>3, <2>6 DEF NamePieceIs
    <3>2. f \in Nat /\ g \in Nat /\ f <= g /\ g <= Len(s) /\ f + 1 = k - Len(a)
          /\ ~(m <= Len(a)) /\ ~(k <= Len(a))
      BY <1>3, <2>2, <2>6
    <3>3. r.artist = a /\ r.title = SubSeq(s, 1, f)
      BY <2>7, <3>2
    <3> HIDE DEF f, g
    <3>4. Extended(r.title, SubSeq(s, f + 1, g)) = SubSeq(s, 1, g)
      BY <2>1, <3>2, <3>3, ExtendedGrows DEF HasCome
    <3>5. z.artist = a /\ z.title = SubSeq(s, 1, g)
      BY <1>4, <3>1, <3>2, <3>3, <3>4
    <3>. QED
      BY <3>2, <3>5 DEF g
  <2>. QED
    BY <1>3, <2>2, <2>4, <2>5, <2>6
<1>. QED
  BY <1>1, <1>2

\* All of it has come.
LEMMA TrackNameDone ==
  ASSUME NEW t \in TrackData, t.title \in Seq(Words), Undivided(t.artist), Undivided(t.title),
         NEW k, k = Len(TrackTitle(t)), NEW z, TrackNameRead(z, t, k)
  PROVE  z.artist = t.artist /\ z.title = t.title
<1>1. CASE t.artist = Null
  <2>1. TrackTitle(t) = t.title
    BY <1>1, TrackTitleIs
  <2>. QED
    BY <1>1, <2>1, WholeText DEF TrackNameRead
<1>2. CASE t.artist # Null
  <2>1. t.artist \in Seq(Words) /\ IsName(TrackTitle(t), t.artist, t.title)
    BY <1>2, TrackTitleIs
  <2>2. Len(t.artist) \in Nat /\ Len(t.title) \in Nat /\ k = Len(t.artist) + 1 + Len(t.title)
    BY <2>1 DEF IsName
  <2>3. ~(k <= Len(t.artist)) /\ k - Len(t.artist) - 1 = Len(t.title)
    <3> DEFINE p == Len(t.artist)
               q == Len(t.title)
    <3>1. p \in Nat /\ q \in Nat /\ k = p + 1 + q
      BY <2>2
    <3> HIDE DEF p, q
    <3>2. ~(k <= p) /\ k - p - 1 = q
      BY <3>1
    <3>. QED
      BY <3>2 DEF p, q
  <2>4. z.artist = t.artist /\ z.title = SubSeq(t.title, 1, Len(t.title))
    BY <1>2, <2>3 DEF TrackNameRead
  <2>. QED
    BY <2>4, WholeText
<1>. QED
  BY <1>1, <1>2

----------------------------------------------------------------------------
(* Where the lines of a record stand.                                      *)

\* A disc d of n tracks and a record w of it, with year and genre (y = 2) or without.
Given(d, n, y, w) ==
  /\ Writable(d) /\ n = Len(d.tracks) /\ n \in Nat /\ n >= 1 /\ y \in Nat /\ y \in {0, 2}
  /\ Shape(w, d, y)

IsLine(l, key, no, data) == l.key = key /\ l.no = no /\ l.data = data

\* The lines of the header, and how many lines there are.
HeaderLines(d, n, w) ==
  /\ w[1].key = "other" /\ w[2].key = "offsets"
  /\ \A i \in 1..n : IsLine(w[2 + i], "offset", 0, d.tracks[i].frame_offset)
  /\ w[n + 3].key = "other" /\ IsLine(w[n + 4], "length", 0, d.length)
  /\ w[n + 5].key = "other" /\ IsLine(w[n + 6], "revision", 0, d.revision)
  /\ w[n + 7].key = "other" /\ w[n + 8].key = "title"
  /\ IsName(w[n + 8].data, d.artist, d.title)

\* The lines behind it.
BodyLines(d, n, y, w) ==
  /\ y = 2 => /\ IsLine(w[n + 9], "year", 0, d.year) /\ w[n + 10].key \in {"genre", "hidden"}
              /\ w[n + 10].key = "genre" => w[n + 10].data = Genre(d)
  /\ \A i \in 1..n : IsLine(w[n + 8 + y + i], "ttitle", i - 1, TrackTitle(d.tracks[i]))
  /\ IsLine(w[2 * n + 9 + y], "ext", 0, TextOf(d.ext_data))
  /\ \A i \in 1..n : IsLine(w[2 * n + 9 + y + i], "extt", i - 1, TextOf(d.tracks[i].ext_data))
  /\ w[3 * n + 10 + y].key = "order"

\* Every line of a record is where Shape puts it.
LEMMA LinesAre ==
  ASSUME NEW d, NEW n, NEW y, NEW w, Given(d, n, y, w)
  PROVE  /\ HeaderLines(d, n, w) /\ BodyLines(d, n, y, w)
         /\ Len(w) = 3 * n + 10 + y /\ w \in Seq(Lines)
<1>1. /\ Writable(d) /\ n = Len(d.tracks) /\ y \in {0, 2}
      /\ w \in Seq(Lines) /\ Len(w) = 3 * n + 10 + y
      /\ w[1] = Other /\ w[2] = Line("offsets", 0, <<>>)
      /\ \A i \in 1..n : w[2 + i] = Line("offset", 0, d.tracks[i].frame_offset)
      /\ w[n + 3] = Other /\ w[n + 4] = Line("length", 0, d.length)
      /\ w[n + 5] = Other /\ w[n + 6] = Line("revision", 0, d.revision)
      /\ w[n + 7] = Other /\ w[n + 8] = Line("title", 0, d.artist \o <<Slash>> \o d.title)
      /\ y = 2 => /\ w[n + 9] = Line("year", 0, d.year)
                  /\ w[n + 10].key \in {"genre", "hidden"}
                  /\ w[n + 10].key = "genre" => w[n + 10].data = Genre(d)
      /\ \A i \in 1..n : w[n + 8 + y + i] = Line("ttitle", i - 1, TrackTitle(d.tracks[i]))
      /\ w[2 * n + 9 + y] = Line("ext", 0, TextOf(d.ext_data))
      /\ \A i \in 1..n : w[2 * n + 9 + y + i] = Line("extt", i - 1, TextOf(d.tracks[i].ext_data))
      /\ w[3 * n + 10 + y] = Line("order", 0, <<>>)
  BY DEF Given, Shape
<1>2. w[n + 8].data = d.artist \o <<Slash>> \o d.title
  <2> DEFINE u == d.artist \o <<Slash>> \o d.title
  <2>1. w[n + 8] = Line("title", 0, u)
    BY <1>1
  <2> HIDE DEF u
  <2>2. w[n + 8].data = u
    BY <2>1, LineFields
  <2>. QED
    BY <2>2 DEF u
<1>3. IsName(w[n + 8].data, d.artist, d.title)
  BY <1>1, <1>2, WritableIs, NameIs
<1>4. HeaderLines(d, n, w)
  <2>1. w[1].key = "other" /\ w[2].key = "offsets"
    BY <1>1 DEF Line, Other
  <2>2. \A i \in 1..n : IsLine(w[2 + i], "offset", 0, d.tracks[i].frame_offset)
    <3> TAKE i \in 1..n
    <3> DEFINE u == d.tracks[i].frame_offset
    <3>1. w[2 + i] = Line("offset", 0, u)
      BY <1>1
    <3> HIDE DEF u
    <3>2. IsLine(w[2 + i], "offset", 0, u)
      BY <3>1, LineFields DEF IsLine
    <3>. QED
      BY <3>2 DEF u
  <2>3. w[n + 3].key = "other" /\ IsLine(w[n + 4], "length", 0, d.length)
    BY <1>1 DEF Line, Other, IsLine
  <2>4. w[n + 5].key = "other" /\ IsLine(w[n + 6], "revision", 0, d.revision)
    BY <1>1 DEF Line, Other, IsLine
  <2>5. w[n + 7].key = "other" /\ w[n + 8].key = "title"
    BY <1>1 DEF Line, Other
  <2>. QED
    BY <1>3, <2>1, <2>2, <2>3, <2>4, <2>5 DEF HeaderLines
<1>5. BodyLines(d, n, y, w)
  <2>1. y = 2 => /\ IsLine(w[n + 9], "year", 0, d.year) /\ w[n + 10].key \in {"genre", "hidden"}
                 /\ w[n + 10].key = "genre" => w[n + 10].data = Genre(d)
    BY <1>1 DEF Line, IsLine
  <2>2. \A i \in 1..n : IsLine(w[n + 8 + y + i], "ttitle", i - 1, TrackTitle(d.tracks[i]))
    <3> TAKE i \in 1..n
    <3> DEFINE u == TrackTitle(d.tracks[i])
               p == n + 8 + y + i
    <3>1. w[p] = Line("ttitle", i - 1, u)
      BY <1>1
    <3> HIDE DEF u, p
    <3>2. IsLine(w[p], "ttitle", i - 1, u)
      BY <3>1, LineFields DEF IsLine
    <3>. QED
      BY <3>2 DEF u, p
  <2>3. IsLine(w[2 * n + 9 + y], "ext", 0, TextOf(d.ext_data))
    BY <1>1 DEF Line, IsLine
  <2>4. \A i \in 1..n :
          IsLine(w[2 * n + 9 + y + i], "extt", i - 1, TextOf(d.tracks[i].ext_data))
    <3> TAKE i \in 1..n
    <3> DEFINE u == TextOf(d.tracks[i].ext_data)
               p == 2 * n + 9 + y + i
    <3>1. w[p] = Line("extt", i - 1, u)
      BY <1>1
    <3> HIDE DEF u, p
    <3>2. IsLine(w[p], "extt", i - 1, u)
      BY <3>1, LineFields DEF IsLine
    <3>. QED
      BY <3>2 DEF u, p
  <2>5. w[3 * n + 10 + y].key = "order"
    BY <1>1 DEF Line
  <2>. QED
    BY <2>1, <2>2, <2>3, <2>4, <2>5 DEF BodyLines
<1>. QED
  BY <1>1, <1>4, <1>5

\* A line stands in one of these places.
LEMMA PlacesAre ==
  ASSUME NEW n \in Nat, n >= 1, NEW y \in Nat, y \in {0, 2}, NEW s \in 1..(3 * n + 10 + y)
  PROVE  \/ s = 1 \/ s = 2 \/ s - 2 \in 1..n \/ s = n + 3 \/ s = n + 4 \/ s = n + 5 \/ s = n + 6
         \/ s = n + 7 \/ s = n + 8 \/ (y = 2 /\ s = n + 9) \/ (y = 2 /\ s = n + 10)
         \/ s - (n + 8 + y) \in 1..n \/ s = 2 * n + 9 + y \/ s - (2 * n + 9 + y) \in 1..n
         \/ s = 3 * n + 10 + y
  OBVIOUS

\* A keyword tells where its line stands.
LEMMA KeysAre ==
  ASSUME NEW d, NEW n, NEW y, NEW w, Given(d, n, y, w), NEW s \in 1..Len(w)
  PROVE  /\ w[s].key = "year" => y = 2 /\ s = n + 9
         /\ w[s].key = "genre" => y = 2 /\ s = n + 10
         /\ w[s].key # "dot" /\ w[s].no \in Nat
         /\ w[s].key \in Textual => w[s].data \in Seq(Words)
         /\ w[s].key \in Textual => s >= n + 8
         /\ s \in {n + 3, n + 5, n + 7} => w[s].key = "other"
<1>1. n \in Nat /\ n >= 1 /\ y \in Nat /\ y \in {0, 2}
  BY DEF Given
<1>2. HeaderLines(d, n, w) /\ BodyLines(d, n, y, w) /\ Len(w) = 3 * n + 10 + y /\ w \in Seq(Lines)
  BY LinesAre
<1>8. HeaderLines(d, n, w)
  BY <1>2
<1>9. BodyLines(d, n, y, w)
  BY <1>2
<1>3. s \in 1..(3 * n + 10 + y) /\ s \in Nat
  BY <1>1, <1>2
<1>4. w[s] \in Lines
  BY <1>2
<1>5. /\ w[s].key # "dot" /\ w[s].no \in Nat /\ (w[s].key \in Textual => w[s].data \in Seq(Words))
  BY <1>4, LineData DEF Textual
<1>6. s \in {n + 3, n + 5, n + 7} => w[s].key = "other"
  BY <1>2 DEF HeaderLines
<1>7. /\ w[s].key = "year" => y = 2 /\ s = n + 9
      /\ w[s].key = "genre" => y = 2 /\ s = n + 10
      /\ w[s].key \in Textual => s >= n + 8
  <2>1. CASE s \in {1, 2, n + 3, n + 4, n + 5, n + 6, n + 7, n + 8}
    <3>1. w[s].key \in {"other", "offsets", "length", "revision"} \/ (s = n + 8 /\ w[s].key = "title")
      <4>1. CASE s = 1 \/ s = 2
        BY <1>8, <4>1 DEF HeaderLines
      <4>2. CASE s = n + 3 \/ s = n + 5 \/ s = n + 7
        BY <1>8, <4>2 DEF HeaderLines
      <4>3. CASE s = n + 4 \/ s = n + 6
        BY <1>8, <4>3 DEF HeaderLines, IsLine
      <4>4. CASE s = n + 8
        BY <1>8, <4>4 DEF HeaderLines
      <4>. QED
        BY <2>1, <4>1, <4>2, <4>3, <4>4
    <3>. QED
      BY <1>1, <3>1 DEF Textual
  <2>2. CASE s - 2 \in 1..n
    <3>1. w[2 + (s - 2)].key = "offset"
      BY <1>2, <2>2 DEF HeaderLines, IsLine
    <3>2. 2 + (s - 2) = s
      BY <1>3
    <3>3. w[s].key = "offset"
      BY <3>1, <3>2
    <3>. QED
      BY <3>3 DEF Textual
  <2>3. CASE y = 2 /\ (s = n + 9 \/ s = n + 10)
    <3>1. (s = n + 9 /\ w[s].key = "year") \/ (s = n + 10 /\ w[s].key \in {"genre", "hidden"})
      <4>1. CASE s = n + 9
        BY <1>9, <2>3, <4>1 DEF BodyLines, IsLine
      <4>2. CASE s = n + 10
        BY <1>9, <2>3, <4>2 DEF BodyLines
      <4>. QED
        BY <2>3, <4>1, <4>2
    <3>. QED
      BY <1>1, <2>3, <3>1
  <2>4. CASE s - (n + 8 + y) \in 1..n
    <3>1. w[n + 8 + y + (s - (n + 8 + y))].key = "ttitle"
      BY <1>2, <2>4 DEF BodyLines, IsLine
    <3>2. n + 8 + y + (s - (n + 8 + y)) = s /\ s >= n + 8
      BY <1>1, <1>3, <2>4
    <3>3. w[s].key = "ttitle"
      BY <3>1, <3>2
    <3>. QED
      BY <3>2, <3>3
  <2>5. CASE s = 2 * n + 9 + y \/ s = 3 * n + 10 + y
    <3>1. w[s].key \in {"ext", "order"}
      BY <1>2, <2>5 DEF BodyLines, IsLine
    <3>2. s >= n + 8
      BY <1>1, <2>5
    <3>. QED
      BY <3>1, <3>2
  <2>6. CASE s - (2 * n + 9 + y) \in 1..n
    <3>1. w[2 * n + 9 + y + (s - (2 * n + 9 + y))].key = "extt"
      BY <1>2, <2>6 DEF BodyLines, IsLine
    <3>2. 2 * n + 9 + y + (s - (2 * n + 9 + y)) = s /\ s >= n + 8
      BY <1>1, <1>3, <2>6
    <3>3. w[s].key = "extt"
      BY <3>1, <3>2
    <3>. QED
      BY <3>2, <3>3
  <2>. QED
    BY <1>1, <1>3, <2>1, <2>2, <2>3, <2>4, <2>5, <2>6, PlacesAre
<1>. QED
  BY <1>5, <1>6, <1>7

----------------------------------------------------------------------------
(* Which step reads a line.                                                *)

\* The state and the keyword tell the step: in the header,
LEMMA HeaderActs ==
  ASSUME Reading
  PROVE  /\ state = "start" => HeaderStart
         /\ state = "offsets" /\ line.key = "offset" => HeaderOffset
         /\ state = "offsets" /\ line.key # "offset" => HeaderLength
         /\ state = "length" => HeaderLength
         /\ state = "revision" => HeaderRevision
         /\ state = "title" /\ line.key = "title" => DiscTitle
         /\ state = "title" /\ line.key # "title" /\ multi_line = "none" => SkipToTitle
<1>1. DiscYear \/ DiscGenre \/ TrackTitleLine \/ DiscExt \/ TrackExt \/ PlayOrder \/ EndDot \/ Unexpected
      => InBody
  BY DEF DiscYear, DiscGenre, TrackTitleLine, DiscExt, TrackExt, PlayOrder, EndDot, Unexpected, Knows
<1>2. state \in {"start", "offsets", "length", "revision", "title"} =>
        /\ Place(state) = 8 /\ Len(Order) = 7
  BY PlaceIs, OrderIs
<1>3. InBody => \/ state \notin {"start", "offsets", "length", "revision", "title"}
                \/ state = "title" /\ line.key # "title" /\ multi_line # "none"
  <2>1. state \in {"start", "offsets", "length", "revision", "title"} => ~(Place(state) <= Len(Order))
    BY <1>2
  <2>. QED
    BY <2>1 DEF InBody
<1>. QED
  BY <1>1, <1>3 DEF Reading, HeaderStart, HeaderOffset, HeaderLength, HeaderRevision, DiscTitle, SkipToTitle

\* in the rest of the record,
InRest ==
  \/ state = "title" /\ line.key # "title" /\ multi_line # "none"
  \/ state \in {"year", "genre", "ttitle", "ext", "extt", "order", "dot"}

\* one of these reads the line;
LEMMA RestActs ==
  ASSUME Reading, InRest
  PROVE  /\ DiscYear \/ DiscGenre \/ TrackTitleLine \/ DiscExt \/ TrackExt \/ PlayOrder \/ EndDot
            \/ Unexpected
  BY DEF Reading, InRest, HeaderStart, HeaderOffset, HeaderLength, HeaderRevision, DiscTitle,
         SkipToTitle

\* where the keyword is one the state or a later one knows, or not.
LEMMA FirstIs ==
  /\ state = "title" => First = 1
  /\ state = "year" => First = 1
  /\ state = "genre" => First = 2
  /\ state = "ttitle" => First = 3
  /\ state = "ext" => First = 4
  /\ state = "extt" => First = 5
  /\ state = "order" => First = 6
  /\ state = "dot" => First = 7
  BY PlaceIs DEF First

\* which, the keyword and the state tell.
LEMMA RestMoves ==
  ASSUME Reading, InRest
  PROVE  /\ line.key = "year" /\ First = 1 => DiscYear
         /\ line.key = "genre" /\ First = 2 => DiscGenre
         /\ line.key = "genre" /\ First = 3 => Unexpected
         /\ line.key = "hidden" => Unexpected
         /\ line.key = "ttitle" /\ First \in {1, 2, 3} => TrackTitleLine
         /\ line.key = "ext" /\ First \in {3, 4} => DiscExt
         /\ line.key = "extt" /\ First \in {4, 5} => TrackExt
         /\ line.key = "order" /\ First = 5 => PlayOrder
         /\ line.key = "dot" /\ First = 7 => EndDot
<1>1. DiscYear \/ DiscGenre \/ TrackTitleLine \/ DiscExt \/ TrackExt \/ PlayOrder \/ EndDot \/ Unexpected
  BY RestActs
<1>2. /\ DiscYear => line.key = "year" /\ Known = Place("year")
      /\ DiscGenre => line.key = "genre" /\ Known = Place("genre")
      /\ TrackTitleLine => line.key = "ttitle"
      /\ DiscExt => line.key = "ext"
      /\ TrackExt => line.key = "extt"
      /\ PlayOrder => line.key = "order"
      /\ EndDot => line.key = "dot"
      /\ Unexpected => Known > 7
  BY OrderIs DEF DiscYear, DiscGenre, TrackTitleLine, DiscExt, TrackExt, PlayOrder, EndDot, Unexpected,
                 Knows
<1>3. /\ line.key = "year" /\ First = 1 => Known = 1
      /\ line.key = "genre" /\ First = 2 => Known = 2
      /\ line.key = "genre" /\ First = 3 => Known = 8
      /\ line.key = "hidden" => Known = 8
      /\ line.key = "ttitle" /\ First \in {1, 2, 3} => Known = 3
      /\ line.key = "ext" /\ First \in {3, 4} => Known = 4
      /\ line.key = "extt" /\ First \in {4, 5} => Known = 5
      /\ line.key = "order" /\ First = 5 => Known = 6
      /\ line.key = "dot" /\ First = 7 => Known = 7
  BY PlaceIs, OrderIs DEF Known
<1>. QED
  BY <1>1, <1>2, <1>3, PlaceIs

\* The locals it finds.
LEMMA RestLocals ==
  /\ line.key = "year" /\ First = 1 => OldNo = old_no
  /\ line.key = "genre" /\ First = 2 => OldNo = old_no
  /\ OldNo \in {-1, old_no}
  /\ line.key = "ttitle" /\ First \in {1, 2, 3} => OldNo = old_no
  /\ line.key = "ext" /\ First = 3 => OldNo = -1 /\ Multi = "none"
  /\ line.key = "ext" /\ First = 4 => OldNo = old_no /\ (state # "title" => Multi = multi_line)
  /\ line.key = "extt" /\ First \in {4, 5} => OldNo = old_no
<1>1. Place("ttitle") = 3 /\ Place("ext") = 4
  BY PlaceIs
<1>2. /\ line.key = "year" /\ First = 1 => Known = 1
      /\ line.key = "genre" /\ First = 2 => Known = 2
      /\ line.key = "ttitle" /\ First \in {1, 2, 3} => Known = 3
      /\ line.key = "ext" /\ First \in {3, 4} => Known = 4
      /\ line.key = "extt" /\ First \in {4, 5} => Known = 5
  BY PlaceIs, OrderIs DEF Known
<1>. QED
  BY <1>1, <1>2 DEF OldNo, Multi, Passes

----------------------------------------------------------------------------
(* One line more.                                                          *)

\* Word k of line j of w was the last to be read; the next line has the words f + 1 to m of
\* line s.
Stands(d, n, y, w, j, k, s, f, m) ==
  /\ Given(d, n, y, w) /\ j \in Nat /\ k \in Nat /\ s \in 1..Len(w) /\ f \in Nat /\ m \in Nat
  /\ \/ s = j /\ f = k /\ w[s].key \in Textual
     \/ s = j + 1 /\ f = 0 /\ (j # 0 /\ w[j].key \in Textual => k = Len(w[j].data))
  /\ line.key = w[s].key /\ line.no = w[s].no
  /\ line.key \in Textual => /\ f <= m /\ m <= Len(w[s].data)
                             /\ line.data = SubSeq(w[s].data, f + 1, m)
  /\ line.key \notin Textual => line.data = w[s].data
  /\ s = j + 1 /\ line.key = "genre" => \A i \in 1..at : rec[i].key # "genre"
  /\ Progress(d, n, y, w, j, k)

\* The numbers in it.
LEMMA StandsFacts ==
  ASSUME NEW d, NEW n, NEW y, NEW w, NEW j, NEW k, NEW s, NEW f, NEW m,
         Stands(d, n, y, w, j, k, s, f, m)
  PROVE  /\ Given(d, n, y, w) /\ Progress(d, n, y, w, j, k)
         /\ n \in Nat /\ n >= 1 /\ y \in Nat /\ y \in {0, 2} /\ j \in Nat /\ k \in Nat /\ s \in Nat
         /\ f \in Nat /\ m \in Nat /\ 1 <= s /\ s <= 3 * n + 10 + y /\ Len(w) = 3 * n + 10 + y
         /\ s \in 1..Len(w)
         /\ \/ s = j /\ f = k /\ w[s].key \in Textual /\ s >= n + 8
            \/ s = j + 1 /\ f = 0
         /\ line.key = w[s].key /\ line.no = w[s].no
<1>1. Given(d, n, y, w) /\ s \in 1..Len(w)
  BY DEF Stands
<1>2. Len(w) = 3 * n + 10 + y
  BY <1>1, LinesAre
<1>3. w[s].key \in Textual => s >= n + 8
  BY <1>1, KeysAre
<1>4. n \in Nat /\ n >= 1 /\ y \in Nat /\ y \in {0, 2}
  BY <1>1 DEF Given
<1>5. s \in Nat /\ 1 <= s /\ s <= 3 * n + 10 + y
  BY <1>1, <1>2, <1>4
<1>. QED
  BY <1>1, <1>2, <1>3, <1>4, <1>5 DEF Stands

\* The texts behind which the parser stands have come to their end.
Behind(d, n, y, s) ==
  /\ s > n + 8 => disc.artist = d.artist /\ disc.title = d.title
  /\ \A i \in 1..n : s > n + 8 + y + i => /\ disc.tracks[i].artist = d.tracks[i].artist
                                          /\ disc.tracks[i].title = d.tracks[i].title
  /\ s > 2 * n + 9 + y => disc.ext_data = Read(d.ext_data)
  /\ \A i \in 1..n : s > 2 * n + 9 + y + i => disc.tracks[i].ext_data = Read(d.tracks[i].ext_data)

\* They have, whether the next line goes on or is a new one.
LEMMA BehindIs ==
  ASSUME NEW d, NEW n, NEW y, NEW w, NEW j, NEW k, NEW s, NEW f, NEW m,
         Stands(d, n, y, w, j, k, s, f, m)
  PROVE  /\ Behind(d, n, y, s)
         /\ s = n + 9 /\ s = j + 1 => multi_line = "title"
<1>1. /\ n \in Nat /\ n >= 1 /\ y \in Nat /\ j \in Nat /\ k \in Nat /\ s \in Nat
      /\ (s = j \/ (s = j + 1 /\ (j # 0 /\ w[j].key \in Textual => k = Len(w[j].data))))
      /\ Given(d, n, y, w) /\ Progress(d, n, y, w, j, k)
  <2>1. s = j \/ (s = j + 1 /\ (j # 0 /\ w[j].key \in Textual => k = Len(w[j].data)))
    BY DEF Stands
  <2>. QED
    BY <2>1, StandsFacts
<1>2. HeaderLines(d, n, w) /\ BodyLines(d, n, y, w)
  BY <1>1, LinesAre
<1>3. Writable(d) /\ n = Len(d.tracks)
  BY <1>1 DEF Given
<1>4. /\ DiscNameRead(d, n, j, k) /\ TrackNamesRead(d, n, y, j, k) /\ ExtRead(d, n, y, j, k)
      /\ TrackExtsRead(d, n, y, j, k)
  BY <1>1 DEF Progress, Told
<1>5. s > n + 8 => disc.artist = d.artist /\ disc.title = d.title
  <2>1. CASE j > n + 8
    BY <1>4, <2>1 DEF DiscNameRead
  <2>2. CASE j = n + 8 /\ s = j + 1
    <3>1. w[j].key = "title" /\ IsName(w[j].data, d.artist, d.title)
      BY <1>2, <2>2 DEF HeaderLines
    <3>2. k = Len(w[j].data)
      BY <1>1, <2>2, <3>1 DEF Textual
    <3>3. NameRead(disc.artist, disc.title, d.artist, d.title, k)
      BY <1>4, <2>2 DEF DiscNameRead
    <3>. QED
      BY <1>3, <3>1, <3>2, <3>3, WritableIs, NameDone
  <2>. QED
    BY <1>1, <2>1, <2>2
<1>6. s = n + 9 /\ s = j + 1 => multi_line = "title"
  <2> SUFFICES ASSUME s = n + 9, s = j + 1 PROVE multi_line = "title"
    OBVIOUS
  <2>1. j = n + 8
    BY <1>1
  <2>2. w[j].key = "title" /\ IsName(w[j].data, d.artist, d.title)
    BY <1>2, <2>1 DEF HeaderLines
  <2>3. k = Len(w[j].data)
    BY <1>1, <2>1, <2>2 DEF Textual
  <2>4. NameRead(disc.artist, disc.title, d.artist, d.title, k)
        /\ multi_line = IF k <= Len(d.artist) THEN "artist" ELSE "title"
    BY <1>4, <2>1 DEF DiscNameRead
  <2>5. d.artist \in Seq(Words) /\ d.title \in Seq(Words)
    BY <1>3, WritableIs
  <2>6. Len(d.artist) < k
    BY <2>2, <2>3, <2>4, <2>5, NameDone
  <2>7. Len(d.artist) \in Nat
    BY <2>5
  <2>. QED
    BY <1>1, <2>4, <2>6, <2>7
<1>7. ASSUME NEW i \in 1..n, s > n + 8 + y + i
      PROVE  disc.tracks[i].artist = d.tracks[i].artist /\ disc.tracks[i].title = d.tracks[i].title
  <2> DEFINE p == n + 8 + y + i
             t == d.tracks[i]
  <2>1. CASE j > p
    BY <1>4, <2>1 DEF TrackNamesRead
  <2>2. CASE j = p /\ s = j + 1
    <3>1. w[p].key = "ttitle" /\ w[p].data = TrackTitle(t)
      BY <1>2 DEF BodyLines, IsLine
    <3>2. p # 0
      BY <1>1
    <3>3. TrackNameRead(disc.tracks[i], t, k)
      BY <1>4, <2>2 DEF TrackNamesRead
    <3> HIDE DEF p
    <3>4. k = Len(TrackTitle(t))
      BY <1>1, <2>2, <3>1, <3>2 DEF Textual
    <3>5. t \in TrackData /\ t.title \in Seq(Words) /\ Undivided(t.artist) /\ Undivided(t.title)
      BY <1>3, TrackIs
    <3>. QED
      BY <3>3, <3>4, <3>5, TrackNameDone
  <2>3. j > p \/ (j = p /\ s = j + 1)
    BY <1>1, <1>7
  <2>. QED
    BY <2>1, <2>2, <2>3
<1>8. s > 2 * n + 9 + y => disc.ext_data = Read(d.ext_data)
  <2> DEFINE p == 2 * n + 9 + y
  <2>1. CASE j > p
    BY <1>4, <2>1 DEF ExtRead
  <2>2. CASE j = p /\ s = j + 1
    <3>1. w[p].key = "ext" /\ w[p].data = TextOf(d.ext_data)
      BY <1>2 DEF BodyLines, IsLine
    <3>2. p # 0
      BY <1>1
    <3>3. disc.ext_data = Read(SubSeq(TextOf(d.ext_data), 1, k))
      BY <1>4, <2>2 DEF ExtRead
    <3> HIDE DEF p
    <3>4. k = Len(TextOf(d.ext_data))
      BY <1>1, <2>2, <3>1, <3>2 DEF Textual
    <3>5. d.ext_data \in Texts
      BY <1>3, WritableIs, DiscFields
    <3>. QED
      BY <3>3, <3>4, <3>5, ExtDone
  <2>3. s > p => j > p \/ (j = p /\ s = j + 1)
    BY <1>1
  <2>. QED
    BY <2>1, <2>2, <2>3
<1>9. ASSUME NEW i \in 1..n, s > 2 * n + 9 + y + i
      PROVE  disc.tracks[i].ext_data = Read(d.tracks[i].ext_data)
  <2> DEFINE p == 2 * n + 9 + y + i
             e == d.tracks[i].ext_data
  <2>1. CASE j > p
    BY <1>4, <2>1 DEF TrackExtsRead
  <2>2. CASE j = p /\ s = j + 1
    <3>1. w[p].key = "extt" /\ w[p].data = TextOf(e)
      BY <1>2 DEF BodyLines, IsLine
    <3>2. p # 0
      BY <1>1
    <3>3. disc.tracks[i].ext_data = Read(SubSeq(TextOf(e), 1, k))
      BY <1>4, <2>2 DEF TrackExtsRead
    <3> HIDE DEF p
    <3>4. k = Len(TextOf(e))
      BY <1>1, <2>2, <3>1, <3>2 DEF Textual
    <3>5. e \in Texts
      BY <1>3, TrackIs
    <3>. QED
      BY <3>3, <3>4, <3>5, ExtDone
  <2>3. j > p \/ (j = p /\ s = j + 1)
    BY <1>1, <1>9
  <2>. QED
    BY <2>1, <2>2, <2>3
<1>. QED
  BY <1>5, <1>6, <1>7, <1>8, <1>9 DEF Behind

\* Where the parser is when it reads a line of the header.
LEMMA HeaderStates ==
  ASSUME NEW d, NEW n, NEW y, NEW w, NEW j, NEW k, NEW s, NEW f, NEW m,
         Stands(d, n, y, w, j, k, s, f, m), s <= n + 8
  PROVE  /\ s <= 2 => state = "start" /\ track_no = 0
         /\ 3 <= s /\ s <= n + 2 => state = "offsets" /\ track_no = s - 3
         /\ s = n + 3 => state = "offsets"
         /\ s = n + 4 => state = "length"
         /\ s = n + 5 \/ s = n + 6 => state = "revision"
         /\ s = n + 7 \/ s = n + 8 => state = "title"
         /\ s < n + 8 => s = j + 1
         /\ s = j + 1 => multi_line = "none"
         /\ old_no = -1
<1>1. /\ n \in Nat /\ n >= 1 /\ y \in Nat /\ j \in Nat /\ s \in Nat /\ 1 <= s
      /\ ((s = j /\ s >= n + 8) \/ s = j + 1)
  BY StandsFacts
<1>2. Parser(n, y, w, j)
  BY StandsFacts DEF Progress
<1>3. /\ j <= 1 => state = "start" /\ track_no = 0
      /\ 2 <= j /\ j <= n + 2 => state = "offsets" /\ track_no = j - 2
      /\ j = n + 3 => state = "length"
      /\ n + 4 <= j /\ j <= n + 5 => state = "revision"
      /\ n + 6 <= j /\ j <= n + 8 => state = "title"
      /\ j < n + 8 => multi_line = "none"
      /\ j < n + 9 + y => old_no = -1
  BY <1>2 DEF Parser
<1>4. s < n + 8 => s = j + 1
  BY <1>1
<1>5. s <= 2 => j <= 1
  BY <1>1
<1>6. 3 <= s /\ s <= n + 2 => 2 <= j /\ j <= n + 2 /\ j - 2 = s - 3
  BY <1>1
<1>7. /\ s = n + 3 => 2 <= j /\ j <= n + 2
      /\ s = n + 4 => j = n + 3
      /\ s = n + 5 \/ s = n + 6 => n + 4 <= j /\ j <= n + 5
      /\ s = n + 7 \/ s = n + 8 => n + 6 <= j /\ j <= n + 8
      /\ s = j + 1 => j < n + 8
      /\ j < n + 9 + y
  BY <1>1
<1>. QED
  BY <1>3, <1>4, <1>5, <1>6, <1>7

\* Before the title, only the header has been read.
LEMMA HeaderTold ==
  ASSUME NEW d, NEW n \in Nat, NEW y \in Nat, NEW w, NEW j \in Nat, NEW k, NEW s \in Nat, NEW m,
         Told(d, n, y, w, j, k), j <= s, s < n + 9, j < n + 9,
         rec' = rec, before' = before, disc'.year = disc.year, disc'.genre = disc.genre,
         HeaderRead(d, n, s)', OthersStay(n)', DiscNameRead(d, n, s, m)'
  PROVE  Told(d, n, y, w, s, m)'
<1>1. disc.year = before.year /\ disc.genre = before.genre
  BY DEF Told, YearRead, GenreRead
<1>2. YearRead(d, n, y, s)' /\ GenreRead(n, y, w, s)'
  BY <1>1 DEF YearRead, GenreRead
<1>3. \A i \in 1..n : s < n + 8 + y + i /\ s < 2 * n + 9 + y /\ s < 2 * n + 9 + y + i
  OBVIOUS
<1>4. TrackNamesRead(d, n, y, s, m)' /\ TrackExtsRead(d, n, y, s, m)'
  BY <1>3 DEF TrackNamesRead, TrackExtsRead
<1>5. ExtRead(d, n, y, s, m)'
  <2>1. s < 2 * n + 9 + y
    OBVIOUS
  <2>. QED
    BY <2>1 DEF ExtRead
<1>. QED
  BY <1>2, <1>4, <1>5 DEF Told

\* Where the parser is behind a line of the header.
LEMMA HeaderParser ==
  ASSUME NEW n \in Nat, n >= 1, NEW y \in Nat, NEW w, NEW s \in Nat, s <= n + 8,
         s <= 1 => state' = "start" /\ track_no' = 0,
         2 <= s /\ s <= n + 2 => state' = "offsets" /\ track_no' = s - 2,
         s = n + 3 => state' = "length",
         n + 4 <= s /\ s <= n + 5 => state' = "revision",
         n + 6 <= s => state' = "title",
         s < n + 8 => multi_line' = "none", old_no' = -1
  PROVE  Parser(n, y, w, s)'
<1>1. /\ ~(y = 2 /\ s = n + 9) /\ ~(y = 2 /\ s = n + 10) /\ ~(n + 8 + y < s) /\ ~(s = 2 * n + 9 + y)
      /\ ~(2 * n + 9 + y < s) /\ ~(s = 3 * n + 10 + y)
  OBVIOUS
<1>. QED
  BY <1>1 DEF Parser

\* cddb_parse_record, cases STATE_START and STATE_TRACK_OFFSETS.
LEMMA StartStep ==
  ASSUME TypeInv, Reading,
         NEW d, NEW n, NEW y, NEW w, NEW j, NEW k, NEW s, NEW f, NEW m,
         Stands(d, n, y, w, j, k, s, f, m), s <= 2
  PROVE  Progress(d, n, y, w, s, m)'
<1>1. n \in Nat /\ n >= 1 /\ y \in Nat /\ j \in Nat /\ s \in Nat /\ 1 <= s /\ s = j + 1 /\ s <= n + 8
      /\ Given(d, n, y, w) /\ line.key = w[s].key /\ Progress(d, n, y, w, j, k)
  BY StandsFacts, HeaderStates
<1>2. state = "start" /\ track_no = 0 /\ multi_line = "none" /\ old_no = -1
  BY <1>1, HeaderStates
<1>3. HeaderStart
  BY <1>2, HeaderActs
<1>4. w[1].key = "other" /\ w[2].key = "offsets"
  BY <1>1, LinesAre DEF HeaderLines
<1>5. state' = IF s = 2 THEN "offsets" ELSE "start"
  BY <1>1, <1>3, <1>4 DEF HeaderStart
<1>6. /\ disc' = disc /\ multi_line' = multi_line /\ track_no' = track_no /\ old_no' = old_no
      /\ rec' = rec /\ before' = before
  BY <1>3 DEF HeaderStart, Takes, history
<1>7. Parser(n, y, w, s)'
  BY <1>1, <1>2, <1>5, <1>6, HeaderParser
<1>8. Told(d, n, y, w, j, k)
  BY <1>1 DEF Progress
<1>9. HeaderRead(d, n, s)'
  <2>1. Got(n, s) = 0 /\ Got(n, j) = 0 /\ (\A i \in 1..n : ~(2 + i <= s)) /\ ~(n + 4 <= s) /\ ~(n + 6 <= s)
    BY <1>1 DEF Got
  <2>. QED
    BY <1>6, <1>8, <2>1 DEF Told, HeaderRead
<1>10. OthersStay(n)' /\ DiscNameRead(d, n, s, m)'
  <2>1. s < n + 8
    BY <1>1
  <2>. QED
    BY <1>1, <1>6, <1>8, <2>1 DEF Told, OthersStay, DiscNameRead
<1>11. Told(d, n, y, w, s, m)'
  BY <1>1, <1>6, <1>8, <1>9, <1>10, HeaderTold
<1>. QED
  BY <1>7, <1>11 DEF Progress

\* The offset of a track, which is there already or is added.
LEMMA OffsetStep ==
  ASSUME TypeInv, Reading,
         NEW d, NEW n, NEW y, NEW w, NEW j, NEW k, NEW s, NEW f, NEW m,
         Stands(d, n, y, w, j, k, s, f, m), 3 <= s, s <= n + 2
  PROVE  Progress(d, n, y, w, s, m)'
<1> DEFINE i == s - 2
<1>1. n \in Nat /\ n >= 1 /\ y \in Nat /\ j \in Nat /\ s \in Nat /\ 1 <= s /\ s = j + 1 /\ s <= n + 8
      /\ Given(d, n, y, w) /\ line.key = w[s].key /\ Progress(d, n, y, w, j, k)
  BY StandsFacts, HeaderStates
<1>2. state = "offsets" /\ track_no = s - 3 /\ multi_line = "none" /\ old_no = -1
  BY <1>1, HeaderStates
<1>3. i \in 1..n /\ 2 + i = s /\ track_no + 1 = i /\ i \in Nat
  BY <1>1, <1>2
<1>4. line.key = "offset" /\ line.data = d.tracks[i].frame_offset
  <2>1. IsLine(w[2 + i], "offset", 0, d.tracks[i].frame_offset)
    BY <1>1, <1>3, LinesAre DEF HeaderLines
  <2>2. line.key \notin Textual => line.data = w[s].data
    BY DEF Stands
  <2>. QED
    BY <1>1, <1>3, <2>1, <2>2 DEF IsLine, Textual
<1>5. HeaderOffset
  BY <1>2, <1>4, HeaderActs
<1>6. /\ state' = state /\ track_no' = track_no + 1 /\ multi_line' = multi_line /\ old_no' = old_no
      /\ rec' = rec /\ before' = before
  BY <1>5 DEF HeaderOffset, Takes, history
<1>7. Parser(n, y, w, s)'
  <2>1. track_no' = s - 2
    BY <1>1, <1>2, <1>6
  <2>. QED
    BY <1>1, <1>2, <1>6, <2>1, HeaderParser
<1>8. Told(d, n, y, w, j, k)
  BY <1>1 DEF Progress
<1>9. /\ TracksApart(disc', disc)
      /\ track_no < Len(disc.tracks) => Len(disc'.tracks) = Len(disc.tracks)
      /\ track_no >= Len(disc.tracks) => Len(disc'.tracks) = Len(disc.tracks) + 1
      /\ disc'.tracks[i].frame_offset = line.data
      /\ \A q \in 1..Len(disc.tracks) : q # i => disc'.tracks[q] = disc.tracks[q]
      /\ Len(disc.tracks) \in Nat
  BY <1>3, <1>5, HeaderOffsetMakes, TypeFacts
<1>10. Len(before.tracks) \in Nat
  BY TypeFacts, DiscFields
<1> HIDE DEF i
<1>11. Got(n, s) = i /\ Got(n, j) = i - 1 /\ i \in Nat /\ track_no = i - 1
  BY <1>1, <1>3, <1>2 DEF Got
<1>12. /\ Len(disc.tracks) = IF Len(before.tracks) > i - 1 THEN Len(before.tracks) ELSE i - 1
       /\ \A q \in 1..n : 2 + q <= j => disc.tracks[q].frame_offset = d.tracks[q].frame_offset
  BY <1>8, <1>11 DEF Told, HeaderRead
<1>13. Len(disc'.tracks) = IF Len(before.tracks) > i THEN Len(before.tracks) ELSE i
  BY <1>3, <1>9, <1>10, <1>11, <1>12
<1>14. ASSUME NEW q \in 1..n, 2 + q <= s
       PROVE  disc'.tracks[q].frame_offset = d.tracks[q].frame_offset
  <2>1. CASE q = i
    BY <1>4, <1>9, <2>1
  <2>2. CASE q # i
    <3>1. 2 + q <= j /\ q \in 1..Len(disc.tracks)
      BY <1>1, <1>3, <1>10, <1>12, <1>14, <2>2
    <3>. QED
      BY <1>9, <1>12, <2>2, <3>1
  <2>. QED
    BY <2>1, <2>2
<1>15. HeaderRead(d, n, s)'
  <2>1. ~(n + 4 <= s) /\ ~(n + 6 <= s)
    BY <1>1
  <2>. QED
    BY <1>6, <1>11, <1>13, <1>14, <2>1 DEF HeaderRead
<1>16. OthersStay(n)'
  <2>1. OthersStay(n)
    BY <1>8 DEF Told
  <2> SUFFICES ASSUME NEW q \in (n + 1)..Len(disc'.tracks) PROVE disc'.tracks[q] = before.tracks[q]
    BY <1>6 DEF OthersStay
  <2>2. q # i /\ q \in 1..Len(disc.tracks) /\ q \in (n + 1)..Len(disc.tracks)
    BY <1>1, <1>3, <1>9, <1>10, <1>11, <1>12, <1>13
  <2>. QED
    BY <1>9, <2>1, <2>2 DEF OthersStay
<1>17. DiscNameRead(d, n, s, m)'
  BY <1>1 DEF DiscNameRead
<1>18. disc'.year = disc.year /\ disc'.genre = disc.genre
  BY <1>9 DEF TracksApart
<1>19. Told(d, n, y, w, s, m)'
  <2>1. j <= s /\ s < n + 9 /\ j < n + 9
    BY <1>1
  <2>. QED
    BY <1>1, <1>6, <1>8, <1>15, <1>16, <1>17, <1>18, <2>1, HeaderTold
<1>. QED
  BY <1>7, <1>19 DEF Progress

\* A line of the header behind the offsets gives the length, the revision or nothing.
LEMMA NumberTold ==
  ASSUME TypeInv, NEW d, NEW n, NEW y, NEW w, NEW j, NEW k, NEW s, NEW f, NEW m,
         Stands(d, n, y, w, j, k, s, f, m), n + 3 <= s, s <= n + 7,
         rec' = rec, before' = before, disc'.tracks = disc.tracks,
         disc'.year = disc.year, disc'.genre = disc.genre,
         s = n + 4 => disc'.length = d.length, s # n + 4 => disc'.length = disc.length,
         s = n + 6 => disc'.revision = d.revision, s # n + 6 => disc'.revision = disc.revision
  PROVE  Told(d, n, y, w, s, m)'
<1>1. /\ n \in Nat /\ n >= 1 /\ y \in Nat /\ j \in Nat /\ s \in Nat /\ s = j + 1
      /\ Progress(d, n, y, w, j, k)
  BY StandsFacts, HeaderStates
<1>2. Told(d, n, y, w, j, k)
  BY <1>1 DEF Progress
<1>3. Got(n, s) = n /\ Got(n, j) = n /\ (n + 4 <= s => s = n + 4 \/ n + 4 <= j)
      /\ (n + 6 <= s => s = n + 6 \/ n + 6 <= j) /\ (\A i \in 1..n : 2 + i <= j)
  BY <1>1 DEF Got
<1>4. HeaderRead(d, n, j)
  BY <1>2 DEF Told
<1>5. HeaderRead(d, n, s)'
  <2>1. /\ n + 4 <= s => disc'.length = d.length
        /\ n + 6 <= s => disc'.revision = d.revision
    <3>1. n + 4 <= s /\ s # n + 4 => n + 4 <= j
      BY <1>3
    <3>2. n + 6 <= s /\ s # n + 6 => n + 6 <= j
      BY <1>3
    <3>. QED
      BY <1>4, <3>1, <3>2 DEF HeaderRead
  <2>2. \A i \in 1..n : disc'.tracks[i].frame_offset = d.tracks[i].frame_offset
    BY <1>3, <1>4 DEF HeaderRead
  <2>3. Len(disc'.tracks) = IF Len(before.tracks) > n THEN Len(before.tracks) ELSE n
    BY <1>3, <1>4 DEF HeaderRead
  <2>. QED
    BY <1>3, <2>1, <2>2, <2>3 DEF HeaderRead
<1>6. OthersStay(n)'
  BY <1>2 DEF Told, OthersStay
<1>7. DiscNameRead(d, n, s, m)'
  BY <1>1 DEF DiscNameRead
<1>8. j <= s /\ s < n + 9 /\ j < n + 9
  BY <1>1
<1>. QED
  BY <1>1, <1>2, <1>5, <1>6, <1>7, <1>8, HeaderTold

\* Cases STATE_DISC_LENGTH and STATE_DISC_REVISION, and a comment before the title.
LEMMA NumberStep ==
  ASSUME TypeInv, Reading,
         NEW d, NEW n, NEW y, NEW w, NEW j, NEW k, NEW s, NEW f, NEW m,
         Stands(d, n, y, w, j, k, s, f, m), n + 3 <= s, s <= n + 7
  PROVE  Progress(d, n, y, w, s, m)'
<1>1. /\ n \in Nat /\ n >= 1 /\ y \in Nat /\ j \in Nat /\ s \in Nat /\ s = j + 1 /\ s <= n + 8
      /\ Given(d, n, y, w) /\ line.key = w[s].key /\ Progress(d, n, y, w, j, k)
      /\ multi_line = "none" /\ old_no = -1
  <2>1. /\ n \in Nat /\ n >= 1 /\ y \in Nat /\ j \in Nat /\ s \in Nat
        /\ Given(d, n, y, w) /\ line.key = w[s].key /\ Progress(d, n, y, w, j, k)
    BY StandsFacts
  <2>2. \/ s = j /\ f = k /\ w[s].key \in Textual /\ s >= n + 8
        \/ s = j + 1 /\ f = 0
    BY StandsFacts
  <2>3. s < n + 8 /\ s <= n + 8 /\ s = j + 1
    BY <2>1, <2>2
  <2>4. multi_line = "none" /\ old_no = -1
    BY <2>3, HeaderStates
  <2>. QED
    BY <2>1, <2>3, <2>4
<1>2. line.key \notin Textual => line.data = w[s].data
  BY DEF Stands
<1>3. HeaderLines(d, n, w)
  BY <1>1, LinesAre
<1>4. Takes /\ rec' = rec /\ before' = before
  BY ReadingTypes DEF Takes, history
<1>5. disc \in DiscData /\ AllUndivided(disc)
  BY TypeFacts DEF Good
<1>6. CASE s = n + 3
  <2>1. state = "offsets" /\ line.key = "other"
    BY <1>1, <1>3, <1>6, HeaderStates DEF HeaderLines
  <2>2. HeaderLength
    BY <2>1, HeaderActs
  <2>3. state' = "length" /\ disc' = disc /\ multi_line' = multi_line /\ old_no' = old_no
    BY <2>1, <2>2 DEF HeaderLength
  <2>4. Parser(n, y, w, s)'
    <3>1. ~(s <= 1) /\ ~(s <= n + 2) /\ ~(n + 4 <= s) /\ ~(n + 6 <= s)
      BY <1>1, <1>6
    <3>. QED
      BY <1>1, <2>3, <3>1, HeaderParser
  <2>5. Told(d, n, y, w, s, m)'
    <3>1. s # n + 4 /\ s # n + 6
      BY <1>1, <1>6
    <3>. QED
      BY <1>4, <2>3, <3>1, NumberTold
  <2>. QED
    BY <2>4, <2>5 DEF Progress
<1>7. CASE s = n + 4
  <2>1. state = "length" /\ line.key = "length" /\ line.data = d.length
    <3>1. w[s].key = "length" /\ w[s].data = d.length
      BY <1>3, <1>7 DEF HeaderLines, IsLine
    <3>. QED
      BY <1>1, <1>2, <1>7, <3>1, HeaderStates DEF Textual
  <2>2. HeaderLength
    BY <2>1, HeaderActs
  <2>3. /\ state' = "revision" /\ disc' = [disc EXCEPT !.length = line.data]
        /\ multi_line' = multi_line /\ old_no' = old_no
    BY <2>1, <2>2 DEF HeaderLength
  <2>4. Parser(n, y, w, s)'
    <3>1. ~(s <= 1) /\ ~(s <= n + 2) /\ s # n + 3 /\ ~(n + 6 <= s)
      BY <1>1, <1>7
    <3>. QED
      BY <1>1, <2>3, <3>1, HeaderParser
  <2>5. line.data \in Nat
    BY <2>1, LineTypes
  <2>6. /\ disc'.length = d.length /\ disc'.revision = disc.revision /\ disc'.year = disc.year
        /\ disc'.genre = disc.genre /\ disc'.tracks = disc.tracks
    BY <1>5, <2>1, <2>3, <2>5, LengthGiven
  <2>7. Told(d, n, y, w, s, m)'
    <3>1. s # n + 6
      BY <1>1, <1>7
    <3>. QED
      BY <1>4, <1>7, <2>6, <3>1, NumberTold
  <2>. QED
    BY <2>4, <2>7 DEF Progress
<1>8. CASE s = n + 5
  <2>1. state = "revision" /\ line.key = "other"
    BY <1>1, <1>3, <1>8, HeaderStates DEF HeaderLines
  <2>2. HeaderRevision
    BY <2>1, HeaderActs
  <2>3. state' = "revision" /\ disc' = disc /\ multi_line' = multi_line /\ old_no' = old_no
    BY <2>1, <2>2 DEF HeaderRevision
  <2>4. Parser(n, y, w, s)'
    <3>1. ~(s <= 1) /\ ~(s <= n + 2) /\ s # n + 3 /\ ~(n + 6 <= s)
      BY <1>1, <1>8
    <3>. QED
      BY <1>1, <2>3, <3>1, HeaderParser
  <2>5. Told(d, n, y, w, s, m)'
    <3>1. s # n + 4 /\ s # n + 6
      BY <1>1, <1>8
    <3>. QED
      BY <1>4, <2>3, <3>1, NumberTold
  <2>. QED
    BY <2>4, <2>5 DEF Progress
<1>9. CASE s = n + 6
  <2>1. state = "revision" /\ line.key = "revision" /\ line.data = d.revision
    <3>1. w[s].key = "revision" /\ w[s].data = d.revision
      BY <1>3, <1>9 DEF HeaderLines, IsLine
    <3>. QED
      BY <1>1, <1>2, <1>9, <3>1, HeaderStates DEF Textual
  <2>2. HeaderRevision
    BY <2>1, HeaderActs
  <2>3. /\ state' = "title" /\ disc' = [disc EXCEPT !.revision = line.data]
        /\ multi_line' = multi_line /\ old_no' = old_no
    BY <2>1, <2>2 DEF HeaderRevision
  <2>4. Parser(n, y, w, s)'
    <3>1. ~(s <= 1) /\ ~(s <= n + 2) /\ s # n + 3 /\ ~(s <= n + 5)
      BY <1>1, <1>9
    <3>. QED
      BY <1>1, <2>3, <3>1, HeaderParser
  <2>5. line.data \in Nat
    BY <2>1, LineTypes
  <2>6. /\ disc'.length = disc.length /\ disc'.revision = d.revision /\ disc'.year = disc.year
        /\ disc'.genre = disc.genre /\ disc'.tracks = disc.tracks
    BY <1>5, <2>1, <2>3, <2>5, RevisionGiven
  <2>7. Told(d, n, y, w, s, m)'
    <3>1. s # n + 4
      BY <1>1, <1>9
    <3>. QED
      BY <1>4, <1>9, <2>6, <3>1, NumberTold
  <2>. QED
    BY <2>4, <2>7 DEF Progress
<1>10. CASE s = n + 7
  <2>1. state = "title" /\ line.key = "other"
    BY <1>1, <1>3, <1>10, HeaderStates DEF HeaderLines
  <2>2. SkipToTitle
    BY <1>1, <2>1, HeaderActs
  <2>3. state' = "title" /\ disc' = disc /\ multi_line' = multi_line /\ old_no' = old_no
    BY <2>1, <2>2 DEF SkipToTitle
  <2>4. Parser(n, y, w, s)'
    <3>1. ~(s <= 1) /\ ~(s <= n + 2) /\ s # n + 3 /\ ~(s <= n + 5)
      BY <1>1, <1>10
    <3>. QED
      BY <1>1, <2>3, <3>1, HeaderParser
  <2>5. Told(d, n, y, w, s, m)'
    <3>1. s # n + 4 /\ s # n + 6
      BY <1>1, <1>10
    <3>. QED
      BY <1>4, <2>3, <3>1, NumberTold
  <2>. QED
    BY <2>4, <2>5 DEF Progress
<1>. QED
  BY <1>1, <1>6, <1>7, <1>8, <1>9, <1>10

\* Case STATE_DISC_TITLE: a part of artist and title.
LEMMA TitleStep ==
  ASSUME TypeInv, Reading,
         NEW d, NEW n, NEW y, NEW w, NEW j, NEW k, NEW s, NEW f, NEW m,
         Stands(d, n, y, w, j, k, s, f, m), s = n + 8
  PROVE  Progress(d, n, y, w, s, m)'
<1> DEFINE a == d.artist
           t == d.title
           u == w[n + 8].data
<1>1. /\ n \in Nat /\ n >= 1 /\ y \in Nat /\ j \in Nat /\ s \in Nat /\ s <= n + 8
      /\ Given(d, n, y, w) /\ line.key = w[s].key /\ Progress(d, n, y, w, j, k)
      /\ old_no = -1 /\ state = "title" /\ f \in Nat /\ m \in Nat /\ k \in Nat
      /\ ((s = j /\ f = k) \/ (s = j + 1 /\ f = 0 /\ multi_line = "none"))
  BY StandsFacts, HeaderStates
<1>2. line.key = "title" /\ IsName(u, a, t) /\ HeaderLines(d, n, w)
  <2>1. HeaderLines(d, n, w)
    BY <1>1, LinesAre
  <2>2. w[n + 8].key = "title" /\ IsName(u, a, t)
    BY <2>1 DEF HeaderLines
  <2>. QED
    BY <1>1, <2>1, <2>2
<1>3. f <= m /\ m <= Len(u) /\ line.data = SubSeq(u, f + 1, m)
  BY <1>2 DEF Stands, Textual
<1>4. DiscTitle
  BY <1>1, <1>2, HeaderActs
<1>5. /\ rec' = rec /\ before' = before /\ state' = state /\ old_no' = old_no
  BY <1>4 DEF DiscTitle, Takes, history
<1>6. Told(d, n, y, w, j, k)
  BY <1>1 DEF Progress
<1>7. a \in Seq(Words) /\ t \in Seq(Words) /\ Undivided(a) /\ Undivided(t) /\ Len(a) \in Nat
  BY <1>1, WritableIs DEF Given
<1>8. /\ HasName(HadArtist, HadTitle, a, t, f)
      /\ multi_line = "title" <=> Len(a) < f
  <2>1. CASE s = j /\ f = k
    <3>1. DiscNameRead(d, n, j, k) /\ j = n + 8
      BY <1>6, <2>1 DEF Told
    <3>2. NameRead(disc.artist, disc.title, a, t, f)
          /\ multi_line = IF f <= Len(a) THEN "artist" ELSE "title"
      BY <2>1, <3>1 DEF DiscNameRead
    <3>3. multi_line # "none" /\ (multi_line = "title" <=> Len(a) < f)
      BY <1>1, <1>7, <3>2
    <3>. QED
      BY <3>2, <3>3 DEF HasName, NameRead, HasCome, HadArtist, HadTitle
  <2>2. CASE f = 0 /\ multi_line = "none"
    <3>1. f <= Len(a) /\ ~(Len(a) < f)
      BY <1>7, <2>2
    <3>. QED
      BY <2>2, <3>1 DEF HasName, HasCome, HadArtist, HadTitle
  <2>. QED
    BY <1>1, <2>1, <2>2
<1>9. OneSlash(line.data)
  BY <1>2, TextOfLine
<1>10. NamesApart(disc', disc)
       /\ (Split(line.data) => /\ disc'.artist = Extended(HadArtist, BeforeSlash(line.data))
                               /\ disc'.title = Extended(HadTitle, AfterSlash(line.data))
                               /\ multi_line' = "title")
       /\ (~Split(line.data) /\ multi_line = "title" =>
              /\ disc'.artist = HadArtist /\ disc'.title = Extended(HadTitle, line.data)
              /\ multi_line' = "title")
       /\ (~Split(line.data) /\ multi_line # "title" =>
              /\ disc'.artist = Extended(HadArtist, line.data) /\ disc'.title = HadTitle
              /\ multi_line' = "artist")
  BY <1>4, DiscTitleMakes
<1>11. NameRead(disc'.artist, disc'.title, a, t, m) /\ (Split(line.data) \/ Len(a) < f <=> Len(a) < m)
  <2> DEFINE data == line.data
             newA == disc'.artist
             newT == disc'.title
             hadA == HadArtist
             hadT == HadTitle
  <2>1. TakesName(data, hadA, hadT, newA, newT, a, f)
    <3>1. f <= Len(a) => ~(Len(a) < f)
      BY <1>1, <1>7
    <3>. QED
      BY <1>8, <1>10, <3>1 DEF TakesName
  <2>2. HasName(hadA, hadT, a, t, f) /\ IsPart(data, u, f, m) /\ IsName(u, a, t)
    BY <1>1, <1>2, <1>3, <1>8, <1>9 DEF IsPart
  <2>4. a \in Seq(Words) /\ t \in Seq(Words) /\ Undivided(a) /\ Undivided(t)
    BY <1>7
  <2> HIDE DEF data, newA, newT, hadA, hadT, a, t, u
  <2>3. NameRead(newA, newT, a, t, m) /\ (Split(data) \/ Len(a) < f <=> Len(a) < m)
    BY <2>1, <2>2, <2>4, NameStep
  <2>. QED
    BY <2>3 DEF data, newA, newT
<1>12. multi_line' = IF m <= Len(a) THEN "artist" ELSE "title"
  <2>1. m <= Len(a) <=> ~(Len(a) < m)
    BY <1>1, <1>7
  <2>. QED
    BY <1>8, <1>10, <1>11, <2>1
<1>13. DiscNameRead(d, n, s, m)'
  BY <1>1, <1>11, <1>12 DEF DiscNameRead
<1>14. HeaderRead(d, n, s)'
  <2>1. Got(n, s) = n /\ Got(n, j) = n /\ n + 4 <= s /\ n + 4 <= j /\ n + 6 <= j /\ n + 6 <= s
        /\ \A i \in 1..n : 2 + i <= j
    BY <1>1 DEF Got
  <2>2. HeaderRead(d, n, j)
    BY <1>6 DEF Told
  <2>3. disc'.tracks = disc.tracks /\ disc'.length = disc.length /\ disc'.revision = disc.revision
    BY <1>10 DEF NamesApart
  <2>. QED
    BY <1>5, <2>1, <2>2, <2>3 DEF HeaderRead
<1>15. OthersStay(n)' /\ disc'.year = disc.year /\ disc'.genre = disc.genre
  BY <1>5, <1>6, <1>10 DEF Told, OthersStay, NamesApart
<1>16. Told(d, n, y, w, s, m)'
  <2>1. j <= s /\ s < n + 9 /\ j < n + 9
    BY <1>1
  <2>. QED
    BY <1>1, <1>5, <1>6, <1>13, <1>14, <1>15, <2>1, HeaderTold
<1>17. Parser(n, y, w, s)'
  <2>1. ~(s <= 1) /\ ~(s <= n + 2) /\ s # n + 3 /\ ~(s <= n + 5) /\ ~(s < n + 8)
    BY <1>1
  <2>. QED
    BY <1>1, <1>5, <2>1, HeaderParser
<1>. QED
  BY <1>16, <1>17 DEF Progress

----------------------------------------------------------------------------
(* The lines behind the title.                                             *)

\* Where the parser is when it reads one of them.
BodyState(n, y, j, s) ==
  /\ y = 2 /\ s = n + 9 => s = j + 1 /\ state = "title" /\ multi_line = "title" /\ old_no = -1
  /\ y = 2 /\ s = n + 10 => old_no = -1 /\ state = IF s = j THEN "ttitle" ELSE "genre"
  /\ n + 8 + y < s /\ s < 2 * n + 9 + y =>
       /\ state \in {"title", "genre", "ttitle"} /\ (state = "title" => multi_line = "title")
       /\ old_no = IF s = j THEN s - (n + 9 + y) ELSE s - (n + 10 + y)
  /\ s = 2 * n + 9 + y => IF s = j THEN state = "ext" /\ multi_line = "ext" /\ old_no = -1
                          ELSE state = "ttitle"
  /\ 2 * n + 9 + y < s /\ s < 3 * n + 10 + y =>
       /\ state \in {"ext", "extt"}
       /\ old_no = IF s = j THEN s - (2 * n + 10 + y) ELSE s - (2 * n + 11 + y)
  /\ s = 3 * n + 10 + y => state = "extt"

\* The state behind the header, by the line that was read last.
LEMMA BodyStates ==
  ASSUME NEW d, NEW n, NEW y, NEW w, NEW j, NEW k, NEW s, NEW f, NEW m,
         Stands(d, n, y, w, j, k, s, f, m), s >= n + 9
  PROVE  BodyState(n, y, j, s)
<1>1. /\ n \in Nat /\ n >= 1 /\ y \in Nat /\ y \in {0, 2} /\ j \in Nat /\ s \in Nat
      /\ s <= 3 * n + 10 + y /\ ((s = j /\ w[s].key \in Textual) \/ s = j + 1)
      /\ Given(d, n, y, w)
  BY StandsFacts
<1>2. Parser(n, y, w, j)
  BY StandsFacts DEF Progress
<1>3. BodyLines(d, n, y, w)
  BY <1>1, LinesAre
<1>4. y = 2 => w[n + 9].key \notin Textual /\ (w[n + 10].key \in Textual => w[n + 10].key = "genre")
  BY <1>3 DEF BodyLines, IsLine, Textual
<1>5. w[3 * n + 10 + y].key \notin Textual
  BY <1>3 DEF BodyLines, Textual
<1>6. s = n + 9 /\ s = j + 1 => multi_line = "title"
  BY BehindIs
<1>7. /\ n + 6 <= j /\ j <= n + 8 => state = "title"
      /\ j < n + 9 + y => old_no = -1
      /\ y = 2 /\ j = n + 9 => state = "genre"
      /\ y = 2 /\ j = n + 10 => state = IF w[j].key = "genre" THEN "ttitle" ELSE "genre"
      /\ n + 8 + y < j /\ j < 2 * n + 9 + y => state = "ttitle" /\ old_no = j - (n + 9 + y)
      /\ j = 2 * n + 9 + y => state = "ext" /\ multi_line = "ext" /\ old_no = -1
      /\ 2 * n + 9 + y < j /\ j < 3 * n + 10 + y => state = "extt" /\ old_no = j - (2 * n + 10 + y)
  BY <1>2 DEF Parser
<1>8. y = 2 /\ s = n + 9 => s = j + 1 /\ state = "title" /\ multi_line = "title" /\ old_no = -1
  <2> SUFFICES ASSUME y = 2, s = n + 9
               PROVE  s = j + 1 /\ state = "title" /\ multi_line = "title" /\ old_no = -1
    OBVIOUS
  <2>1. s = j + 1
    BY <1>1, <1>4
  <2>2. n + 6 <= j /\ j <= n + 8 /\ j < n + 9 + y
    BY <1>1, <2>1
  <2>. QED
    BY <1>6, <1>7, <2>1, <2>2
<1>9. y = 2 /\ s = n + 10 => old_no = -1 /\ state = IF s = j THEN "ttitle" ELSE "genre"
  <2> SUFFICES ASSUME y = 2, s = n + 10
               PROVE  old_no = -1 /\ state = IF s = j THEN "ttitle" ELSE "genre"
    OBVIOUS
  <2>1. j < n + 9 + y
    BY <1>1
  <2>2. CASE s = j
    <3>1. w[j].key \in Textual \/ s = j + 1
      BY <1>1, <2>2
    <3>2. w[j].key = "genre"
      BY <1>1, <1>4, <2>2, <3>1
    <3>. QED
      BY <1>7, <2>1, <2>2, <3>2
  <2>3. CASE s # j
    <3>1. j = n + 9
      BY <1>1, <2>3
    <3>. QED
      BY <1>7, <2>1, <2>3, <3>1
  <2>. QED
    BY <2>2, <2>3
<1>10. n + 8 + y < s /\ s < 2 * n + 9 + y =>
         /\ state \in {"title", "genre", "ttitle"} /\ (state = "title" => multi_line = "title")
         /\ old_no = IF s = j THEN s - (n + 9 + y) ELSE s - (n + 10 + y)
  <2> SUFFICES ASSUME n + 8 + y < s, s < 2 * n + 9 + y
               PROVE  /\ state \in {"title", "genre", "ttitle"} /\ (state = "title" => multi_line = "title")
                      /\ old_no = IF s = j THEN s - (n + 9 + y) ELSE s - (n + 10 + y)
    OBVIOUS
  <2>1. CASE s = j
    BY <1>7, <2>1
  <2>2. CASE s = j + 1 /\ s > n + 9 + y
    <3>1. n + 8 + y < j /\ j < 2 * n + 9 + y /\ s # j /\ j - (n + 9 + y) = s - (n + 10 + y)
      BY <1>1, <2>2
    <3>. QED
      BY <1>7, <3>1
  <2>3. CASE s = j + 1 /\ s = n + 9 + y /\ y = 0
    <3>1. n + 6 <= j /\ j <= n + 8 /\ j < n + 9 + y /\ s # j /\ s - (n + 10 + y) = -1 /\ s = n + 9
      BY <1>1, <2>3
    <3>. QED
      BY <1>6, <1>7, <2>3, <3>1
  <2>4. CASE s = j + 1 /\ s = n + 9 + y /\ y = 2
    <3>1. j = n + 10 /\ j < n + 9 + y /\ s # j /\ s - (n + 10 + y) = -1
      BY <1>1, <2>4
    <3>. QED
      BY <1>7, <2>4, <3>1
  <2>. QED
    BY <1>1, <2>1, <2>2, <2>3, <2>4
<1>11. s = 2 * n + 9 + y => IF s = j THEN state = "ext" /\ multi_line = "ext" /\ old_no = -1
                            ELSE state = "ttitle"
  <2> SUFFICES ASSUME s = 2 * n + 9 + y
               PROVE  IF s = j THEN state = "ext" /\ multi_line = "ext" /\ old_no = -1
                      ELSE state = "ttitle"
    OBVIOUS
  <2>1. s # j => n + 8 + y < j /\ j < 2 * n + 9 + y
    BY <1>1
  <2>. QED
    BY <1>7, <2>1
<1>12. 2 * n + 9 + y < s /\ s < 3 * n + 10 + y =>
         /\ state \in {"ext", "extt"}
         /\ old_no = IF s = j THEN s - (2 * n + 10 + y) ELSE s - (2 * n + 11 + y)
  <2> SUFFICES ASSUME 2 * n + 9 + y < s, s < 3 * n + 10 + y
               PROVE  /\ state \in {"ext", "extt"}
                      /\ old_no = IF s = j THEN s - (2 * n + 10 + y) ELSE s - (2 * n + 11 + y)
    OBVIOUS
  <2>1. CASE s = j
    BY <1>7, <2>1
  <2>2. CASE s = j + 1 /\ s > 2 * n + 10 + y
    <3>1. 2 * n + 9 + y < j /\ j < 3 * n + 10 + y /\ s # j /\ j - (2 * n + 10 + y) = s - (2 * n + 11 + y)
      BY <1>1, <2>2
    <3>. QED
      BY <1>7, <3>1
  <2>3. CASE s = j + 1 /\ s = 2 * n + 10 + y
    <3>1. j = 2 * n + 9 + y /\ s # j /\ s - (2 * n + 11 + y) = -1
      BY <1>1, <2>3
    <3>. QED
      BY <1>7, <3>1
  <2>. QED
    BY <1>1, <2>1, <2>2, <2>3
<1>13. s = 3 * n + 10 + y => state = "extt"
  <2> SUFFICES ASSUME s = 3 * n + 10 + y PROVE state = "extt"
    OBVIOUS
  <2>1. s = j + 1
    <3>1. w[s].key \notin Textual
      BY <1>5
    <3>. QED
      BY <1>1, <3>1
  <2>2. 2 * n + 9 + y < j /\ j < 3 * n + 10 + y
    BY <1>1, <2>1
  <2>. QED
    BY <1>7, <2>2
<1>. QED
  BY <1>8, <1>9, <1>10, <1>11, <1>12, <1>13 DEF BodyState

\* What such a line leaves alone: everything but the year, the genre, the extended data and
\* one track, of which it leaves the frame offset.
OnlyTrack(q) ==
  /\ rec' = rec /\ before' = before
  /\ disc'.length = disc.length /\ disc'.revision = disc.revision
  /\ disc'.artist = disc.artist /\ disc'.title = disc.title
  /\ Len(disc'.tracks) = Len(disc.tracks)
  /\ \A i \in 1..Len(disc.tracks) :
       /\ disc'.tracks[i].frame_offset = disc.tracks[i].frame_offset
       /\ i # q => disc'.tracks[i] = disc.tracks[i]

\* What line s of w puts into the disc.
Put(d, n, y, s, m) ==
  /\ disc'.ext_data = IF s = 2 * n + 9 + y THEN Read(SubSeq(TextOf(d.ext_data), 1, m)) ELSE disc.ext_data
  /\ \A i \in 1..n :
       /\ s = n + 8 + y + i => TrackNameRead(disc'.tracks[i], d.tracks[i], m)
       /\ s # n + 8 + y + i => /\ disc'.tracks[i].artist = disc.tracks[i].artist
                               /\ disc'.tracks[i].title = disc.tracks[i].title
       /\ disc'.tracks[i].ext_data = IF s = 2 * n + 9 + y + i
                                     THEN Read(SubSeq(TextOf(d.tracks[i].ext_data), 1, m))
                                     ELSE disc.tracks[i].ext_data

\* The tracks there are.
LEMMA TracksThere ==
  ASSUME TypeInv, NEW d, NEW n, NEW y, NEW w, NEW j, NEW k, NEW s, NEW f, NEW m,
         Stands(d, n, y, w, j, k, s, f, m), s >= n + 9
  PROVE  /\ HeaderRead(d, n, j) /\ Len(disc.tracks) \in Nat /\ n <= Len(disc.tracks)
         /\ Got(n, j) = n /\ Got(n, s) = n /\ n + 6 <= j /\ n + 4 <= j /\ \A i \in 1..n : 2 + i <= j
<1>1. n \in Nat /\ n >= 1 /\ y \in Nat /\ j \in Nat /\ s \in Nat /\ j >= n + 8 /\ Progress(d, n, y, w, j, k)
  BY StandsFacts
<1>2. HeaderRead(d, n, j)
  BY <1>1 DEF Progress, Told
<1>3. Got(n, j) = n /\ Got(n, s) = n /\ n + 6 <= j /\ n + 4 <= j /\ \A i \in 1..n : 2 + i <= j
  BY <1>1 DEF Got
<1>4. Len(disc.tracks) \in Nat /\ Len(before.tracks) \in Nat
  BY TypeFacts, DiscFields
<1>5. Len(disc.tracks) = IF Len(before.tracks) > n THEN Len(before.tracks) ELSE n
  BY <1>2, <1>3 DEF HeaderRead
<1>6. n <= Len(disc.tracks)
  BY <1>1, <1>4, <1>5
<1>. QED
  BY <1>2, <1>3, <1>4, <1>6

\* That keeps what has been told.
LEMMA BodyTold ==
  ASSUME TypeInv, NEW d, NEW n, NEW y, NEW w, NEW j, NEW k, NEW s, NEW f, NEW m,
         Stands(d, n, y, w, j, k, s, f, m), s >= n + 9,
         NEW q, q \in 0..n, OnlyTrack(q), Put(d, n, y, s, m),
         YearRead(d, n, y, s)', GenreRead(n, y, w, s)'
  PROVE  Told(d, n, y, w, s, m)'
<1>1. n \in Nat /\ n >= 1 /\ y \in Nat /\ s \in Nat /\ Progress(d, n, y, w, j, k)
  BY StandsFacts
<1>2. Told(d, n, y, w, j, k)
  BY <1>1 DEF Progress
<1>3. Behind(d, n, y, s)
  BY BehindIs
<1>4. /\ HeaderRead(d, n, j) /\ Len(disc.tracks) \in Nat /\ n <= Len(disc.tracks)
      /\ Got(n, j) = n /\ Got(n, s) = n /\ n + 6 <= j /\ n + 4 <= j /\ \A i \in 1..n : 2 + i <= j
  BY TracksThere
<1>5. HeaderRead(d, n, s)'
  <2>1. ASSUME NEW i \in 1..n PROVE disc'.tracks[i].frame_offset = d.tracks[i].frame_offset
    <3>1. i \in 1..Len(disc.tracks)
      BY <1>1, <1>4
    <3>. QED
      BY <1>4, <3>1 DEF HeaderRead, OnlyTrack
  <2>2. disc'.length = d.length /\ disc'.revision = d.revision
    BY <1>4 DEF HeaderRead, OnlyTrack
  <2>3. Len(disc'.tracks) = IF Len(before'.tracks) > n THEN Len(before'.tracks) ELSE n
    BY <1>4 DEF HeaderRead, OnlyTrack
  <2>. QED
    BY <1>4, <2>1, <2>2, <2>3 DEF HeaderRead
<1>6. DiscNameRead(d, n, s, m)'
  <2>1. s # n + 8 /\ s > n + 8
    BY <1>1
  <2>. QED
    BY <1>3, <2>1 DEF DiscNameRead, Behind, OnlyTrack
<1>7. TrackNamesRead(d, n, y, s, m)'
  <2> SUFFICES ASSUME NEW i \in 1..n
               PROVE  /\ s = n + 8 + y + i => TrackNameRead(disc'.tracks[i], d.tracks[i], m)
                      /\ s > n + 8 + y + i => /\ disc'.tracks[i].artist = d.tracks[i].artist
                                              /\ disc'.tracks[i].title = d.tracks[i].title
    BY DEF TrackNamesRead
  <2>1. s > n + 8 + y + i => s # n + 8 + y + i
    BY <1>1
  <2>. QED
    BY <1>3, <2>1 DEF Put, Behind
<1>8. ExtRead(d, n, y, s, m)'
  <2>1. s > 2 * n + 9 + y => s # 2 * n + 9 + y
    BY <1>1
  <2>. QED
    BY <1>3, <2>1 DEF Put, Behind, ExtRead
<1>9. TrackExtsRead(d, n, y, s, m)'
  <2> SUFFICES ASSUME NEW i \in 1..n
               PROVE  /\ s = 2 * n + 9 + y + i =>
                           disc'.tracks[i].ext_data = Read(SubSeq(TextOf(d.tracks[i].ext_data), 1, m))
                      /\ s > 2 * n + 9 + y + i => disc'.tracks[i].ext_data = Read(d.tracks[i].ext_data)
    BY DEF TrackExtsRead
  <2>1. s > 2 * n + 9 + y + i => s # 2 * n + 9 + y + i
    BY <1>1
  <2>. QED
    BY <1>3, <2>1 DEF Put, Behind
<1>10. OthersStay(n)'
  <2>1. OthersStay(n)
    BY <1>2 DEF Told
  <2> SUFFICES ASSUME NEW i \in (n + 1)..Len(disc'.tracks) PROVE disc'.tracks[i] = before'.tracks[i]
    BY DEF OthersStay
  <2>2. Len(disc'.tracks) = Len(disc.tracks)
    BY DEF OnlyTrack
  <2>3. i \in (n + 1)..Len(disc.tracks) /\ i \in 1..Len(disc.tracks) /\ i # q
    BY <1>1, <1>4, <2>2
  <2>. QED
    BY <2>1, <2>3 DEF OthersStay, OnlyTrack
<1>. QED
  BY <1>5, <1>6, <1>7, <1>8, <1>9, <1>10 DEF Told

\* Where no text comes, nothing is put into the disc.
LEMMA NothingPut ==
  ASSUME NEW d, NEW n \in Nat, NEW y \in Nat, NEW s \in Nat, NEW m, n <= Len(disc.tracks),
         Len(disc.tracks) \in Nat,
         OnlyTrack(0), disc'.ext_data = disc.ext_data, s <= n + 8 + y \/ s = 3 * n + 10 + y
  PROVE  Put(d, n, y, s, m)
<1>1. s # 2 * n + 9 + y
  OBVIOUS
<1>2. \A i \in 1..n : s # n + 8 + y + i /\ s # 2 * n + 9 + y + i /\ i \in 1..Len(disc.tracks) /\ i # 0
  OBVIOUS
<1>3. \A i \in 1..n : disc'.tracks[i] = disc.tracks[i]
  BY <1>2 DEF OnlyTrack
<1>. QED
  BY <1>1, <1>2, <1>3 DEF Put

\* Where the parser is behind such a line.
LEMMA BodyParser ==
  ASSUME NEW n \in Nat, n >= 1, NEW y \in Nat, NEW w, NEW s \in Nat, s >= n + 9,
         s < n + 9 + y => old_no' = -1,
         y = 2 /\ s = n + 9 => state' = "genre",
         y = 2 /\ s = n + 10 => state' = IF w[s].key = "genre" THEN "ttitle" ELSE "genre",
         n + 8 + y < s /\ s < 2 * n + 9 + y => state' = "ttitle" /\ old_no' = s - (n + 9 + y),
         s = 2 * n + 9 + y => state' = "ext" /\ multi_line' = "ext" /\ old_no' = -1,
         2 * n + 9 + y < s /\ s < 3 * n + 10 + y => state' = "extt" /\ old_no' = s - (2 * n + 10 + y),
         s = 3 * n + 10 + y => state' = "dot"
  PROVE  Parser(n, y, w, s)'
<1>1. ~(s <= 1) /\ ~(s <= n + 2) /\ s # n + 3 /\ ~(s <= n + 5) /\ ~(s <= n + 8) /\ ~(s < n + 8)
  OBVIOUS
<1>. QED
  BY <1>1 DEF Parser

\* The year and the genre that have been read are not read again.
LEMMA YearStays ==
  ASSUME NEW d, NEW n \in Nat, NEW y \in Nat, NEW w, NEW j \in Nat, NEW k, NEW s \in Nat,
         Told(d, n, y, w, j, k), s = j \/ s = j + 1, ~(y = 2 /\ s = n + 9),
         rec' = rec, before' = before, disc'.year = disc.year
  PROVE  YearRead(d, n, y, s)'
<1>1. y = 2 => (j >= n + 9 <=> s >= n + 9)
  OBVIOUS
<1>2. YearRead(d, n, y, j)
  BY DEF Told
<1>. QED
  BY <1>1, <1>2 DEF YearRead, Has

\* The genre is that of its first line, or the one before the read.
LEMMA GenreStays ==
  ASSUME NEW d, NEW n \in Nat, NEW y \in Nat, NEW w, NEW j \in Nat, NEW k, NEW s \in Nat,
         Told(d, n, y, w, j, k), s = j \/ s = j + 1,
         y = 2 /\ s = n + 10 /\ w[n + 10].key = "genre" => s = j,
         rec' = rec, before' = before, disc'.genre = disc.genre
  PROVE  GenreRead(n, y, w, s)'
<1>1. y = 2 /\ w[n + 10].key = "genre" => (j >= n + 10 <=> s >= n + 10)
  OBVIOUS
<1>2. GenreRead(n, y, w, j)
  BY DEF Told
<1>. QED
  BY <1>1, <1>2 DEF GenreRead, Has, LineOf

\* What is known where such a line is read.
LEMMA BodyFacts ==
  ASSUME TypeInv, Reading,
         NEW d, NEW n, NEW y, NEW w, NEW j, NEW k, NEW s, NEW f, NEW m,
         Stands(d, n, y, w, j, k, s, f, m), s >= n + 9
  PROVE  /\ n \in Nat /\ n >= 1 /\ y \in Nat /\ y \in {0, 2} /\ j \in Nat /\ s \in Nat
         /\ s = j \/ s = j + 1
         /\ Given(d, n, y, w) /\ Writable(d) /\ BodyLines(d, n, y, w) /\ Told(d, n, y, w, j, k)
         /\ BodyState(n, y, j, s)
         /\ rec' = rec /\ before' = before /\ disc \in DiscData /\ AllUndivided(disc)
         /\ EndsTitle \in DiscData /\ AllUndivided(EndsTitle) /\ NamesApart(EndsTitle, disc)
         /\ EndsTitle.artist = disc.artist /\ EndsTitle.title = disc.title
<1>1. /\ n \in Nat /\ n >= 1 /\ y \in Nat /\ y \in {0, 2} /\ j \in Nat /\ s \in Nat
      /\ (s = j \/ s = j + 1)
      /\ Given(d, n, y, w) /\ Progress(d, n, y, w, j, k)
  BY StandsFacts
<1>2. Told(d, n, y, w, j, k)
  BY <1>1 DEF Progress
<1>3. Writable(d) /\ BodyLines(d, n, y, w)
  BY <1>1, LinesAre DEF Given
<1>4. Takes
  BY ReadingTypes
<1>5. rec' = rec /\ before' = before
  BY <1>4 DEF Takes, history
<1>6. disc.title = d.title /\ d.title # Null
  <2>1. s > n + 8
    BY <1>1
  <2>2. disc.title = d.title
    BY <2>1, BehindIs DEF Behind
  <2>. QED
    BY <1>3, <2>2, WritableIs, NullIsNoText
<1>7. Good(disc) /\ Good(EndsTitle) /\ NamesApart(EndsTitle, disc) /\ EndsTitle.artist = disc.artist
      /\ EndsTitle.title = disc.title
  BY <1>6, TypeFacts, EndsTitleIs
<1>. QED
  BY <1>1, <1>2, <1>3, <1>5, <1>7, BodyStates DEF Good

\* cddb_parse_record, case STATE_DISC_YEAR.
LEMMA YearStep ==
  ASSUME TypeInv, Reading,
         NEW d, NEW n, NEW y, NEW w, NEW j, NEW k, NEW s, NEW f, NEW m,
         Stands(d, n, y, w, j, k, s, f, m), y = 2, s = n + 9
  PROVE  Progress(d, n, y, w, s, m)'
<1>1. /\ n \in Nat /\ n >= 1 /\ y \in Nat /\ s \in Nat /\ s >= n + 9
  BY StandsFacts
<1>2. /\ j \in Nat /\ (s = j \/ s = j + 1)
      /\ BodyLines(d, n, y, w) /\ Told(d, n, y, w, j, k) /\ BodyState(n, y, j, s)
      /\ rec' = rec /\ before' = before
  BY <1>1, BodyFacts
<1>3. EndsTitle \in DiscData /\ AllUndivided(EndsTitle) /\ NamesApart(EndsTitle, disc)
      /\ EndsTitle.artist = disc.artist /\ EndsTitle.title = disc.title
  BY <1>1, BodyFacts
<1>4. s = j + 1 /\ state = "title" /\ multi_line = "title" /\ old_no = -1
  BY <1>2 DEF BodyState
<1>5. line.key = "year" /\ line.data = d.year
  <2>1. w[s].key = "year" /\ w[s].data = d.year
    BY <1>2 DEF BodyLines, IsLine
  <2>2. line.key \notin Textual => line.data = w[s].data
    BY DEF Stands
  <2>. QED
    BY <2>1, <2>2, StandsFacts DEF Textual
<1>6. DiscYear /\ OldNo = old_no
  <2>1. InRest /\ First = 1
    BY <1>4, <1>5, FirstIs DEF InRest
  <2>. QED
    BY <1>5, <2>1, RestMoves, RestLocals
<1>7. disc' = [EndsTitle EXCEPT !.year = line.data] /\ state' = "genre" /\ old_no' = -1
  BY <1>4, <1>6 DEF DiscYear
<1>8. line.data \in Nat
  BY <1>5, LineTypes
<1>9. /\ disc'.artist = disc.artist /\ disc'.title = disc.title /\ disc'.length = disc.length
      /\ disc'.revision = disc.revision /\ disc'.year = d.year /\ disc'.genre = disc.genre
      /\ disc'.ext_data = disc.ext_data /\ disc'.tracks = disc.tracks
  BY <1>3, <1>5, <1>7, <1>8, YearGiven DEF NamesApart
<1>10. OnlyTrack(0)
  BY <1>2, <1>9 DEF OnlyTrack
<1>11. Put(d, n, y, s, m)
  <2>1. Len(disc.tracks) \in Nat /\ n <= Len(disc.tracks)
    BY <1>1, TracksThere
  <2>2. s <= n + 8 + y
    BY <1>1
  <2>. QED
    BY <1>1, <1>9, <1>10, <2>1, <2>2, NothingPut
<1>12. YearRead(d, n, y, s)'
  <2>1. Has("year")
    BY <1>5, LineTypes, TypeFacts DEF Has
  <2>2. Has("year")'
    BY <1>2, <2>1 DEF Has
  <2>. QED
    BY <1>1, <1>9, <2>2 DEF YearRead
<1>13. GenreRead(n, y, w, s)'
  <2>1. s # n + 10
    BY <1>1
  <2>. QED
    BY <1>1, <1>2, <1>9, <2>1, GenreStays
<1>14. Told(d, n, y, w, s, m)'
  <2>1. 0 \in 0..n
    BY <1>1
  <2>. QED
    BY <1>1, <1>10, <1>11, <1>12, <1>13, <2>1, BodyTold
<1>15. Parser(n, y, w, s)'
  <2>1. s # n + 10 /\ ~(n + 8 + y < s) /\ s # 2 * n + 9 + y /\ ~(2 * n + 9 + y < s) /\ s # 3 * n + 10 + y
    BY <1>1
  <2>. QED
    BY <1>1, <1>7, <2>1, BodyParser
<1>. QED
  BY <1>14, <1>15 DEF Progress

\* Case STATE_DISC_GENRE: the first line is the genre, a second is not expected.
LEMMA GenreStep ==
  ASSUME TypeInv, Reading,
         NEW d, NEW n, NEW y, NEW w, NEW j, NEW k, NEW s, NEW f, NEW m,
         Stands(d, n, y, w, j, k, s, f, m), y = 2, s = n + 10
  PROVE  Progress(d, n, y, w, s, m)'
<1>1. /\ n \in Nat /\ n >= 1 /\ y \in Nat /\ s \in Nat /\ s >= n + 9
  BY StandsFacts
<1>2. /\ j \in Nat /\ (s = j \/ s = j + 1)
      /\ BodyLines(d, n, y, w) /\ Told(d, n, y, w, j, k) /\ BodyState(n, y, j, s)
      /\ rec' = rec /\ before' = before
  BY <1>1, BodyFacts
<1>3. EndsTitle \in DiscData /\ AllUndivided(EndsTitle) /\ NamesApart(EndsTitle, disc)
      /\ EndsTitle.artist = disc.artist /\ EndsTitle.title = disc.title
  BY <1>1, BodyFacts
<1>4. old_no = -1 /\ state = IF s = j THEN "ttitle" ELSE "genre"
  BY <1>2 DEF BodyState
<1>5. line.key = w[s].key /\ line.key \in {"genre", "hidden"}
  <2>1. w[s].key \in {"genre", "hidden"}
    BY <1>2 DEF BodyLines
  <2>. QED
    BY <2>1, StandsFacts
<1>6. s = j => line.key = "genre"
  <2>1. s = j => line.key \in Textual
    BY StandsFacts
  <2>. QED
    BY <1>5, <2>1 DEF Textual
<1>7. InRest /\ First = (IF s = j THEN 3 ELSE 2)
  BY <1>4, FirstIs DEF InRest
<1>8. OldNo = -1
  BY <1>4, RestLocals
<1>9. /\ disc'.artist = disc.artist /\ disc'.title = disc.title /\ disc'.length = disc.length
      /\ disc'.revision = disc.revision /\ disc'.year = disc.year
      /\ disc'.ext_data = disc.ext_data /\ disc'.tracks = disc.tracks
      /\ state' = (IF w[s].key = "genre" THEN "ttitle" ELSE "genre") /\ old_no' = -1
      /\ GenreRead(n, y, w, s)'
  <2>1. CASE s # j /\ line.key = "genre"
    <3>1. DiscGenre
      BY <1>7, <2>1, RestMoves
    <3>2. disc' = [EndsTitle EXCEPT !.genre = line.data] /\ state' = "ttitle" /\ old_no' = -1
      BY <1>8, <3>1 DEF DiscGenre
    <3>3. line.data \in Texts /\ line.data # Null
      BY <2>1, LineTypes, NullIsNoText DEF Textual, Texts
    <3>4. /\ disc'.artist = disc.artist /\ disc'.title = disc.title /\ disc'.length = disc.length
          /\ disc'.revision = disc.revision /\ disc'.year = disc.year /\ disc'.genre = line.data
          /\ disc'.ext_data = disc.ext_data /\ disc'.tracks = disc.tracks
      BY <1>3, <3>2, <3>3, GenreGiven DEF NamesApart
    <3>5. \A i \in 1..at : rec[i].key # "genre"
      BY <1>2, <2>1 DEF Stands
    <3>6. at + 1 \in 1..Len(rec) /\ line = rec[at + 1] /\ DOMAIN rec = 1..Len(rec) /\ at \in Nat
      BY <2>1, LineTypes, TypeFacts
    <3>7. Has("genre") /\ LineOf("genre") = line
      <4> DEFINE P(i) == rec[i].key = "genre" /\ \A q \in 1..(i - 1) : rec[q].key # "genre"
      <4>1. P(at + 1)
        <5>1. at + 1 - 1 = at
          BY <3>6
        <5>. QED
          BY <2>1, <3>5, <3>6, <5>1
      <4>2. ASSUME NEW i \in 1..Len(rec), P(i) PROVE i = at + 1
        <5>1. ~(i <= at)
          BY <3>5, <3>6, <4>2
        <5>2. ~(at + 1 <= i - 1)
          <6>1. at + 1 <= i - 1 => at + 1 \in 1..(i - 1)
            BY <3>6
          <6>. QED
            BY <4>1, <4>2, <6>1
        <5>. QED
          BY <3>6, <5>1, <5>2
      <4>3. (CHOOSE i \in DOMAIN rec : P(i)) = at + 1
        BY <3>6, <4>1, <4>2
      <4>4. LineOf("genre") = rec[CHOOSE i \in DOMAIN rec : P(i)]
        BY DEF LineOf
      <4>. QED
        BY <2>1, <3>6, <4>3, <4>4 DEF Has
    <3>8. Has("genre")' /\ LineOf("genre")' = line
      BY <1>2, <3>7 DEF Has, LineOf
    <3>9. GenreRead(n, y, w, s)'
      <4>1. y = 2 /\ s >= n + 10 /\ w[n + 10].key = "genre"
        BY <1>1, <1>5, <2>1
      <4>. QED
        BY <3>3, <3>4, <3>8, <4>1 DEF GenreRead
    <3>. QED
      BY <1>5, <2>1, <3>2, <3>4, <3>9
  <2>2. CASE ~(s # j /\ line.key = "genre")
    <3>1. Unexpected
      BY <1>5, <1>6, <1>7, <2>2, RestMoves
    <3>2. disc' = EndsTitle /\ state' = state /\ old_no' = -1
      BY <1>8, <3>1 DEF Unexpected
    <3>3. disc'.genre = disc.genre /\ disc'.year = disc.year /\ disc'.ext_data = disc.ext_data
          /\ disc'.tracks = disc.tracks /\ disc'.length = disc.length /\ disc'.revision = disc.revision
          /\ disc'.artist = disc.artist /\ disc'.title = disc.title
      BY <1>3, <3>2 DEF NamesApart
    <3>4. GenreRead(n, y, w, s)'
      BY <1>1, <1>2, <1>5, <2>2, <3>3, GenreStays
    <3>5. state' = IF w[s].key = "genre" THEN "ttitle" ELSE "genre"
      BY <1>4, <1>5, <1>6, <2>2, <3>2
    <3>. QED
      BY <3>2, <3>3, <3>4, <3>5
  <2>. QED
    BY <2>1, <2>2
<1>10. OnlyTrack(0)
  BY <1>2, <1>9 DEF OnlyTrack
<1>11. Put(d, n, y, s, m)
  <2>1. Len(disc.tracks) \in Nat /\ n <= Len(disc.tracks)
    BY <1>1, TracksThere
  <2>2. s <= n + 8 + y
    BY <1>1
  <2>. QED
    BY <1>1, <1>9, <1>10, <2>1, <2>2, NothingPut
<1>12. YearRead(d, n, y, s)'
  <2>1. s # n + 9
    BY <1>1
  <2>. QED
    BY <1>1, <1>2, <1>9, <2>1, YearStays
<1>13. Told(d, n, y, w, s, m)'
  <2>1. 0 \in 0..n
    BY <1>1
  <2>. QED
    BY <1>1, <1>9, <1>10, <1>11, <1>12, <2>1, BodyTold
<1>14. Parser(n, y, w, s)'
  <2>1. s # n + 9 /\ ~(n + 8 + y < s) /\ s # 2 * n + 9 + y /\ ~(2 * n + 9 + y < s) /\ s # 3 * n + 10 + y
    BY <1>1
  <2>. QED
    BY <1>1, <1>9, <2>1, BodyParser
<1>. QED
  BY <1>13, <1>14 DEF Progress

\* What a line for a track leaves of the disc.
LEMMA TrackOnly ==
  ASSUME NEW q, q \in 1..Len(disc.tracks), OtherwiseSame(q), EndsTitle.title = disc.title,
         rec' = rec, before' = before, disc'.tracks[q].frame_offset = disc.tracks[q].frame_offset
  PROVE  OnlyTrack(q) /\ disc'.year = disc.year /\ disc'.genre = disc.genre
         /\ disc'.ext_data = disc.ext_data
<1>1. /\ disc'.length = disc.length /\ disc'.revision = disc.revision
      /\ disc'.year = disc.year /\ disc'.genre = disc.genre /\ disc'.ext_data = disc.ext_data
      /\ disc'.artist = disc.artist /\ disc'.title = disc.title
      /\ Len(disc'.tracks) = Len(disc.tracks)
      /\ \A i \in 1..Len(disc.tracks) : i # q => disc'.tracks[i] = disc.tracks[i]
  BY DEF OtherwiseSame
<1>2. \A i \in 1..Len(disc.tracks) : disc'.tracks[i].frame_offset = disc.tracks[i].frame_offset
  <2> TAKE i \in 1..Len(disc.tracks)
  <2>1. CASE i = q
    BY <2>1
  <2>2. CASE i # q
    BY <1>1, <2>2
  <2>. QED
    BY <2>1, <2>2
<1>. QED
  BY <1>1, <1>2 DEF OnlyTrack

\* Case STATE_TRACK_TITLE: a part of the title of a track, or of its artist and title.
LEMMA TrackTitleStep ==
  ASSUME TypeInv, Reading,
         NEW d, NEW n, NEW y, NEW w, NEW j, NEW k, NEW s, NEW f, NEW m,
         Stands(d, n, y, w, j, k, s, f, m), n + 8 + y < s, s < 2 * n + 9 + y
  PROVE  Progress(d, n, y, w, s, m)'
<1> DEFINE i == s - (n + 8 + y)
           t == d.tracks[i]
           u == TrackTitle(t)
           r == TakenFor(disc.tracks[i])
<1>1. n \in Nat /\ n >= 1 /\ y \in Nat /\ y \in {0, 2} /\ s \in Nat /\ f \in Nat /\ m \in Nat /\ k \in Nat
      /\ line.key = w[s].key /\ line.no = w[s].no
  BY StandsFacts
<1>2. s >= n + 9
  BY <1>1
<1>3. /\ j \in Nat /\ (s = j \/ s = j + 1) /\ Writable(d) /\ n = Len(d.tracks)
      /\ BodyLines(d, n, y, w) /\ Told(d, n, y, w, j, k) /\ BodyState(n, y, j, s)
      /\ rec' = rec /\ before' = before /\ EndsTitle.title = disc.title
  BY <1>2, BodyFacts DEF Given
<1>4. Len(disc.tracks) \in Nat /\ n <= Len(disc.tracks)
  BY <1>2, TracksThere
<1>5. i \in 1..n /\ n + 8 + y + i = s /\ i \in 1..Len(disc.tracks) /\ i - 1 = s - (n + 9 + y)
      /\ i - 2 = s - (n + 10 + y) /\ i \in Nat
  BY <1>1, <1>4
<1>6. line.key = "ttitle" /\ line.no = i - 1 /\ w[s].key = "ttitle" /\ w[s].data = u
  <2>1. IsLine(w[n + 8 + y + i], "ttitle", i - 1, u)
    BY <1>3, <1>5 DEF BodyLines
  <2>. QED
    BY <1>1, <1>5, <2>1 DEF IsLine
<1>7. /\ f <= m /\ m <= Len(u) /\ line.data = SubSeq(u, f + 1, m)
      /\ (s = j => f = k) /\ (s = j + 1 => f = 0)
  <2>0. \/ s = j /\ f = k /\ w[s].key \in Textual /\ s >= n + 8
        \/ s = j + 1 /\ f = 0
    BY StandsFacts, SMTT(60)
  <2>1. \/ s = j /\ f = k
        \/ s = j + 1 /\ f = 0
    BY <2>0
  <2>2. line.key \in Textual
    BY <1>6 DEF Textual
  <2>3. s = j => s # j + 1
    BY <1>3
  <2>. QED
    BY <1>3, <1>6, <2>1, <2>2, <2>3 DEF Stands
<1>8. /\ state \in {"title", "genre", "ttitle"} /\ (state = "title" => multi_line = "title")
      /\ old_no = IF s = j THEN i - 1 ELSE i - 2
  BY <1>3, <1>5 DEF BodyState
<1>9. TrackTitleLine /\ OldNo = old_no
  <2>1. InRest /\ First \in {1, 2, 3}
    BY <1>6, <1>8, FirstIs DEF InRest
  <2>. QED
    BY <1>6, <2>1, RestMoves, RestLocals
<1>10. line.no = OldNo <=> s = j
  <2>1. i - 1 # i - 2
    BY <1>5
  <2>. QED
    BY <1>6, <1>8, <1>9, <2>1
<1>11. t \in TrackData /\ t.title \in Seq(Words) /\ Undivided(t.artist) /\ Undivided(t.title)
  BY <1>3, <1>5, TrackIs
<1>12. disc.tracks[i] \in TrackData /\ Undivided(disc.tracks[i].artist) /\ Undivided(disc.tracks[i].title)
  BY <1>5, TrackAt
<1>13. i = line.no + 1 /\ OneSlash(line.data) /\ line.data \in Seq(Words)
  BY <1>5, <1>6, TextOfLine
<1>14. OtherwiseSame(i) /\ disc'.tracks[i] = Named(r, line.data)
  BY <1>9, <1>13, TrackTitleLineMakes
<1>15. state' = "ttitle" /\ old_no' = i - 1
  BY <1>6, <1>9 DEF TrackTitleLine
<1>16. HasTrackName(r, t, f)
  <2>1. CASE s = j
    <3>1. TrackNamesRead(d, n, y, j, k)
      BY <1>3 DEF Told
    <3>2. TrackNameRead(disc.tracks[i], t, f)
      BY <1>5, <1>7, <2>1, <3>1 DEF TrackNamesRead
    <3>3. r = disc.tracks[i]
      BY <1>10, <2>1 DEF TakenFor
    <3>. QED
      BY <3>2, <3>3 DEF TrackNameRead, HasTrackName, HasCome
  <2>2. CASE s # j
    <3>1. f = 0 /\ r.artist = Null /\ r.title = Null
      BY <1>3, <1>7, <1>10, <1>12, <2>2, ClearedIs DEF TakenFor
    <3>2. t.artist # Null => f <= Len(t.artist)
      <4>1. t.artist # Null => t.artist \in Seq(Words)
        BY <1>11, TrackTitleIs
      <4>. QED
        BY <3>1, <4>1
    <3>. QED
      BY <3>1, <3>2 DEF HasTrackName, HasCome
  <2>. QED
    BY <2>1, <2>2
<1>17. r \in TrackData /\ Undivided(r.artist) /\ Undivided(r.title)
       /\ r.frame_offset = disc.tracks[i].frame_offset /\ r.ext_data = disc.tracks[i].ext_data
  BY <1>12, TakenForIs
<1>18. IsPart(line.data, u, f, m)
  BY <1>1, <1>7, <1>13 DEF IsPart
<1> HIDE DEF r
<1>19. /\ TakesTrackName(line.data, r, disc'.tracks[i])
       /\ disc'.tracks[i].frame_offset = disc.tracks[i].frame_offset
       /\ disc'.tracks[i].ext_data = disc.tracks[i].ext_data
  <2> DEFINE z == disc'.tracks[i]
             e == line.data
  <2>1. z = Named(r, e) /\ e \in Seq(Words) /\ OneSlash(e)
    BY <1>13, <1>14
  <2> HIDE DEF z, e
  <2>2. /\ z.frame_offset = r.frame_offset /\ z.ext_data = r.ext_data
        /\ Split(e) => z.artist = Extended(r.title, BeforeSlash(e)) /\ z.title = AfterSlash(e)
        /\ ~Split(e) => z.artist = r.artist /\ z.title = Extended(r.title, e)
    BY <1>17, <2>1, NamedIs
  <2>3. TakesTrackName(e, r, z) /\ z.frame_offset = r.frame_offset /\ z.ext_data = r.ext_data
    BY <2>2 DEF TakesTrackName
  <2>. QED
    BY <1>17, <2>3 DEF z, e
<1>20. TrackNameRead(disc'.tracks[i], t, m)
  <2> DEFINE z == disc'.tracks[i]
             e == line.data
  <2>1. TakesTrackName(e, r, z) /\ IsPart(e, u, f, m)
    BY <1>18, <1>19
  <2>2. t \in TrackData /\ t.title \in Seq(Words) /\ Undivided(t.artist) /\ Undivided(t.title)
        /\ u = TrackTitle(t) /\ HasTrackName(r, t, f)
    BY <1>11, <1>16
  <2> HIDE DEF z, e, u, t
  <2>3. TrackNameRead(z, t, m)
    BY <2>1, <2>2, TrackNameStep
  <2>. QED
    BY <2>3 DEF z
<1>21. OnlyTrack(i) /\ disc'.year = disc.year /\ disc'.genre = disc.genre /\ disc'.ext_data = disc.ext_data
  <2> HIDE DEF i
  <2>. QED
    BY <1>3, <1>5, <1>14, <1>19, TrackOnly
<1>22. Put(d, n, y, s, m)
  <2>1. s # 2 * n + 9 + y /\ \A q \in 1..n : s # 2 * n + 9 + y + q /\ (s = n + 8 + y + q <=> q = i)
                                             /\ q \in 1..Len(disc.tracks)
    BY <1>1, <1>4, <1>5
  <2> HIDE DEF i, t
  <2>2. TrackNameRead(disc'.tracks[i], d.tracks[i], m)
    BY <1>20 DEF t
  <2>3. \A q \in 1..n : q # i => disc'.tracks[q] = disc.tracks[q]
    BY <1>21, <2>1 DEF OnlyTrack
  <2>4. ASSUME NEW q \in 1..n
        PROVE  /\ s = n + 8 + y + q => TrackNameRead(disc'.tracks[q], d.tracks[q], m)
               /\ s # n + 8 + y + q => /\ disc'.tracks[q].artist = disc.tracks[q].artist
                                       /\ disc'.tracks[q].title = disc.tracks[q].title
               /\ disc'.tracks[q].ext_data = IF s = 2 * n + 9 + y + q
                                             THEN Read(SubSeq(TextOf(d.tracks[q].ext_data), 1, m))
                                             ELSE disc.tracks[q].ext_data
    <3>1. CASE q = i
      BY <1>19, <2>1, <2>2, <3>1
    <3>2. CASE q # i
      BY <2>1, <2>3, <3>2
    <3>. QED
      BY <3>1, <3>2
  <2>. QED
    BY <1>21, <2>1, <2>4 DEF Put
<1>23. YearRead(d, n, y, s)' /\ GenreRead(n, y, w, s)'
  <2>1. ~(y = 2 /\ s = n + 9) /\ ~(y = 2 /\ s = n + 10)
    BY <1>1
  <2>. QED
    BY <1>1, <1>3, <1>21, <2>1, YearStays, GenreStays
<1>24. Told(d, n, y, w, s, m)'
  <2>1. i \in 0..n
    BY <1>5
  <2> HIDE DEF i
  <2>. QED
    BY <1>2, <1>21, <1>22, <1>23, <2>1, BodyTold
<1>25. Parser(n, y, w, s)'
  <2>1. /\ ~(s < n + 9 + y) /\ ~(y = 2 /\ s = n + 9) /\ ~(y = 2 /\ s = n + 10) /\ s # 2 * n + 9 + y
        /\ ~(2 * n + 9 + y < s) /\ s # 3 * n + 10 + y
    BY <1>1
  <2>2. old_no' = s - (n + 9 + y)
    BY <1>5, <1>15
  <2>. QED
    BY <1>1, <1>2, <1>15, <2>1, <2>2, BodyParser
<1>. QED
  BY <1>24, <1>25 DEF Progress

\* Case STATE_DISC_EXT: a part of the extended data of the disc.
LEMMA ExtStep ==
  ASSUME TypeInv, Reading,
         NEW d, NEW n, NEW y, NEW w, NEW j, NEW k, NEW s, NEW f, NEW m,
         Stands(d, n, y, w, j, k, s, f, m), s = 2 * n + 9 + y
  PROVE  Progress(d, n, y, w, s, m)'
<1> DEFINE u == TextOf(d.ext_data)
<1>1. n \in Nat /\ n >= 1 /\ y \in Nat /\ y \in {0, 2} /\ s \in Nat /\ f \in Nat /\ m \in Nat /\ k \in Nat
      /\ line.key = w[s].key
  BY StandsFacts
<1>2. s >= n + 9
  BY <1>1
<1>3. /\ j \in Nat /\ (s = j \/ s = j + 1) /\ Writable(d)
      /\ BodyLines(d, n, y, w) /\ Told(d, n, y, w, j, k) /\ BodyState(n, y, j, s)
      /\ rec' = rec /\ before' = before
  BY <1>2, BodyFacts
<1>4. NamesApart(EndsTitle, disc) /\ EndsTitle.title = disc.title
  BY <1>2, BodyFacts
<1>5. line.key = "ext" /\ w[s].key = "ext" /\ w[s].data = u
  <2>1. IsLine(w[2 * n + 9 + y], "ext", 0, u)
    BY <1>3 DEF BodyLines
  <2>. QED
    BY <1>1, <2>1 DEF IsLine
<1>6. /\ f <= m /\ m <= Len(u) /\ line.data = SubSeq(u, f + 1, m)
      /\ (s = j => f = k) /\ (s = j + 1 => f = 0)
  <2>1. \/ s = j /\ f = k
        \/ s = j + 1 /\ f = 0
    BY StandsFacts
  <2>2. line.key \in Textual
    BY <1>5 DEF Textual
  <2>3. s = j => s # j + 1
    BY <1>3
  <2>. QED
    BY <1>3, <1>5, <2>1, <2>2, <2>3 DEF Stands
<1>7. IF s = j THEN state = "ext" /\ multi_line = "ext" /\ old_no = -1 ELSE state = "ttitle"
  BY <1>3 DEF BodyState
<1>8. InRest /\ First = (IF s = j THEN 4 ELSE 3)
  BY <1>7, FirstIs DEF InRest
<1>9. DiscExt
  BY <1>5, <1>8, RestMoves
<1>10. OldNo = -1 /\ Multi = IF s = j THEN "ext" ELSE "none"
  BY <1>5, <1>7, <1>8, RestLocals
<1>11. state' = "ext" /\ multi_line' = "ext" /\ old_no' = -1
  BY <1>9, <1>10 DEF DiscExt
<1>12. /\ disc'.artist = disc.artist /\ disc'.title = disc.title
       /\ disc'.length = disc.length /\ disc'.revision = disc.revision /\ disc'.year = disc.year
       /\ disc'.genre = disc.genre /\ disc'.tracks = disc.tracks
       /\ disc'.ext_data = Longer(HadDiscExt, line.data)
  BY <1>4, <1>9, DiscExtMakes
<1>13. HadDiscExt = Read(SubSeq(u, 1, f)) \/ (HadDiscExt = Null /\ f = 0)
  <2>1. CASE s = j
    <3>1. ExtRead(d, n, y, j, k)
      BY <1>3 DEF Told
    <3>2. disc.ext_data = Read(SubSeq(u, 1, f))
      BY <1>6, <2>1, <3>1 DEF ExtRead
    <3>3. HadDiscExt = disc.ext_data
      BY <1>4, <1>10, <2>1 DEF HadDiscExt, NamesApart
    <3>. QED
      BY <3>2, <3>3
  <2>2. CASE s # j
    BY <1>3, <1>6, <1>10, <2>2 DEF HadDiscExt
  <2>. QED
    BY <2>1, <2>2
<1>14. disc'.ext_data = Read(SubSeq(u, 1, m))
  <2> DEFINE had == HadDiscExt
  <2>1. u \in Seq(Words)
    BY <1>3, WritableIs, DiscFields, TextOfIs
  <2>2. had = Read(SubSeq(u, 1, f)) \/ (had = Null /\ f = 0)
    BY <1>13
  <2> HIDE DEF u, had
  <2>3. Longer(had, SubSeq(u, f + 1, m)) = Read(SubSeq(u, 1, m))
    BY <1>1, <1>6, <2>1, <2>2, LongerGrows
  <2>. QED
    BY <1>6, <1>12, <2>3 DEF had
<1>15. OnlyTrack(0)
  BY <1>3, <1>12 DEF OnlyTrack
<1>16. Put(d, n, y, s, m)
  <2>1. \A i \in 1..n : s # n + 8 + y + i /\ s # 2 * n + 9 + y + i
    BY <1>1
  <2>. QED
    BY <1>12, <1>14, <2>1 DEF Put
<1>17. YearRead(d, n, y, s)' /\ GenreRead(n, y, w, s)'
  <2>1. ~(y = 2 /\ s = n + 9) /\ ~(y = 2 /\ s = n + 10)
    BY <1>1
  <2>. QED
    BY <1>1, <1>3, <1>12, <2>1, YearStays, GenreStays
<1>18. Told(d, n, y, w, s, m)'
  <2>1. 0 \in 0..n
    BY <1>1
  <2>. QED
    BY <1>2, <1>15, <1>16, <1>17, <2>1, BodyTold
<1>19. Parser(n, y, w, s)'
  <2>1. /\ ~(s < n + 9 + y) /\ ~(y = 2 /\ s = n + 9) /\ ~(y = 2 /\ s = n + 10)
        /\ ~(s < 2 * n + 9 + y) /\ ~(2 * n + 9 + y < s) /\ s # 3 * n + 10 + y
    BY <1>1
  <2>. QED
    BY <1>1, <1>2, <1>11, <2>1, BodyParser
<1>. QED
  BY <1>18, <1>19 DEF Progress

\* Case STATE_TRACK_EXT: a part of the extended data of a track.
LEMMA TrackExtStep ==
  ASSUME TypeInv, Reading,
         NEW d, NEW n, NEW y, NEW w, NEW j, NEW k, NEW s, NEW f, NEW m,
         Stands(d, n, y, w, j, k, s, f, m), 2 * n + 9 + y < s, s < 3 * n + 10 + y
  PROVE  Progress(d, n, y, w, s, m)'
<1> DEFINE i == s - (2 * n + 9 + y)
           t == d.tracks[i]
           u == TextOf(t.ext_data)
<1>1. n \in Nat /\ n >= 1 /\ y \in Nat /\ y \in {0, 2} /\ s \in Nat /\ f \in Nat /\ m \in Nat /\ k \in Nat
      /\ line.key = w[s].key /\ line.no = w[s].no
  BY StandsFacts
<1>2. s >= n + 9
  BY <1>1
<1>3. /\ j \in Nat /\ (s = j \/ s = j + 1) /\ Writable(d) /\ n = Len(d.tracks)
      /\ BodyLines(d, n, y, w) /\ Told(d, n, y, w, j, k) /\ BodyState(n, y, j, s)
      /\ rec' = rec /\ before' = before /\ EndsTitle.title = disc.title
  BY <1>2, BodyFacts DEF Given
<1>4. Len(disc.tracks) \in Nat /\ n <= Len(disc.tracks)
  BY <1>2, TracksThere
<1>5. i \in 1..n /\ 2 * n + 9 + y + i = s /\ i \in 1..Len(disc.tracks) /\ i - 1 = s - (2 * n + 10 + y)
      /\ i - 2 = s - (2 * n + 11 + y) /\ i \in Nat
  <2> DEFINE e == 2 * n + 9 + y
  <2>1. e \in Nat /\ e < s /\ s <= e + n /\ 2 * n + 10 + y = e + 1 /\ 2 * n + 11 + y = e + 2
    BY <1>1
  <2>2. i = s - e
    OBVIOUS
  <2> HIDE DEF i, e
  <2>3. i \in 1..n /\ e + i = s /\ i - 1 = s - (e + 1) /\ i - 2 = s - (e + 2) /\ i \in Nat
    BY <1>1, <2>1, <2>2
  <2>4. i \in 1..Len(disc.tracks)
    BY <1>1, <1>4, <2>3
  <2>. QED
    BY <2>1, <2>3, <2>4 DEF e
<1>6. line.key = "extt" /\ line.no = i - 1 /\ w[s].key = "extt" /\ w[s].data = u
  <2>1. IsLine(w[2 * n + 9 + y + i], "extt", i - 1, u)
    BY <1>3, <1>5 DEF BodyLines
  <2>. QED
    BY <1>1, <1>5, <2>1 DEF IsLine
<1>7. /\ f <= m /\ m <= Len(u) /\ line.data = SubSeq(u, f + 1, m)
      /\ (s = j => f = k) /\ (s = j + 1 => f = 0)
  <2>1. \/ s = j /\ f = k
        \/ s = j + 1 /\ f = 0
    BY StandsFacts
  <2>2. line.key \in Textual
    BY <1>6 DEF Textual
  <2>3. s = j => s # j + 1
    BY <1>3
  <2>. QED
    BY <1>3, <1>6, <2>1, <2>2, <2>3 DEF Stands
<1>8. state \in {"ext", "extt"} /\ old_no = IF s = j THEN i - 1 ELSE i - 2
  BY <1>3, <1>5 DEF BodyState
<1>9. TrackExt /\ OldNo = old_no
  <2>1. InRest /\ First \in {4, 5}
    BY <1>8, FirstIs DEF InRest
  <2>. QED
    BY <1>6, <2>1, RestMoves, RestLocals
<1>10. line.no = OldNo <=> s = j
  <2>1. i - 1 # i - 2
    BY <1>5
  <2>. QED
    BY <1>6, <1>8, <1>9, <2>1
<1>11. i = line.no + 1
  BY <1>5, <1>6
<1>12. /\ OtherwiseSame(i)
       /\ disc'.tracks[i].artist = disc.tracks[i].artist
       /\ disc'.tracks[i].title = disc.tracks[i].title
       /\ disc'.tracks[i].frame_offset = disc.tracks[i].frame_offset
       /\ disc'.tracks[i].ext_data = Longer(HadExt(disc.tracks[i]), line.data)
  BY <1>9, <1>11, TrackExtMakes
<1>13. state' = "extt" /\ old_no' = i - 1
  BY <1>6, <1>9 DEF TrackExt
<1>14. disc'.tracks[i].ext_data = Read(SubSeq(u, 1, m))
  <2> DEFINE had == HadExt(disc.tracks[i])
  <2>1. u \in Seq(Words)
    BY <1>3, <1>5, TrackIs, TextOfIs
  <2>2. had = Read(SubSeq(u, 1, f)) \/ (had = Null /\ f = 0)
    <3>1. CASE s = j
      <4>1. TrackExtsRead(d, n, y, j, k)
        BY <1>3 DEF Told
      <4>2. disc.tracks[i].ext_data = Read(SubSeq(u, 1, f))
        BY <1>5, <1>7, <3>1, <4>1 DEF TrackExtsRead
      <4>. QED
        BY <1>10, <3>1, <4>2 DEF HadExt
    <3>2. CASE s # j
      BY <1>3, <1>7, <1>10, <3>2 DEF HadExt
    <3>. QED
      BY <3>1, <3>2
  <2> HIDE DEF u, had
  <2>3. Longer(had, SubSeq(u, f + 1, m)) = Read(SubSeq(u, 1, m))
    BY <1>1, <1>7, <2>1, <2>2, LongerGrows
  <2>. QED
    BY <1>7, <1>12, <2>3 DEF had
<1>15. OnlyTrack(i) /\ disc'.year = disc.year /\ disc'.genre = disc.genre /\ disc'.ext_data = disc.ext_data
  <2> HIDE DEF i
  <2>. QED
    BY <1>3, <1>5, <1>12, TrackOnly
<1>16. Put(d, n, y, s, m)
  <2>1. s # 2 * n + 9 + y /\ \A q \in 1..n : s # n + 8 + y + q /\ (s = 2 * n + 9 + y + q <=> q = i)
                                             /\ q \in 1..Len(disc.tracks)
    BY <1>1, <1>4, <1>5
  <2> HIDE DEF i, u, t
  <2>2. disc'.tracks[i].ext_data = Read(SubSeq(TextOf(d.tracks[i].ext_data), 1, m))
    BY <1>14 DEF u, t
  <2>3. \A q \in 1..n : q # i => disc'.tracks[q] = disc.tracks[q]
    BY <1>15, <2>1 DEF OnlyTrack
  <2>4. ASSUME NEW q \in 1..n
        PROVE  /\ s = n + 8 + y + q => TrackNameRead(disc'.tracks[q], d.tracks[q], m)
               /\ s # n + 8 + y + q => /\ disc'.tracks[q].artist = disc.tracks[q].artist
                                       /\ disc'.tracks[q].title = disc.tracks[q].title
               /\ disc'.tracks[q].ext_data = IF s = 2 * n + 9 + y + q
                                             THEN Read(SubSeq(TextOf(d.tracks[q].ext_data), 1, m))
                                             ELSE disc.tracks[q].ext_data
    <3>1. CASE q = i
      BY <1>12, <2>1, <2>2, <3>1
    <3>2. CASE q # i
      BY <2>1, <2>3, <3>2
    <3>. QED
      BY <3>1, <3>2
  <2>. QED
    BY <1>15, <2>1, <2>4 DEF Put
<1>17. YearRead(d, n, y, s)' /\ GenreRead(n, y, w, s)'
  <2>1. ~(y = 2 /\ s = n + 9) /\ ~(y = 2 /\ s = n + 10)
    BY <1>1
  <2>. QED
    BY <1>1, <1>3, <1>15, <2>1, YearStays, GenreStays
<1>18. Told(d, n, y, w, s, m)'
  <2>1. i \in 0..n
    BY <1>5
  <2> HIDE DEF i
  <2>. QED
    BY <1>2, <1>15, <1>16, <1>17, <2>1, BodyTold
<1>19. Parser(n, y, w, s)'
  <2>1. /\ ~(s < n + 9 + y) /\ ~(y = 2 /\ s = n + 9) /\ ~(y = 2 /\ s = n + 10) /\ s # 2 * n + 9 + y
        /\ ~(s < 2 * n + 9 + y) /\ s # 3 * n + 10 + y
    BY <1>1
  <2>2. old_no' = s - (2 * n + 10 + y)
    BY <1>5, <1>13
  <2>. QED
    BY <1>1, <1>2, <1>13, <2>1, <2>2, BodyParser
<1>. QED
  BY <1>18, <1>19 DEF Progress

\* Case STATE_PLAY_ORDER: the last line.
LEMMA OrderStep ==
  ASSUME TypeInv, Reading,
         NEW d, NEW n, NEW y, NEW w, NEW j, NEW k, NEW s, NEW f, NEW m,
         Stands(d, n, y, w, j, k, s, f, m), s = 3 * n + 10 + y
  PROVE  Progress(d, n, y, w, s, m)'
<1>1. n \in Nat /\ n >= 1 /\ y \in Nat /\ y \in {0, 2} /\ s \in Nat /\ line.key = w[s].key
  BY StandsFacts
<1>2. s >= n + 9
  BY <1>1
<1>3. /\ j \in Nat /\ (s = j \/ s = j + 1)
      /\ BodyLines(d, n, y, w) /\ Told(d, n, y, w, j, k) /\ BodyState(n, y, j, s)
      /\ rec' = rec /\ before' = before
  BY <1>2, BodyFacts
<1>4. NamesApart(EndsTitle, disc) /\ EndsTitle.title = disc.title /\ EndsTitle.artist = disc.artist
  BY <1>2, BodyFacts
<1>5. line.key = "order"
  BY <1>1, <1>3 DEF BodyLines
<1>6. state = "extt"
  BY <1>3 DEF BodyState
<1>7. PlayOrder
  <2>1. InRest /\ First = 5
    BY <1>6, FirstIs DEF InRest
  <2>. QED
    BY <1>5, <2>1, RestMoves
<1>8. disc' = EndsTitle /\ state' = "dot"
  BY <1>7 DEF PlayOrder
<1>9. /\ disc'.artist = disc.artist /\ disc'.title = disc.title
      /\ disc'.length = disc.length /\ disc'.revision = disc.revision /\ disc'.year = disc.year
      /\ disc'.genre = disc.genre /\ disc'.tracks = disc.tracks /\ disc'.ext_data = disc.ext_data
  BY <1>4, <1>8 DEF NamesApart
<1>10. OnlyTrack(0)
  BY <1>3, <1>9 DEF OnlyTrack
<1>11. Put(d, n, y, s, m)
  <2>1. Len(disc.tracks) \in Nat /\ n <= Len(disc.tracks)
    BY <1>2, TracksThere
  <2>. QED
    BY <1>1, <1>9, <1>10, <2>1, NothingPut
<1>12. YearRead(d, n, y, s)' /\ GenreRead(n, y, w, s)'
  <2>1. ~(y = 2 /\ s = n + 9) /\ ~(y = 2 /\ s = n + 10)
    BY <1>1
  <2>. QED
    BY <1>1, <1>3, <1>9, <2>1, YearStays, GenreStays
<1>13. Told(d, n, y, w, s, m)'
  <2>1. 0 \in 0..n
    BY <1>1
  <2>. QED
    BY <1>2, <1>10, <1>11, <1>12, <2>1, BodyTold
<1>14. Parser(n, y, w, s)'
  <2>1. /\ ~(s < n + 9 + y) /\ ~(y = 2 /\ s = n + 9) /\ ~(y = 2 /\ s = n + 10) /\ s # 2 * n + 9 + y
        /\ ~(s < 2 * n + 9 + y) /\ ~(s < 3 * n + 10 + y)
    BY <1>1
  <2>. QED
    BY <1>1, <1>2, <1>8, <2>1, BodyParser
<1>. QED
  BY <1>13, <1>14 DEF Progress

\* Whatever line of the record comes next, what it says has been told behind it.
LEMMA LineStep ==
  ASSUME TypeInv, Reading,
         NEW d, NEW n, NEW y, NEW w, NEW j, NEW k, NEW s, NEW f, NEW m,
         Stands(d, n, y, w, j, k, s, f, m)
  PROVE  Progress(d, n, y, w, s, m)'
<1>1. n \in Nat /\ n >= 1 /\ y \in Nat /\ y \in {0, 2} /\ s \in Nat /\ 1 <= s /\ s <= 3 * n + 10 + y
  BY StandsFacts
<1>2. \/ s <= 2 \/ (3 <= s /\ s <= n + 2) \/ (n + 3 <= s /\ s <= n + 7) \/ s = n + 8
      \/ (y = 2 /\ s = n + 9) \/ (y = 2 /\ s = n + 10)
      \/ (n + 8 + y < s /\ s < 2 * n + 9 + y) \/ s = 2 * n + 9 + y
      \/ (2 * n + 9 + y < s /\ s < 3 * n + 10 + y) \/ s = 3 * n + 10 + y
  BY <1>1
<1>3. CASE s <= n + 8
  <2>1. s <= 2 \/ (3 <= s /\ s <= n + 2) \/ (n + 3 <= s /\ s <= n + 7) \/ s = n + 8
    BY <1>1, <1>3
  <2>. QED
    BY <2>1, StartStep, OffsetStep, NumberStep, TitleStep
<1>4. CASE s > n + 8
  <2>1. \/ (y = 2 /\ s = n + 9) \/ (y = 2 /\ s = n + 10)
        \/ (n + 8 + y < s /\ s < 2 * n + 9 + y) \/ s = 2 * n + 9 + y
        \/ (2 * n + 9 + y < s /\ s < 3 * n + 10 + y) \/ s = 3 * n + 10 + y
    BY <1>1, <1>4
  <2>2. CASE (y = 2 /\ s = n + 9) \/ (y = 2 /\ s = n + 10)
    BY <2>2, YearStep, GenreStep
  <2>3. CASE (n + 8 + y < s /\ s < 2 * n + 9 + y) \/ s = 2 * n + 9 + y
    BY <2>3, TrackTitleStep, ExtStep
  <2>4. CASE (2 * n + 9 + y < s /\ s < 3 * n + 10 + y) \/ s = 3 * n + 10 + y
    BY <2>4, TrackExtStep, OrderStep
  <2>. QED
    BY <2>1, <2>2, <2>3, <2>4
<1>. QED
  BY <1>1, <1>3, <1>4

----------------------------------------------------------------------------
(* The lines of a database in the order of the record.                     *)

\* What Cut says of one line.
LEMMA CutAt ==
  ASSUME NEW x, NEW w, Cut(x, w), NEW i \in 1..Len(rec)
  PROVE  /\ x[i] \in Pieces /\ IsPiece(rec[i], x[i], w)
         /\ x[i].slot \in 1..Len(w) /\ rec[i].key = w[x[i].slot].key /\ rec[i].no = w[x[i].slot].no
<1>1. x[i] \in Pieces /\ IsPiece(rec[i], x[i], w)
  BY DEF Cut
<1>. QED
  BY <1>1 DEF IsPiece

\* The line that comes next goes on, or is the next of the record.
LEMMA NextStands ==
  ASSUME TypeInv, NEW d, NEW n, NEW y, NEW w, NEW x, Given(d, n, y, w), Cut(x, w), at < Len(rec),
         Progress(d, n, y, w, Reached(x).slot, Reached(x).to),
         NEW q, q = x[at + 1]
  PROVE  Stands(d, n, y, w, Reached(x).slot, Reached(x).to, q.slot, q.from, q.to)
<1> DEFINE p == Reached(x)
           j == p.slot
<1>1. at \in Nat /\ Len(rec) \in Nat /\ at + 1 \in 1..Len(rec) /\ line = rec[at + 1]
  BY TypeFacts DEF line
<1>2. q \in Pieces /\ IsPiece(line, q, w) /\ q.slot \in 1..Len(w)
  BY <1>1, CutAt
<1>3. Follows(p, q, w) /\ p \in Pieces
  <2>1. CASE at = 0
    BY <2>1 DEF Cut, Reached, Nowhere, Pieces
  <2>2. CASE at # 0
    <3>1. at \in 1..Len(rec)
      BY <1>1, <2>2
    <3>2. p = x[at] /\ p \in Pieces
      BY <2>2, <3>1, CutAt DEF Reached
    <3>. QED
      BY <1>1, <3>1, <3>2 DEF Cut
  <2>. QED
    BY <2>1, <2>2
<1>4. \A i \in 1..at : x[i].slot <= j
  <2> TAKE i \in 1..at
  <2>1. at # 0 /\ at \in 1..Len(rec) /\ i \in 1..Len(rec) /\ i <= at
    BY <1>1
  <2>. QED
    BY <2>1 DEF Cut, Reached
<1> HIDE DEF p
<1>5. /\ j \in Nat /\ p.to \in Nat /\ q.slot \in Nat /\ q.from \in Nat /\ q.to \in Nat
  BY <1>2, <1>3 DEF Pieces
<1>6. \/ q.slot = j /\ q.from = p.to /\ w[q.slot].key \in Textual
      \/ q.slot = j + 1 /\ q.from = 0 /\ (j # 0 /\ w[j].key \in Textual => p.to = Len(w[j].data))
  BY <1>3 DEF Follows, Continued, Begun
<1>7. /\ line.key = w[q.slot].key /\ line.no = w[q.slot].no
      /\ line.key \in Textual => /\ q.from <= q.to /\ q.to <= Len(w[q.slot].data)
                                 /\ line.data = SubSeq(w[q.slot].data, q.from + 1, q.to)
      /\ line.key \notin Textual => line.data = w[q.slot].data
  BY <1>2 DEF IsPiece
<1>8. q.slot = j + 1 /\ line.key = "genre" => \A i \in 1..at : rec[i].key # "genre"
  <2> SUFFICES ASSUME q.slot = j + 1, line.key = "genre", NEW i \in 1..at, rec[i].key = "genre"
               PROVE  FALSE
    OBVIOUS
  <2>1. i \in 1..Len(rec)
    BY <1>1
  <2>2. x[i].slot \in 1..Len(w) /\ w[x[i].slot].key = "genre" /\ w[q.slot].key = "genre"
    BY <1>7, <2>1, CutAt
  <2>3. x[i].slot = n + 10 /\ q.slot = n + 10
    BY <1>2, <2>2, KeysAre
  <2>4. x[i].slot <= j
    BY <1>4
  <2>. QED
    BY <1>5, <2>3, <2>4
<1>9. Progress(d, n, y, w, j, p.to)
  BY DEF p
<1>. QED
  BY <1>2, <1>5, <1>6, <1>7, <1>8, <1>9 DEF Stands, p

\* What Reads says of the record.
Holds(d, n, y, w, x) == y \in {0, 2} /\ n = Len(d.tracks) /\ Shape(w, d, y) /\ Cut(x, w)

\* It is about a record of a disc that can be written, in parts.
LEMMA HoldsGiven ==
  ASSUME NEW d, NEW n, NEW y, NEW w, NEW x, Holds(d, n, y, w, x), Writable(d)
  PROVE  Given(d, n, y, w) /\ Cut(x, w)
  BY WritableIs DEF Holds, Given

\* It stays while the record does.
LEMMA HoldsStays ==
  ASSUME NEW d, NEW n, NEW y, NEW w, NEW x, Holds(d, n, y, w, x), rec' = rec
  PROVE  Holds(d, n, y, w, x)'
  BY DEF Holds, Cut

\* Behind the last line of the record nothing is left to tell.
LEMMA AllTold ==
  ASSUME NEW d, NEW n, NEW y, NEW w, NEW k, Given(d, n, y, w),
         Told(d, n, y, w, Len(w), k), NEW m
  PROVE  Told(d, n, y, w, Len(w), m)
<1>1. n \in Nat /\ n >= 1 /\ y \in Nat /\ Len(w) = 3 * n + 10 + y
  BY LinesAre DEF Given
<1> DEFINE j == Len(w)
<1>2. j # n + 8 /\ j # 2 * n + 9 + y /\ \A i \in 1..n : j # n + 8 + y + i /\ j # 2 * n + 9 + y + i
  BY <1>1
<1> HIDE DEF j
<1>3. Told(d, n, y, w, j, k)
  BY DEF j
<1>4. DiscNameRead(d, n, j, m) /\ ExtRead(d, n, y, j, m)
  BY <1>2, <1>3 DEF Told, DiscNameRead, ExtRead
<1>5. TrackNamesRead(d, n, y, j, m)
  BY <1>2, <1>3 DEF Told, TrackNamesRead
<1>6. TrackExtsRead(d, n, y, j, m)
  BY <1>2, <1>3 DEF Told, TrackExtsRead
<1>7. Told(d, n, y, w, j, m)
  BY <1>3, <1>4, <1>5, <1>6 DEF Told
<1>. QED
  BY <1>7 DEF j

\* The dot ends the read.
LEMMA DotStep ==
  ASSUME TypeInv, Reading, NEW d, NEW n, NEW y, NEW w, NEW k, Given(d, n, y, w), at >= Len(rec),
         Progress(d, n, y, w, Len(w), k)
  PROVE  state' = "stop" /\ Told(d, n, y, w, Len(w), 0)'
<1>1. n \in Nat /\ n >= 1 /\ y \in Nat /\ Len(w) = 3 * n + 10 + y
  <2>1. Len(w) = 3 * n + 10 + y
    BY LinesAre
  <2>. QED
    BY <2>1 DEF Given
<1>2. state = "dot"
  BY <1>1 DEF Progress, Parser
<1>3. line.key = "dot"
  BY TypeFacts DEF line, Line
<1>4. EndDot
  BY <1>2, <1>3, FirstIs, RestMoves DEF InRest
<1>5. state' = "stop" /\ disc' = disc /\ rec' = rec /\ before' = before
  BY <1>2, <1>4 DEF EndDot, EndsTitle, Knows, Takes, history
<1>6. Told(d, n, y, w, Len(w), 0)
  BY AllTold DEF Progress
<1>7. Told(d, n, y, w, Len(w), 0)'
  <2> DEFINE j == Len(w)
  <2>1. Told(d, n, y, w, j, 0)
    BY <1>6
  <2>2. j > n + 8 /\ j # n + 8
    BY <1>1
  <2> HIDE DEF j
  <2>3. HeaderRead(d, n, j)' /\ OthersStay(n)' /\ YearRead(d, n, y, j)' /\ GenreRead(n, y, w, j)'
    BY <1>5, <2>1 DEF Told, HeaderRead, OthersStay, YearRead, GenreRead, Has, LineOf
  <2>4. DiscNameRead(d, n, j, 0)'
    BY <1>5, <2>1, <2>2 DEF Told, DiscNameRead
  <2>5. TrackNamesRead(d, n, y, j, 0)' /\ ExtRead(d, n, y, j, 0)' /\ TrackExtsRead(d, n, y, j, 0)'
    BY <1>5, <2>1 DEF Told, TrackNamesRead, ExtRead, TrackExtsRead
  <2>6. Told(d, n, y, w, j, 0)'
    BY <2>3, <2>4, <2>5 DEF Told
  <2>. QED
    BY <2>6 DEF j
<1>. QED
  BY <1>5, <1>7

\* A line more keeps what Reads says.
LEMMA ReadingReads ==
  ASSUME TypeInv, Reading, NEW d, NEW n, NEW y, NEW w, NEW x, Writable(d), Reads(d, n, y, w, x)
  PROVE  Reads(d, n, y, w, x)'
<1>1. Takes
  BY ReadingTypes
<1>2. pc = "reading" /\ pc' = pc /\ rec' = rec /\ at' = at + 1 /\ at <= Len(rec)
  <2>1. at \in Nat /\ Len(rec) \in Nat
    BY TypeFacts
  <2>. QED
    BY <1>1, <2>1 DEF Takes, Comes
<1>3. Holds(d, n, y, w, x) /\ Progress(d, n, y, w, Reached(x).slot, Reached(x).to)
  BY <1>2 DEF Reads, Holds
<1>4. Given(d, n, y, w) /\ Cut(x, w)
  BY <1>3, HoldsGiven
<1>5. Holds(d, n, y, w, x)'
  BY <1>2, <1>3, HoldsStays
<1>6. at \in Nat /\ Len(rec) \in Nat
  BY TypeFacts
<1>7. CASE at < Len(rec)
  <2>1. PICK q : q = x[at + 1]
    OBVIOUS
  <2>2. Stands(d, n, y, w, Reached(x).slot, Reached(x).to, q.slot, q.from, q.to)
    BY <1>3, <1>4, <1>7, <2>1, NextStands
  <2>3. PICK j, k, s, f, m : j = Reached(x).slot /\ k = Reached(x).to /\ s = q.slot /\ f = q.from /\ m = q.to
    OBVIOUS
  <2>4. Progress(d, n, y, w, s, m)'
    BY <2>2, <2>3, LineStep
  <2>5. at' # 0 /\ at' <= Len(rec') /\ Reached(x)' = q
    BY <1>2, <1>6, <1>7, <2>1 DEF Reached
  <2>6. Progress(d, n, y, w, Reached(x).slot, Reached(x).to)'
    BY <2>3, <2>4, <2>5 DEF Progress, Parser, Told
  <2>. QED
    BY <1>5, <2>5, <2>6 DEF Reads, Holds
<1>8. CASE at = Len(rec)
  <2>1. Reached(x).slot = Len(w)
    BY <1>4, <1>6, <1>8 DEF Cut, Reached
  <2>2. PICK k : k = Reached(x).to
    OBVIOUS
  <2>3. Progress(d, n, y, w, Len(w), k)
    BY <1>3, <2>1, <2>2
  <2>4. state' = "stop" /\ Told(d, n, y, w, Len(w), 0)'
    BY <1>4, <1>6, <1>8, <2>3, DotStep
  <2>5. ~(at' <= Len(rec'))
    BY <1>2, <1>6, <1>8
  <2>. QED
    BY <1>5, <2>4, <2>5 DEF Reads, Holds
<1>. QED
  BY <1>2, <1>6, <1>7, <1>8

\* A record that is written is in the database line by line.
LEMMA FreshCut ==
  ASSUME NEW w, w \in Seq(Lines), Len(w) > 0, rec = w
  PROVE  \E x : Cut(x, w)
<1> DEFINE end(i) == IF w[i].key \in Textual THEN Len(w[i].data) ELSE 0
           x == [i \in 1..Len(w) |-> [slot |-> i, from |-> 0, to |-> end(i)]]
<1>1. Len(w) \in Nat /\ \A i \in 1..Len(w) : w[i] \in Lines
  OBVIOUS
<1>2. ASSUME NEW i \in 1..Len(w)
      PROVE  /\ end(i) \in Nat /\ i \in Nat
             /\ x[i] = [slot |-> i, from |-> 0, to |-> end(i)]
             /\ x[i] \in Pieces /\ x[i].slot = i /\ x[i].from = 0 /\ x[i].to = end(i)
  <2>1. w[i].key \in Textual => w[i].data \in Seq(Words)
    BY <1>1, LineData
  <2>2. end(i) \in Nat /\ i \in Nat
    BY <1>1, <2>1
  <2> HIDE DEF end
  <2>3. x[i] = [slot |-> i, from |-> 0, to |-> end(i)]
    OBVIOUS
  <2>. QED
    BY <2>2, <2>3 DEF Pieces
<1>3. x \in [1..Len(w) -> Pieces]
  BY <1>2
<1>4. ASSUME NEW i \in 1..Len(w) PROVE IsPiece(w[i], x[i], w)
  <2>1. CASE w[i].key \in Textual
    <3>1. w[i].data \in Seq(Words) /\ end(i) = Len(w[i].data)
      BY <1>1, <2>1, LineData
    <3>2. SubSeq(w[i].data, 1, Len(w[i].data)) = w[i].data /\ Len(w[i].data) \in Nat
      BY <3>1, WholeText
    <3>3. x[i].slot = i /\ x[i].from = 0 /\ x[i].to = Len(w[i].data)
      BY <1>2, <3>1
    <3>4. x[i].from + 1 = 1 /\ x[i].from <= x[i].to
      BY <3>2, <3>3
    <3> HIDE DEF end, x
    <3>5. w[i].data = SubSeq(w[x[i].slot].data, x[i].from + 1, x[i].to)
      BY <3>2, <3>3, <3>4
    <3>. QED
      BY <2>1, <3>2, <3>3, <3>4, <3>5 DEF IsPiece
  <2>2. CASE w[i].key \notin Textual
    <3> HIDE DEF end, x
    <3>. QED
      BY <1>2, <2>2 DEF IsPiece
  <2>. QED
    BY <2>1, <2>2
<1>5. 1 \in 1..Len(w) /\ Len(w) \in 1..Len(w)
  BY <1>1
<1>6. Follows(Nowhere, x[1], w) /\ x[Len(w)].slot = Len(w)
  <2>1. x[1].slot = 1 /\ x[1].from = 0 /\ x[Len(w)].slot = Len(w)
    BY <1>2, <1>5
  <2>. QED
    BY <2>1 DEF Follows, Begun, Nowhere
<1>7. ASSUME NEW i \in 1..Len(w), i + 1 \in 1..Len(w) PROVE Follows(x[i], x[i + 1], w)
  <2>1. x[i].slot = i /\ x[i].to = end(i) /\ x[i + 1].slot = i + 1 /\ x[i + 1].from = 0
    BY <1>2, <1>7
  <2>2. w[i].key \in Textual => end(i) = Len(w[i].data)
    OBVIOUS
  <2> HIDE DEF end, x
  <2>. QED
    BY <2>1, <2>2 DEF Follows, Begun
<1>8. \A i, k \in 1..Len(w) : i <= k => x[i].slot <= x[k].slot
  <2> HIDE DEF x
  <2>. QED
    BY <1>2
<1> HIDE DEF x
<1>9. Cut(x, w)
  BY <1>1, <1>3, <1>4, <1>6, <1>7, <1>8 DEF Cut
<1>. QED
  BY <1>9

\* What a record is written from, old or not.
LEMMA FreshHolds ==
  ASSUME NEW d, Writable(d), NEW old \in BOOLEAN, rec = Record(d, old)
  PROVE  \E n, y, w, x : Holds(d, n, y, w, x)
<1> DEFINE w == Record(d, old)
           y == IF old THEN 0 ELSE 2
           n == Len(d.tracks)
<1>1. Shape(w, d, y)
  BY RecordShape
<1>2. w \in Seq(Lines) /\ Len(w) > 0
  <2>1. n \in Nat /\ n >= 1 /\ y \in {0, 2}
    BY WritableIs
  <2>2. w \in Seq(Lines) /\ Len(w) = 3 * n + 10 + y
    BY <1>1 DEF Shape
  <2> HIDE DEF w, y, n
  <2>. QED
    BY <2>1, <2>2
<1>3. y \in {0, 2} /\ rec = w
  OBVIOUS
<1> HIDE DEF w, y
<1>4. PICK x : Cut(x, w)
  BY <1>2, <1>3, FreshCut
<1>5. Holds(d, n, y, w, x)
  BY <1>1, <1>3, <1>4 DEF Holds
<1>. QED
  BY <1>5

\* The words of t behind the first f, up to word m.
Segment(s, t, f, m) == f \in Nat /\ m \in Nat /\ f <= m /\ m <= Len(t) /\ s = SubSeq(t, f + 1, m)

\* A part of a part of a text is a part of it.
LEMMA PartOfPart ==
  ASSUME NEW t \in Seq(Words), NEW f, NEW m, NEW s, Segment(s, t, f, m),
         NEW p, NEW q, NEW a, Segment(a, s, p, q)
  PROVE  Segment(a, t, f + p, f + q)
<1>0. /\ f \in Nat /\ m \in Nat /\ f <= m /\ m <= Len(t) /\ s = SubSeq(t, f + 1, m)
      /\ p \in Nat /\ q \in Nat /\ p <= q /\ q <= Len(s) /\ a = SubSeq(s, p + 1, q)
  BY DEF Segment
<1>1. s \in Seq(Words) /\ Len(s) = m - f /\ \A i \in 1..(m - f) : s[i] = t[f + i]
  BY <1>0, PartIs
<1> DEFINE g == f + p
           h == f + q
           b == SubSeq(t, g + 1, h)
<1>2. a \in Seq(Words) /\ Len(a) = q - p /\ \A i \in 1..(q - p) : a[i] = s[p + i]
  <2>1. s \in Seq(Words) /\ p \in Nat /\ q \in Nat /\ p <= q /\ q <= Len(s) /\ a = SubSeq(s, p + 1, q)
    BY <1>0, <1>1
  <2>. QED
    BY <2>1, PartIs
<1>3. g \in Nat /\ h \in Nat /\ g <= h /\ h <= Len(t) /\ h - g = q - p
      /\ \A i \in 1..(q - p) : p + i \in 1..(m - f) /\ f + (p + i) = g + i
  <2>1. Len(t) \in Nat
    OBVIOUS
  <2>. QED
    BY <1>0, <1>1, <2>1
<1> HIDE DEF g, h
<1>4. b \in Seq(Words) /\ Len(b) = q - p /\ \A i \in 1..(q - p) : b[i] = t[g + i]
  BY <1>3, PartIs
<1> HIDE DEF b
<1>5. ASSUME NEW i \in 1..(q - p) PROVE a[i] = b[i]
  <2>1. a[i] = s[p + i] /\ s[p + i] = t[f + (p + i)]
    BY <1>1, <1>2, <1>3
  <2>. QED
    BY <1>3, <1>4, <2>1
<1>6. a = b
  BY <1>2, <1>4, <1>5, SameWords
<1>. QED
  BY <1>3, <1>6 DEF Segment, b, g, h

\* Line a is line l with its words from f + 1 to m.
IsHalf(a, l, f, m) == a.key = l.key /\ a.no = l.no /\ a.data = SubSeq(l.data, f + 1, m)

\* The parts pa and pb of a line are what its part p was split into.
Halves(pa, pb, p) ==
  /\ pa \in Pieces /\ pb \in Pieces
  /\ pa.slot = p.slot /\ pa.from = p.from /\ pa.to = pb.from
  /\ pb.slot = p.slot /\ pb.to = p.to

\* The parts of a line that is split in two.
LEMMA HalvesArePieces ==
  ASSUME NEW w \in Seq(Lines), NEW l, NEW p \in Pieces, IsPiece(l, p, w), l.key \in Textual,
         NEW q \in 0..Len(l.data),
         NEW a, IsHalf(a, l, 0, q), NEW b, IsHalf(b, l, q, Len(l.data))
  PROVE  \E pa, pb : Halves(pa, pb, p) /\ IsPiece(a, pa, w) /\ IsPiece(b, pb, w)
<1> DEFINE t == w[p.slot].data
           c == p.from + q
           pa == [p EXCEPT !.to = c]
           pb == [p EXCEPT !.from = c]
<1>0. /\ c = p.from + q
      /\ pa = [p EXCEPT !.to = c] /\ pb = [p EXCEPT !.from = c]
      /\ a.key = l.key /\ a.no = l.no /\ a.data = SubSeq(l.data, 0 + 1, q)
      /\ b.key = l.key /\ b.no = l.no /\ b.data = SubSeq(l.data, q + 1, Len(l.data))
  BY DEF IsHalf
<1> HIDE DEF c, pa, pb
<1>1. /\ p.slot \in 1..Len(w) /\ l.key = w[p.slot].key /\ l.no = w[p.slot].no
      /\ p.from <= p.to /\ p.to <= Len(t) /\ l.data = SubSeq(t, p.from + 1, p.to)
      /\ p.from \in Nat /\ p.to \in Nat /\ p.slot \in Nat
  BY DEF IsPiece, Pieces
<1>2. t \in Seq(Words)
  BY <1>1, LineData
<1> HIDE DEF t
<1>3. l.data \in Seq(Words) /\ Len(l.data) = p.to - p.from
  <2> DEFINE f == p.from
             m == p.to
             s == l.data
  <2>1. f \in Nat /\ m \in Nat /\ f <= m /\ m <= Len(t) /\ s = SubSeq(t, f + 1, m)
    BY <1>1
  <2> HIDE DEF f, m, s
  <2>2. s \in Seq(Words) /\ Len(s) = m - f
    BY <1>2, <2>1, PartIs
  <2>. QED
    BY <2>2 DEF f, m, s
<1>4. q \in Nat /\ q <= Len(l.data) /\ c \in Nat /\ p.from <= c /\ c <= p.to /\ c <= Len(t)
      /\ p.from + Len(l.data) = p.to /\ Len(l.data) \in Nat
  <2> DEFINE f == p.from
             m == p.to
             e == Len(l.data)
             z == Len(t)
  <2>1. f \in Nat /\ m \in Nat /\ f <= m /\ m <= z /\ z \in Nat /\ e = m - f /\ q \in 0..e /\ c = f + q
    BY <1>0, <1>1, <1>2, <1>3
  <2> HIDE DEF f, m, e, z
  <2>2. q \in Nat /\ q <= e /\ c \in Nat /\ f <= c /\ c <= m /\ c <= z /\ f + e = m /\ e \in Nat
    BY <2>1
  <2>. QED
    BY <2>2 DEF f, m, e, z
<1>5. /\ pa \in Pieces /\ pb \in Pieces
      /\ pa.slot = p.slot /\ pa.from = p.from /\ pa.to = c
      /\ pb.slot = p.slot /\ pb.from = c /\ pb.to = p.to
  BY <1>0, <1>4 DEF Pieces
<1>6. Segment(l.data, t, p.from, p.to)
  BY <1>1 DEF Segment
<1>7. Segment(a.data, l.data, 0, q) /\ Segment(b.data, l.data, q, Len(l.data))
  BY <1>0, <1>4 DEF Segment
<1>8. Segment(a.data, t, p.from + 0, p.from + q) /\ Segment(b.data, t, p.from + q, p.from + Len(l.data))
  BY <1>2, <1>6, <1>7, PartOfPart
<1>9. Segment(a.data, t, p.from, c) /\ Segment(b.data, t, c, p.to)
  <2>1. p.from + 0 = p.from
    BY <1>1
  <2>. QED
    BY <1>0, <1>4, <1>8, <2>1
<1>10. IsPiece(a, pa, w) /\ IsPiece(b, pb, w)
  <2>1. a.data = SubSeq(t, p.from + 1, c) /\ b.data = SubSeq(t, c + 1, p.to)
    BY <1>9 DEF Segment
  <2>. QED
    BY <1>0, <1>1, <1>4, <1>5, <2>1 DEF IsPiece, t
<1>11. Halves(pa, pb, p)
  BY <1>5 DEF Halves
<1>. QED
  BY <1>10, <1>11

\* What follows on a part depends on its line and its end, what it follows on, on its line
\* and its begin.
LEMMA FollowsSame ==
  ASSUME NEW w, NEW p, NEW q, Follows(p, q, w), NEW r, r.slot = p.slot /\ r.to = p.to,
         NEW s, s.slot = q.slot /\ s.from = q.from
  PROVE  Follows(r, s, w)
  BY DEF Follows, Continued, Begun

\* Splitting a line keeps the lines in the order of the record.
LEMMA WrapCut ==
  ASSUME TypeInv, NEW w \in Seq(Lines), NEW x, Cut(x, w), NEW p \in 1..Len(rec), rec[p].key \in Textual,
         NEW q \in 0..Len(rec[p].data), NEW a, IsHalf(a, rec[p], 0, q),
         NEW b, IsHalf(b, rec[p], q, Len(rec[p].data)), IsSplit(rec', rec, p, a, b)
  PROVE  \E z : Cut(z, w)'
<1>2. \A i \in 1..Len(rec) : x[i] \in Pieces /\ IsPiece(rec[i], x[i], w)
  BY CutAt
<1>3. PICK pa, pb : Halves(pa, pb, x[p]) /\ IsPiece(a, pa, w) /\ IsPiece(b, pb, w)
  <2> DEFINE l == rec[p]
             y == x[p]
  <2>1. IsPiece(l, y, w) /\ y \in Pieces /\ l.key \in Textual /\ q \in 0..Len(l.data)
        /\ IsHalf(a, l, 0, q) /\ IsHalf(b, l, q, Len(l.data))
    BY <1>2
  <2> HIDE DEF l, y
  <2>2. \E pa, pb : Halves(pa, pb, y) /\ IsPiece(a, pa, w) /\ IsPiece(b, pb, w)
    BY <2>1, HalvesArePieces
  <2>. QED
    BY <2>2 DEF y
<1>0. PICK n : n = Len(rec)
  OBVIOUS
<1>0a. PICK z : z = [i \in 1..(n + 1) |-> IF i < p THEN x[i] ELSE IF i = p THEN pa
                                        ELSE IF i = p + 1 THEN pb ELSE x[i - 1]]
  OBVIOUS
<1> DEFINE old(i) == IF i <= p THEN i ELSE i - 1
<1>1. /\ n \in Nat /\ n > 0 /\ p \in Nat /\ p \in 1..n /\ Len(rec') = n + 1
      /\ rec'[p] = a /\ rec'[p + 1] = b
      /\ \A i \in 1..(p - 1) : rec'[i] = rec[i]
      /\ \A i \in (p + 1)..n : rec'[i + 1] = rec[i]
  BY <1>0, TypeFacts DEF Cut, IsSplit
<1>4. w[x[p].slot].key \in Textual
  BY <1>0, <1>1, CutAt
<1>5. /\ \A i \in 1..(n + 1) : i < p => i \in 1..n /\ z[i] = x[i]
      /\ z[p] = pa /\ z[p + 1] = pb
      /\ \A i \in 1..(n + 1) : i > p + 1 => i - 1 \in 1..n /\ z[i] = x[i - 1]
  BY <1>0a, <1>1
<1>6. z \in [1..(n + 1) -> Pieces]
  <2> SUFFICES ASSUME NEW i \in 1..(n + 1) PROVE z[i] \in Pieces
    BY <1>0a
  <2>1. i < p \/ i = p \/ i = p + 1 \/ i > p + 1
    BY <1>1
  <2>. QED
    BY <1>2, <1>3, <1>5, <2>1, <1>0 DEF Halves
<1>7. ASSUME NEW i \in 1..(n + 1) PROVE IsPiece(rec'[i], z[i], w)
  <2>1. CASE i < p
    <3>1. i \in 1..(p - 1) /\ i \in 1..n
      BY <1>1, <2>1
    <3>. QED
      BY <1>1, <1>2, <1>5, <2>1, <3>1, <1>0
  <2>2. CASE i = p
    <3>1. rec'[i] = a /\ z[i] = pa
      BY <1>1, <1>5, <2>2
    <3>. QED
      BY <1>3, <3>1
  <2>3. CASE i = p + 1
    <3>1. rec'[i] = b /\ z[i] = pb
      BY <1>1, <1>5, <2>3
    <3>. QED
      BY <1>3, <3>1
  <2>4. CASE i > p + 1
    <3> DEFINE k == i - 1
    <3>1. k \in (p + 1)..n /\ k + 1 = i /\ k \in 1..n /\ z[i] = x[k]
      BY <1>1, <1>5, <2>4
    <3> HIDE DEF k
    <3>2. rec'[k + 1] = rec[k]
      BY <1>1, <3>1
    <3>3. IsPiece(rec[k], x[k], w)
      BY <1>0, <1>2, <3>1
    <3>. QED
      BY <3>1, <3>2, <3>3
  <2>. QED
    BY <1>1, <2>1, <2>2, <2>3, <2>4
<1>8. ASSUME NEW i \in 1..(n + 1)
      PROVE  /\ old(i) \in 1..n /\ z[i].slot = x[old(i)].slot
             /\ i <= p => z[i].from = x[i].from
             /\ i < p => z[i].to = x[i].to
             /\ i > p => z[i].to = x[i - 1].to
             /\ i > p + 1 => z[i].from = x[i - 1].from
  <2>0. /\ pa.slot = x[p].slot /\ pa.from = x[p].from
        /\ pb.slot = x[p].slot /\ pb.to = x[p].to
    BY <1>3 DEF Halves
  <2>1. CASE i < p
    BY <1>1, <1>5, <2>1
  <2>2. CASE i = p
    BY <1>1, <2>0, <1>5, <2>2
  <2>3. CASE i = p + 1
    <3>1. i - 1 = p /\ ~(i <= p)
      BY <1>1, <2>3
    <3>. QED
      BY <1>1, <2>0, <1>5, <2>3, <3>1
  <2>4. CASE i > p + 1
    BY <1>1, <1>5, <2>4
  <2>. QED
    BY <1>1, <2>1, <2>2, <2>3, <2>4
<1>9. /\ Follows(Nowhere, x[1], w) /\ x[n].slot = Len(w)
      /\ \A i \in 1..n : i + 1 \in 1..n => Follows(x[i], x[i + 1], w)
      /\ \A i, k \in 1..n : i <= k => x[i].slot <= x[k].slot
  BY <1>0 DEF Cut
<1>10. Follows(Nowhere, z[1], w)
  <2>1. 1 \in 1..(n + 1) /\ 1 <= p
    BY <1>1
  <2>2. z[1].slot = x[1].slot /\ z[1].from = x[1].from
    BY <1>8, <2>1
  <2>. QED
    BY <1>9, <2>2, FollowsSame
<1>11. z[n + 1].slot = Len(w)
  <2>1. n + 1 \in 1..(n + 1) /\ old(n + 1) = n
    BY <1>1
  <2>2. z[n + 1].slot = x[old(n + 1)].slot
    BY <1>8, <2>1
  <2>. QED
    BY <1>9, <2>1, <2>2
<1>12. ASSUME NEW i \in 1..(n + 1), i + 1 \in 1..(n + 1) PROVE Follows(z[i], z[i + 1], w)
  <2>1. CASE i < p
    <3>1. i \in 1..n /\ i + 1 \in 1..n /\ i <= p /\ i + 1 <= p
      BY <1>1, <2>1
    <3>2. Follows(x[i], x[i + 1], w)
      BY <1>9, <3>1
    <3>3. z[i].slot = x[i].slot /\ z[i].to = x[i].to
      BY <1>8, <2>1, <3>1
    <3>4. z[i + 1].slot = x[i + 1].slot /\ z[i + 1].from = x[i + 1].from
      BY <1>8, <1>12, <3>1
    <3>. QED
      BY <3>2, <3>3, <3>4, FollowsSame
  <2>2. CASE i = p
    <3>1. z[i] = pa /\ z[i + 1] = pb
      BY <1>5, <2>2
    <3>. QED
      BY <1>3, <1>4, <3>1 DEF Follows, Continued, Halves
  <2>3. CASE i > p
    <3>1. i - 1 \in 1..n /\ i - 1 + 1 \in 1..n /\ i - 1 + 1 = i /\ ~(i <= p) /\ ~(i + 1 <= p)
          /\ i + 1 - 1 = i /\ i + 1 > p + 1
      BY <1>1, <1>12, <2>3
    <3>2. Follows(x[i - 1], x[i], w)
      BY <1>9, <3>1
    <3>3. z[i].slot = x[i - 1].slot /\ z[i].to = x[i - 1].to
      BY <1>8, <2>3, <3>1
    <3>4. z[i + 1].slot = x[i].slot /\ z[i + 1].from = x[i].from
      BY <1>8, <1>12, <3>1
    <3>. QED
      BY <3>2, <3>3, <3>4, FollowsSame
  <2>. QED
    BY <1>1, <2>1, <2>2, <2>3
<1>13. ASSUME NEW i \in 1..(n + 1), NEW k \in 1..(n + 1), i <= k PROVE z[i].slot <= z[k].slot
  <2>1. old(i) <= old(k)
    BY <1>1, <1>13
  <2>2. old(i) \in 1..n /\ old(k) \in 1..n /\ z[i].slot = x[old(i)].slot /\ z[k].slot = x[old(k)].slot
    BY <1>8
  <2> HIDE DEF old
  <2>. QED
    BY <1>9, <2>1, <2>2
<1>14. Cut(z, w)'
  <2>1. Len(rec') = n + 1 /\ n + 1 > 0
    BY <1>1
  <2>. QED
    <3>1. Len(rec') > 0 /\ z \in [1..Len(rec') -> Pieces] /\ z[Len(rec')].slot = Len(w)
      BY <1>6, <1>11, <2>1
    <3>2. \A i \in 1..Len(rec') : IsPiece(rec'[i], z[i], w)
      BY <1>7, <2>1
    <3>3. \A i \in 1..Len(rec') : i + 1 \in 1..Len(rec') => Follows(z[i], z[i + 1], w)
      BY <1>12, <2>1
    <3>4. \A i, k \in 1..Len(rec') : i <= k => z[i].slot <= z[k].slot
      BY <1>13, <2>1
    <3>. QED
      BY <1>10, <3>1, <3>2, <3>3, <3>4 DEF Cut
<1>. QED
  BY <1>14

\* The database may split any line.
LEMMA WrapHolds ==
  ASSUME TypeInv, NEW d, NEW n, NEW y, NEW w, NEW x, Holds(d, n, y, w, x),
         NEW p \in DOMAIN rec, rec[p].key \in Textual, NEW q \in 0..Len(rec[p].data), Wrap(p, q)
  PROVE  \E z : Holds(d, n, y, w, z)'
<1>0. rec \in Seq(Lines) /\ p \in 1..Len(rec) /\ rec[p] \in Lines /\ Partable(rec[p])
  BY CallFacts DEF Typed, AllPartable
<1> DEFINE l == rec[p]
           a == [l EXCEPT !.data = SubSeq(l.data, 1, q)]
           b == [l EXCEPT !.data = SubSeq(l.data, q + 1, Len(l.data))]
           u == ReplaceAt(InsertAt(rec, p, a), p + 1, b)
<1>1. l \in Lines /\ Partable(l) /\ l.key \in Textual /\ q \in 0..Len(l.data)
  BY <1>0
<1>2. rec' = u
  BY DEF Wrap, Changes
<1> HIDE DEF l, u
<1>3b. /\ u = ReplaceAt(InsertAt(rec, p, a), p + 1, b)
       /\ a = Half(l, 0, q) /\ b = Half(l, q, Len(l.data))
  BY DEF u, Half
<1> HIDE DEF a, b
<1>3. /\ a \in Lines /\ b \in Lines
      /\ a.key = l.key /\ a.no = l.no /\ a.data = SubSeq(l.data, 1, q)
      /\ b.key = l.key /\ b.no = l.no /\ b.data = SubSeq(l.data, q + 1, Len(l.data))
  BY <1>1, <1>3b, HalvesAre
<1>3a. IsHalf(a, l, 0, q) /\ IsHalf(b, l, q, Len(l.data))
  BY <1>3 DEF IsHalf
<1>4. IsSplit(u, rec, p, a, b)
  BY <1>0, <1>3, <1>3b, SplitIs
<1>5. Cut(x, w) /\ w \in Seq(Lines) /\ y \in {0, 2} /\ n = Len(d.tracks) /\ Shape(w, d, y)
  BY DEF Holds, Shape
<1>6. IsSplit(rec', rec, p, a, b)
  BY <1>2, <1>4
<1>7. PICK z : Cut(z, w)'
  BY <1>0, <1>1, <1>3a, <1>5, <1>6, WrapCut DEF l
<1>8. Holds(d, n, y, w, z)'
  BY <1>5, <1>7 DEF Holds
<1>. QED
  BY <1>8

----------------------------------------------------------------------------
(* The other steps.                                                        *)

\* A record as it is written holds all that Reads says, before a step and behind it.
AllFresh ==
  \A d : \A old \in BOOLEAN :
    Writable(d) /\ rec = Record(d, old) => \E n, y, w, x : Holds(d, n, y, w, x)

\* It does, in every state.
LEMMA Fresh == AllFresh
  BY FreshHolds DEF AllFresh

\* While no read runs, Reads is about the record alone.
LEMMA IdleReads ==
  ASSUME pc' = "idle", NEW d, NEW n, NEW y, NEW w, NEW x, Holds(d, n, y, w, x)', d = DiscIconv(meant', 1)
  PROVE  RInv'
<1>1. Reads(d, n, y, w, x)'
  BY DEF Reads, Holds
<1>. QED
  BY <1>1 DEF RInv

\* Where the record, what it was written of and its being plain stay.
LEMMA RecordStays ==
  ASSUME RInv, pc' = "idle", rec' = rec, meant' = meant, plain' = plain
  PROVE  RInv'
<1>1. CASE ~plain
  BY <1>1 DEF RInv
<1>2. CASE plain
  <2>1. PICK d, n, y, w, x : d = DiscIconv(meant, 1) /\ Reads(d, n, y, w, x)
    BY <1>2 DEF RInv
  <2>2. Holds(d, n, y, w, x)
    BY <2>1 DEF Reads, Holds
  <2>3. Holds(d, n, y, w, x)'
    BY <2>2, HoldsStays
  <2>. QED
    BY <2>1, <2>3, IdleReads
<1>. QED
  BY <1>1, <1>2

\* What is written of a disc can be read.
LEMMA CodedWritable ==
  ASSUME NEW m, Writable(m)
  PROVE  Writable(DiscIconv(m, 1))
<1>1. m \in DiscData /\ 1 \in Int
  BY DEF Writable
<1>2. PICK c : c = DiscIconv(m, 1)
  OBVIOUS
<1>3. Writable(c)
  BY <1>1, <1>2, IconvKeeps
<1>. QED
  BY <1>2, <1>3

\* What the record was written of can be written.
LEMMA MeantIs ==
  ASSUME TypeInv
  PROVE  Writable(meant) /\ Writable(DiscIconv(meant, 1))
<1>1. Writable(meant)
  BY CallFacts DEF Typed
<1>. QED
  BY <1>1, CodedWritable

\* A first record holds it.
LEMMA ReadsInit == Init => RInv
<1> SUFFICES ASSUME Init PROVE RInv
  OBVIOUS
<1>1. TypeInv
  BY TypeInit
<1>2. PICK d : d = DiscIconv(meant, 1)
  OBVIOUS
<1>3. PICK old \in BOOLEAN : rec = Record(d, old)
  BY <1>2 DEF Init
<1>4. PICK n, y, w, x : Holds(d, n, y, w, x)
  BY <1>1, <1>2, <1>3, MeantIs, FreshHolds
<1>5. Reads(d, n, y, w, x)
  BY <1>4 DEF Init, Reads, Holds
<1>. QED
  BY <1>2, <1>5 DEF RInv

\* So does one that cddb_write writes.
LEMMA WriteReads ==
  ASSUME TypeInv, CddbWrite
  PROVE  RInv'
<1>1. Writable(disc)
  BY CallFacts DEF CddbWrite, Writable
<1>2. PICK d : d = DiscIconv(disc, 1)
  OBVIOUS
<1>3. Writable(d) /\ rec' = Record(d, FALSE) /\ d = DiscIconv(meant', 1)
  BY <1>1, <1>2, CodedWritable DEF CddbWrite, WriteData
<1>4. AllFresh'
  BY Fresh, PTL
<1>5. PICK n, y, w, x : Holds(d, n, y, w, x)'
  <2>1. \A e : \A old \in BOOLEAN :
          Writable(e) /\ rec' = Record(e, old) => \E n, y, w, x : Holds(e, n, y, w, x)'
    BY <1>4 DEF AllFresh
  <2>. QED
    BY <1>3, <2>1
<1>6. pc' = "idle"
  BY DEF CddbWrite, Call
<1>. QED
  BY <1>3, <1>5, <1>6, IdleReads

\* At the begin of a read nothing has been told.
LEMMA NothingTold ==
  ASSUME TypeInv, pc' = "reading", NEW d, NEW n, NEW y, NEW w, Given(d, n, y, w),
         at' = 0, state' = "start", multi_line' = "none", track_no' = 0, old_no' = -1,
         disc' = disc, before' = disc
  PROVE  Progress(d, n, y, w, 0, 0)'
<1>1. n \in Nat /\ n >= 1 /\ y \in Nat
  BY DEF Given
<1>2. Len(disc.tracks) \in Nat
  BY CallFacts, DiscFields
<1>3. Parser(n, y, w, 0)'
  BY <1>1 DEF Parser
<1>4. HeaderRead(d, n, 0)'
  BY <1>1, <1>2 DEF HeaderRead, Got
<1>5. DiscNameRead(d, n, 0, 0)' /\ YearRead(d, n, y, 0)' /\ GenreRead(n, y, w, 0)'
  BY <1>1 DEF DiscNameRead, YearRead, GenreRead
<1>6. TrackNamesRead(d, n, y, 0, 0)' /\ ExtRead(d, n, y, 0, 0)' /\ TrackExtsRead(d, n, y, 0, 0)'
  BY <1>1 DEF TrackNamesRead, ExtRead, TrackExtsRead
<1>7. OthersStay(n)'
  BY DEF OthersStay
<1>. QED
  BY <1>3, <1>4, <1>5, <1>6, <1>7 DEF Progress, Told

\* The begin of a read,
LEMMA BeginReads ==
  ASSUME TypeInv, RInv, CddbRead
  PROVE  RInv'
<1>1. CASE ~plain
  BY <1>1 DEF CddbRead, RInv
<1>2. CASE plain
  <2>1. PICK d, n, y, w, x : d = DiscIconv(meant, 1) /\ Reads(d, n, y, w, x)
    BY <1>2 DEF RInv
  <2>2. Holds(d, n, y, w, x)
    BY <2>1 DEF Reads, Holds
  <2>3. Holds(d, n, y, w, x)'
    BY <2>2, HoldsStays DEF CddbRead
  <2>4. Given(d, n, y, w)
    BY <2>1, <2>2, HoldsGiven, MeantIs
  <2>5. pc' = "reading" /\ at' = 0 /\ state' = "start" /\ multi_line' = "none" /\ track_no' = 0
        /\ old_no' = -1 /\ disc' = disc /\ before' = disc
    BY IdleLocals DEF CddbRead, Call
  <2>6. Progress(d, n, y, w, 0, 0)'
    BY <2>4, <2>5, NothingTold
  <2>7. Reached(x)' = Nowhere
    BY <2>5 DEF Reached
  <2>8. Nowhere.slot = 0 /\ Nowhere.to = 0
    BY DEF Nowhere
  <2>9. Progress(d, n, y, w, Reached(x).slot, Reached(x).to)'
    BY <2>6, <2>7, <2>8 DEF Progress, Parser, Told
  <2>10. at' <= Len(rec')
    BY <2>5, TypeFacts DEF CddbRead
  <2>11. Reads(d, n, y, w, x)'
    BY <2>3, <2>9, <2>10 DEF Reads, Holds
  <2>12. d = DiscIconv(meant', 1)
    BY <2>1 DEF CddbRead
  <2>. QED
    BY <2>11, <2>12 DEF RInv
<1>. QED
  BY <1>1, <1>2

\* a line of it,
LEMMA LineReads ==
  ASSUME TypeInv, RInv, Reading
  PROVE  RInv'
<1>1. Takes
  BY ReadingTypes
<1>2. plain' = plain /\ meant' = meant
  BY <1>1 DEF Takes, history
<1>3. CASE ~plain
  BY <1>2, <1>3 DEF RInv
<1>4. CASE plain
  <2>1. PICK d, n, y, w, x : d = DiscIconv(meant, 1) /\ Reads(d, n, y, w, x)
    BY <1>4 DEF RInv
  <2>2. Reads(d, n, y, w, x)'
    BY <2>1, MeantIs, ReadingReads
  <2>3. d = DiscIconv(meant', 1)
    BY <1>2, <2>1
  <2>. QED
    BY <2>2, <2>3 DEF RInv
<1>. QED
  BY <1>3, <1>4

\* and the database that splits a line or spoils the record.
LEMMA WrapReads ==
  ASSUME TypeInv, RInv, NEW p \in DOMAIN rec, rec[p].key \in Textual,
         NEW q \in 0..Len(rec[p].data), Wrap(p, q)
  PROVE  RInv'
<1>1. pc' = "idle" /\ meant' = meant /\ plain' = plain
  BY DEF Wrap, Changes
<1>2. CASE ~plain
  BY <1>1, <1>2 DEF RInv
<1>3. CASE plain
  <2>1. PICK d, n, y, w, x : d = DiscIconv(meant, 1) /\ Reads(d, n, y, w, x)
    BY <1>3 DEF RInv
  <2>2. Holds(d, n, y, w, x)
    BY <2>1 DEF Reads, Holds
  <2>3. PICK z : Holds(d, n, y, w, z)'
    BY <2>2, WrapHolds
  <2>4. d = DiscIconv(meant', 1)
    BY <1>1, <2>1
  <2>. QED
    BY <1>1, <2>3, <2>4, IdleReads
<1>. QED
  BY <1>2, <1>3

\* Where nothing happens it stays.
LEMMA NothingHappens ==
  ASSUME RInv, UNCHANGED recVars
  PROVE  RInv'
<1>1. /\ rec' = rec /\ disc' = disc /\ before' = before /\ meant' = meant /\ plain' = plain
      /\ pc' = pc /\ at' = at /\ state' = state /\ multi_line' = multi_line
      /\ track_no' = track_no /\ old_no' = old_no
  BY DEF recVars, locals, history
<1>2. CASE ~plain
  BY <1>1, <1>2 DEF RInv
<1>3. CASE plain
  <2>1. PICK d, n, y, w, x : d = DiscIconv(meant, 1) /\ Reads(d, n, y, w, x)
    BY <1>3 DEF RInv
  <2>2. Cut(x, w)' <=> Cut(x, w)
    BY <1>1 DEF Cut
  <2>3. ASSUME NEW j, NEW k PROVE Told(d, n, y, w, j, k)' <=> Told(d, n, y, w, j, k)
    <3>1. /\ HeaderRead(d, n, j)' <=> HeaderRead(d, n, j)
          /\ DiscNameRead(d, n, j, k)' <=> DiscNameRead(d, n, j, k)
          /\ YearRead(d, n, y, j)' <=> YearRead(d, n, y, j)
      BY <1>1 DEF HeaderRead, DiscNameRead, YearRead, Has
    <3>2. GenreRead(n, y, w, j)' <=> GenreRead(n, y, w, j)
      BY <1>1 DEF GenreRead, Has, LineOf
    <3>3. /\ TrackNamesRead(d, n, y, j, k)' <=> TrackNamesRead(d, n, y, j, k)
          /\ ExtRead(d, n, y, j, k)' <=> ExtRead(d, n, y, j, k)
          /\ TrackExtsRead(d, n, y, j, k)' <=> TrackExtsRead(d, n, y, j, k)
          /\ OthersStay(n)' <=> OthersStay(n)
      BY <1>1 DEF TrackNamesRead, ExtRead, TrackExtsRead, OthersStay
    <3>. QED
      BY <3>1, <3>2, <3>3 DEF Told
  <2>4. PICK j, k : j = Reached(x).slot /\ k = Reached(x).to
    OBVIOUS
  <2>5. Reached(x)' = Reached(x)
    BY <1>1 DEF Reached
  <2>6. Parser(n, y, w, j)' <=> Parser(n, y, w, j)
    BY <1>1 DEF Parser
  <2>7. Progress(d, n, y, w, j, k)' <=> Progress(d, n, y, w, j, k)
    BY <2>3, <2>6 DEF Progress
  <2>8. Progress(d, n, y, w, Reached(x).slot, Reached(x).to)' <=> Progress(d, n, y, w, j, k)'
    BY <2>4, <2>5 DEF Progress, Parser, Told
  <2>9. Told(d, n, y, w, Len(w), 0)' <=> Told(d, n, y, w, Len(w), 0)
    <3>1. PICK e : e = Len(w)
      OBVIOUS
    <3>2. Told(d, n, y, w, e, 0)' <=> Told(d, n, y, w, e, 0)
      BY <2>3
    <3>. QED
      BY <3>1, <3>2 DEF Told
  <2>10. Reads(d, n, y, w, x)'
    BY <1>1, <2>1, <2>2, <2>4, <2>7, <2>8, <2>9 DEF Reads
  <2>. QED
    BY <1>1, <2>1, <2>10 DEF RInv
<1>. QED
  BY <1>2, <1>3

\* Every step keeps what a read has told.
LEMMA ReadsNext == TypeInv /\ RInv /\ [Next]_recVars => RInv'
<1> SUFFICES ASSUME TypeInv, RInv, [Next]_recVars PROVE RInv'
  OBVIOUS
<1>1. CASE UNCHANGED recVars
  BY <1>1, NothingHappens
<1>2. CASE \/ \E x \in Contents \cup {NewDisc} : NewStructure(x)
           \/ CddbWriteFails
           \/ \E artist \in BOOLEAN : QueryMatch(artist)
  <2>1. pc' = "idle" /\ rec' = rec /\ meant' = meant /\ plain' = plain
    BY <1>2 DEF NewStructure, CddbWriteFails, QueryMatch, Call
  <2>. QED
    BY <2>1, RecordStays
<1>3. CASE CddbWrite
  BY <1>3, WriteReads
<1>4. CASE \E p \in {p \in DOMAIN rec : rec[p].key \in Textual} :
             Spoil(p) \/ \E q \in 0..Len(rec[p].data) : Wrap(p, q)
  <2>1. PICK p \in DOMAIN rec : rec[p].key \in Textual
                                /\ (Spoil(p) \/ \E q \in 0..Len(rec[p].data) : Wrap(p, q))
    BY <1>4
  <2>2. CASE Spoil(p)
    BY <2>2 DEF Spoil, RInv
  <2>3. CASE \E q \in 0..Len(rec[p].data) : Wrap(p, q)
    BY <2>1, <2>3, WrapReads
  <2>. QED
    BY <2>1, <2>2, <2>3
<1>5. CASE CddbRead
  BY <1>5, BeginReads
<1>6. CASE Reading
  BY <1>6, LineReads
<1>7. CASE TrackNotFound \/ ReadEnds
  <2>1. pc' = "idle" /\ rec' = rec /\ meant' = meant /\ plain' = plain
    BY <1>7 DEF TrackNotFound, ReadEnds, Returns
  <2>. QED
    BY <2>1, RecordStays
<1>. QED
  BY <1>1, <1>2, <1>3, <1>4, <1>5, <1>6, <1>7 DEF Next, Reading

\* The dot of a well-formed record ends the read, wherever the parser is by then: its last
\* line but the dot is the playing order, which leaves the parser waiting for the dot
\* (cddb_parse_record).
THEOREM ReadsEndWithDot == Spec => []EndsWithDot
<1>1. TypeInv /\ RInv => EndsWithDot
  <2> SUFFICES ASSUME TypeInv, RInv, pc = "reading", plain, at > Len(rec) PROVE state = "stop"
    BY DEF EndsWithDot
  <2>1. ~(at <= Len(rec))
    BY TypeFacts
  <2>. QED
    BY <2>1 DEF RInv, Reads
<1>. QED
  BY <1>1, TypeInit, TypeNext, ReadsInit, ReadsNext, PTL DEF Spec

----------------------------------------------------------------------------
(* What has been read when the record has been read.                       *)

\* All that a record has to tell.
Whole(d, n, y, w) ==
  /\ disc.length = d.length /\ disc.revision = d.revision
  /\ disc.artist = d.artist /\ disc.title = d.title /\ disc.ext_data = Read(d.ext_data)
  /\ Len(disc.tracks) = IF Len(before.tracks) > n THEN Len(before.tracks) ELSE n
  /\ \A i \in 1..n :
       /\ disc.tracks[i].frame_offset = d.tracks[i].frame_offset
       /\ disc.tracks[i].artist = d.tracks[i].artist /\ disc.tracks[i].title = d.tracks[i].title
       /\ disc.tracks[i].ext_data = Read(d.tracks[i].ext_data)
  /\ \A i \in (n + 1)..Len(disc.tracks) : disc.tracks[i] = before.tracks[i]
  /\ disc.year = IF Has("year") THEN d.year ELSE before.year
  /\ IF Has("genre") THEN disc.genre = LineOf("genre").data /\ disc.genre # Null
                     ELSE disc.genre = before.genre

\* A record has a year and a genre where its lines say so.
LEMMA KeysThere ==
  ASSUME TypeInv, NEW d, NEW n, NEW y, NEW w, NEW x, Given(d, n, y, w), Cut(x, w)
  PROVE  /\ Has("year") => y = 2
         /\ Has("genre") => y = 2 /\ w[n + 10].key = "genre"
<1>1. ASSUME NEW i \in DOMAIN rec
      PROVE  rec[i].key = "year" => y = 2
  <2>1. i \in 1..Len(rec)
    BY TypeFacts
  <2>2. PICK s \in 1..Len(w) : rec[i].key = w[s].key
    BY <2>1, CutAt
  <2>3. w[s].key = "year" => y = 2
    BY KeysAre
  <2>. QED
    BY <2>2, <2>3
<1>2. ASSUME NEW i \in DOMAIN rec
      PROVE  rec[i].key = "genre" => y = 2 /\ w[n + 10].key = "genre"
  <2>1. i \in 1..Len(rec)
    BY TypeFacts
  <2>2. PICK s \in 1..Len(w) : rec[i].key = w[s].key
    BY <2>1, CutAt
  <2>3. w[s].key = "genre" => y = 2 /\ s = n + 10
    BY KeysAre
  <2>. QED
    BY <2>2, <2>3
<1>. QED
  BY <1>1, <1>2 DEF Has

\* Behind its last line all of it has been told.
LEMMA ToldWhole ==
  ASSUME TypeInv, NEW d, NEW n, NEW y, NEW w, NEW x, NEW k, Given(d, n, y, w), Cut(x, w),
         Told(d, n, y, w, Len(w), k)
  PROVE  Whole(d, n, y, w)
<1>1. n \in Nat /\ n >= 1 /\ y \in Nat /\ y \in {0, 2} /\ Len(w) = 3 * n + 10 + y
  <2>1. Len(w) = 3 * n + 10 + y
    BY LinesAre
  <2>. QED
    BY <2>1 DEF Given
<1>2. PICK j : j = Len(w)
  OBVIOUS
<1>3. /\ j > n + 8 /\ n + 4 <= j /\ n + 6 <= j /\ j > 2 * n + 9 + y /\ j >= n + 9 /\ ~(j < 2)
      /\ j > n + 2 /\ (y = 2 => j >= n + 10)
      /\ \A i \in 1..n : 2 + i <= j /\ j > n + 8 + y + i /\ j > 2 * n + 9 + y + i
  BY <1>1, <1>2
<1>4. Told(d, n, y, w, j, k)
  BY <1>2
<1>5. /\ HeaderRead(d, n, j) /\ DiscNameRead(d, n, j, k) /\ YearRead(d, n, y, j)
      /\ GenreRead(n, y, w, j) /\ TrackNamesRead(d, n, y, j, k) /\ ExtRead(d, n, y, j, k)
      /\ TrackExtsRead(d, n, y, j, k) /\ OthersStay(n)
  BY <1>4 DEF Told
<1>6. /\ disc.length = d.length /\ disc.revision = d.revision
      /\ \A i \in 1..n : disc.tracks[i].frame_offset = d.tracks[i].frame_offset
  BY <1>3, <1>5 DEF HeaderRead
<1>7. Len(disc.tracks) = IF Len(before.tracks) > n THEN Len(before.tracks) ELSE n
  BY <1>3, <1>5 DEF HeaderRead, Got
<1>8. disc.artist = d.artist /\ disc.title = d.title
  BY <1>3, <1>5 DEF DiscNameRead
<1>9. disc.ext_data = Read(d.ext_data)
  BY <1>3, <1>5 DEF ExtRead
<1>10. \A i \in 1..n : disc.tracks[i].artist = d.tracks[i].artist /\ disc.tracks[i].title = d.tracks[i].title
  BY <1>3, <1>5 DEF TrackNamesRead
<1>11. \A i \in 1..n : disc.tracks[i].ext_data = Read(d.tracks[i].ext_data)
  BY <1>3, <1>5 DEF TrackExtsRead
<1>12. disc.year = IF Has("year") THEN d.year ELSE before.year
  BY <1>3, <1>5, KeysThere DEF YearRead
<1>13. IF Has("genre") THEN disc.genre = LineOf("genre").data /\ disc.genre # Null
                       ELSE disc.genre = before.genre
  <2>1. Has("genre") => y = 2 /\ w[n + 10].key = "genre"
    BY KeysThere
  <2>. QED
    BY <1>3, <1>5, <2>1 DEF GenreRead
<1>. QED
  BY <1>5, <1>6, <1>7, <1>8, <1>9, <1>10, <1>11, <1>12, <1>13 DEF Whole, OthersStay

\* A text that is empty comes back as none.
LEMMA CodedRead ==
  ASSUME NEW t \in Texts
  PROVE  Coded(Read(Coded(t, 1)), -1) = Read(t)
<1>1. CASE t = Null \/ ~Charset
  <2>1. Coded(t, 1) = t /\ Read(t) \in {t, Null} /\ (t = Null => Read(t) = Null)
    BY <1>1 DEF Coded, TextIconv, Read
  <2>. QED
    BY <1>1, <2>1 DEF Coded, TextIconv
<1>2. CASE t # Null /\ Charset
  <2>1. t \in Seq(Words)
    BY <1>2 DEF Texts
  <2> DEFINE u == StrIconv(t, 1)
  <2>2. u \in Seq(Words) /\ Len(u) = Len(t) /\ Coded(t, 1) = u /\ u # Null
    BY <1>2, <2>1, StrIconvIs DEF Coded, TextIconv
  <2>3. Coded(u, -1) = t
    BY <2>2, CodedBack
  <2> HIDE DEF u
  <2>4. u = <<>> <=> t = <<>>
    BY <2>1, <2>2
  <2>5. CASE t = <<>>
    BY <2>2, <2>4, <2>5 DEF Read, Coded, TextIconv
  <2>6. CASE t # <<>>
    BY <2>2, <2>3, <2>4, <2>6 DEF Read
  <2>. QED
    BY <2>5, <2>6
<1>. QED
  BY <1>1, <1>2

\* A track comes back as it was written.
LEMMA TrackBack ==
  ASSUME NEW t \in TrackData, NEW d, d = CodedTrack(t, 1), NEW r \in TrackData,
         r.frame_offset = d.frame_offset, r.artist = d.artist, r.title = d.title,
         r.ext_data = Read(d.ext_data), NEW c, c = CodedTrack(r, -1)
  PROVE  c = [t EXCEPT !.ext_data = Read(@)]
<1>1. t.title \in Texts /\ t.artist \in Texts /\ t.ext_data \in Texts
  BY DEF TrackData
<1>2. /\ d.frame_offset = t.frame_offset /\ d.title = Coded(t.title, 1)
      /\ d.artist = Coded(t.artist, 1) /\ d.ext_data = Coded(t.ext_data, 1)
  BY CodedTrackIs
<1>3. /\ c \in TrackData /\ c.frame_offset = r.frame_offset /\ c.title = Coded(r.title, -1)
      /\ c.artist = Coded(r.artist, -1) /\ c.ext_data = Coded(r.ext_data, -1)
  BY CodedTrackIs
<1>4. c.title = t.title /\ c.artist = t.artist /\ c.ext_data = Read(t.ext_data)
  BY <1>1, <1>2, <1>3, CodedBack, CodedRead
<1>5. c.frame_offset = t.frame_offset
  BY <1>2, <1>3
<1>. QED
  BY <1>3, <1>4, <1>5 DEF TrackData

\* A text that is empty in one character set is empty in the other.
LEMMA EmptyCoded ==
  ASSUME NEW t \in Texts
  PROVE  TextOf(Coded(t, 1)) = <<>> <=> TextOf(t) = <<>>
<1>1. CASE t = Null \/ ~Charset
  BY <1>1 DEF Coded, TextIconv
<1>2. CASE t # Null /\ Charset
  <2>1. t \in Seq(Words)
    BY <1>2 DEF Texts
  <2> DEFINE u == StrIconv(t, 1)
  <2>2. u \in Seq(Words) /\ Len(u) = Len(t) /\ Coded(t, 1) = u /\ u # Null
    BY <1>2, <2>1, StrIconvIs DEF Coded, TextIconv
  <2> HIDE DEF u
  <2>3. u = <<>> <=> t = <<>>
    BY <2>1, <2>2
  <2>. QED
    BY <1>2, <2>2, <2>3 DEF TextOf
<1>. QED
  BY <1>1, <1>2

\* The genre a record has is that of the disc, converted; the name of a category is the
\* same in both character sets.
LEMMA GenreBack ==
  ASSUME NEW e \in DiscData, NEW d, IsCoded(d, e, 1)
  PROVE  Coded(Genre(d), -1) = Genre(e)
<1>1. e.genre \in Texts /\ d.genre = Coded(e.genre, 1) /\ d.category = e.category
      /\ e.category \in Vocabulary /\ e.category \in Ascii
  BY DiscFields DEF IsCoded, Categories
<1>2. CASE TextOf(e.genre) # <<>>
  <2>1. Genre(d) = d.genre /\ Genre(e) = e.genre
    BY <1>1, <1>2, EmptyCoded DEF Genre
  <2>. QED
    BY <1>1, <2>1, CodedBack
<1>3. CASE TextOf(e.genre) = <<>>
  <2> DEFINE g == <<Word(e.category)>>
             v == StrIconv(g, -1)
  <2>1. Genre(d) = g /\ Genre(e) = g
    BY <1>1, <1>3, EmptyCoded DEF Genre
  <2>2. Word(e.category) \in Words /\ Word(e.category).w \in Ascii
    BY <1>1 DEF Word, Words
  <2>3. g \in Seq(Words) /\ Len(g) = 1 /\ g[1].w \in Ascii
    BY <2>2
  <2> HIDE DEF g
  <2>4. -1 \in Int
    OBVIOUS
  <2>5. /\ v \in Seq(Words) /\ Len(v) = 1
        /\ \A i \in 1..Len(g) : v[i].w = g[i].w /\ v[i].enc = g[i].enc
    BY <2>3, <2>4, StrIconvIs
  <2>6. g # Null
    BY <2>3, NullIsNoText
  <2> HIDE DEF v
  <2>7. v = g
    BY <2>3, <2>5, WordsEqual
  <2>. QED
    BY <2>1, <2>6, <2>7 DEF Coded, TextIconv, v
<1>. QED
  BY <1>2, <1>3

\* A genre that is not split is whole.
LEMMA OnceWhole ==
  ASSUME TypeInv, NEW d, NEW n, NEW y, NEW w, NEW x, Given(d, n, y, w), Cut(x, w),
         Once("genre")
  PROVE  Has("genre") /\ LineOf("genre").data = Genre(d)
<1>1. PICK i \in DOMAIN rec :
        rec[i].key = "genre" /\ \A j \in DOMAIN rec : rec[j].key = "genre" => j = i
  BY DEF Once
<1>2. DOMAIN rec = 1..Len(rec) /\ Len(rec) \in Nat /\ i \in 1..Len(rec)
  BY TypeFacts
<1>3. LineOf("genre") = rec[i]
  <2> DEFINE P(k) == rec[k].key = "genre" /\ \A q \in 1..(k - 1) : rec[q].key # "genre"
  <2>1. P(i)
    <3> SUFFICES ASSUME NEW q \in 1..(i - 1), rec[q].key = "genre" PROVE FALSE
      BY <1>1
    <3>1. q \in 1..Len(rec) /\ q # i
      BY <1>2
    <3>. QED
      BY <1>1, <1>2, <3>1
  <2>2. \A k \in DOMAIN rec : P(k) => k = i
    BY <1>1
  <2>3. (CHOOSE k \in DOMAIN rec : P(k)) = i
    BY <2>1, <2>2
  <2>4. LineOf("genre") = rec[CHOOSE k \in DOMAIN rec : P(k)]
    BY DEF LineOf
  <2>. QED
    BY <2>3, <2>4
<1>4. n \in Nat /\ n >= 1 /\ y \in {0, 2} /\ Len(w) = 3 * n + 10 + y /\ w \in Seq(Lines)
      /\ BodyLines(d, n, y, w)
  <2>1. Len(w) = 3 * n + 10 + y /\ w \in Seq(Lines) /\ BodyLines(d, n, y, w)
    BY LinesAre
  <2>. QED
    BY <2>1 DEF Given
<1>5. \A k \in 1..Len(rec) : x[k].slot = n + 10 => rec[k].key = w[n + 10].key
  BY CutAt
<1>6. x[i].slot = n + 10 /\ y = 2 /\ w[n + 10].key = "genre" /\ IsPiece(rec[i], x[i], w)
      /\ x[i] \in Pieces
  <2>1. IsPiece(rec[i], x[i], w) /\ x[i] \in Pieces /\ x[i].slot \in 1..Len(w)
        /\ rec[i].key = w[x[i].slot].key
    BY <1>2, CutAt
  <2>2. PICK s : s = x[i].slot
    OBVIOUS
  <2>3. s \in 1..Len(w) /\ w[s].key = "genre"
    BY <1>1, <2>1, <2>2
  <2>4. y = 2 /\ s = n + 10
    BY <2>3, KeysAre
  <2>. QED
    BY <2>1, <2>2, <2>3, <2>4
<1>7. \A k \in 1..Len(rec) : k # i => x[k].slot # n + 10
  BY <1>1, <1>2, <1>5, <1>6
<1>8. w[n + 10].data = Genre(d)
  BY <1>4, <1>6 DEF BodyLines
<1>9. w[n + 10].data \in Seq(Words)
  <2>1. n + 10 \in 1..Len(w)
    BY <1>4, <1>6
  <2>2. w[n + 10] \in Lines
    BY <1>4, <2>1
  <2>. QED
    BY <1>6, <2>2 DEF Lines, Textual
<1>10. x[i].from = 0
  <2>1. CASE i = 1
    <3>1. Follows(Nowhere, x[i], w)
      BY <2>1 DEF Cut
    <3>2. x[i].slot = 0 \/ x[i].slot = 1
      BY <3>1 DEF Follows, Continued, Begun, Nowhere
    <3>. QED
      BY <1>4, <1>6, <3>2
  <2>2. CASE i # 1
    <3>1. PICK h : h = i - 1
      OBVIOUS
    <3>2. h \in 1..Len(rec) /\ h + 1 = i /\ h + 1 \in 1..Len(rec) /\ h # i
      BY <1>2, <2>2, <3>1
    <3>3. Follows(x[h], x[h + 1], w)
      BY <3>2 DEF Cut
    <3>4. ~Continued(x[h], x[i], w)
      BY <1>6, <1>7, <3>2 DEF Continued
    <3>. QED
      BY <3>2, <3>3, <3>4 DEF Follows, Begun
  <2>. QED
    BY <2>1, <2>2
<1>11. x[i].to = Len(w[n + 10].data)
  <2>1. i # Len(rec)
    <3>1. x[Len(rec)].slot = Len(w)
      BY DEF Cut
    <3>. QED
      BY <1>4, <1>6, <3>1
  <2>2. i + 1 \in 1..Len(rec) /\ i + 1 # i
    BY <1>2, <2>1
  <2>3. Follows(x[i], x[i + 1], w)
    BY <1>2, <2>2 DEF Cut
  <2>4. ~Continued(x[i], x[i + 1], w)
    BY <1>6, <1>7, <2>2 DEF Continued
  <2>5. Begun(x[i], x[i + 1], w)
    BY <2>3, <2>4 DEF Follows
  <2>6. n + 10 # 0
    BY <1>4
  <2>. QED
    BY <1>6, <2>5, <2>6 DEF Begun, Textual
<1>12. rec[i].data = w[n + 10].data
  <2>1. rec[i].data = SubSeq(w[n + 10].data, x[i].from + 1, x[i].to)
    BY <1>1, <1>6 DEF IsPiece, Textual
  <2>2. PICK t : t = w[n + 10].data
    OBVIOUS
  <2>3. SubSeq(t, 0 + 1, Len(t)) = t
    BY <1>9, <2>2
  <2>. QED
    BY <1>10, <1>11, <2>1, <2>2, <2>3
<1>. QED
  BY <1>1, <1>3, <1>8, <1>12 DEF Has

\* What ReadTells promises of the disc c that was read, where e was written and f was in
\* the structure before.
Says(c, e, f) ==
  /\ c.length = e.length /\ c.revision = e.revision
  /\ c.artist = e.artist /\ c.title = e.title
  /\ c.ext_data = Read(e.ext_data)
  /\ DOMAIN e.tracks \subseteq DOMAIN c.tracks
  /\ DOMAIN c.tracks \subseteq DOMAIN e.tracks \cup DOMAIN f.tracks
  /\ \A i \in DOMAIN e.tracks : c.tracks[i] = [e.tracks[i] EXCEPT !.ext_data = Read(@)]
  /\ Has("year") => c.year = e.year
  /\ Once("genre") => c.genre = Genre(e)

\* Converted back it is what ReadTells promises.
LEMMA WholeSays ==
  ASSUME TypeInv, NEW e, e = meant, NEW d, d = DiscIconv(e, 1), NEW n, NEW y, NEW w,
         n = Len(d.tracks), Whole(d, n, y, w), NEW x, Given(d, n, y, w), Cut(x, w),
         NEW c, c = DiscIconv(disc, -1), NEW f, f = before
  PROVE  Says(c, e, f)
<1>1. e \in DiscData /\ disc \in DiscData /\ f \in DiscData /\ -1 \in Int /\ 1 \in Int
  BY TypeFacts DEF Good
<1>2. IsCoded(d, e, 1)
  BY <1>1, DiscIconvIs
<1>3. IsCoded(c, disc, -1)
  BY <1>1, DiscIconvIs
<1>5. Len(e.tracks) = n /\ n \in Nat /\ Len(f.tracks) \in Nat /\ Len(disc.tracks) \in Nat
      /\ Len(c.tracks) = Len(disc.tracks) /\ DOMAIN c.tracks = 1..Len(disc.tracks)
  BY <1>1, <1>2, <1>3, DiscFields DEF IsCoded
<1>6. c.length = e.length /\ c.revision = e.revision
  BY <1>2, <1>3 DEF Whole, IsCoded
<1>7. c.artist = e.artist /\ c.title = e.title /\ c.ext_data = Read(e.ext_data)
  <2>1. e.artist \in Texts /\ e.title \in Texts /\ e.ext_data \in Texts
    BY <1>1, DiscFields
  <2>2. c.artist = Coded(Coded(e.artist, 1), -1) /\ c.title = Coded(Coded(e.title, 1), -1)
        /\ c.ext_data = Coded(Read(Coded(e.ext_data, 1)), -1)
    BY <1>2, <1>3 DEF Whole, IsCoded
  <2>. QED
    BY <2>1, <2>2, CodedBack, CodedRead
<1>8. /\ DOMAIN e.tracks \subseteq DOMAIN c.tracks
      /\ DOMAIN c.tracks \subseteq DOMAIN e.tracks \cup DOMAIN f.tracks
  <2>1. Len(disc.tracks) = IF Len(f.tracks) > n THEN Len(f.tracks) ELSE n
    BY DEF Whole
  <2>2. DOMAIN e.tracks = 1..n /\ DOMAIN f.tracks = 1..Len(f.tracks)
    BY <1>1, <1>5, DiscFields
  <2>. QED
    BY <1>5, <2>1, <2>2
<1>9. ASSUME NEW i \in DOMAIN e.tracks
      PROVE  c.tracks[i] = [e.tracks[i] EXCEPT !.ext_data = Read(@)]
  <2>1. i \in 1..n /\ e.tracks[i] \in TrackData
    BY <1>1, <1>5, DiscFields
  <2>2. i \in 1..Len(disc.tracks)
    BY <1>5, <1>8
  <2>3. disc.tracks[i] \in TrackData /\ c.tracks[i] = CodedTrack(disc.tracks[i], -1)
    BY <1>1, <1>3, <2>2, DiscFields DEF IsCoded
  <2>4. d.tracks[i] = CodedTrack(e.tracks[i], 1)
    BY <1>2, <1>5, <2>1 DEF IsCoded
  <2>5. PICK t, s, r, v : t = e.tracks[i] /\ s = d.tracks[i] /\ r = disc.tracks[i] /\ v = c.tracks[i]
    OBVIOUS
  <2>6. r.frame_offset = s.frame_offset /\ r.artist = s.artist /\ r.title = s.title
        /\ r.ext_data = Read(s.ext_data)
    BY <2>1, <2>5 DEF Whole
  <2>7. t \in TrackData /\ r \in TrackData /\ s = CodedTrack(t, 1) /\ v = CodedTrack(r, -1)
    BY <2>1, <2>3, <2>4, <2>5
  <2>8. v = [t EXCEPT !.ext_data = Read(@)]
    BY <2>6, <2>7, TrackBack
  <2>. QED
    BY <2>5, <2>8
<1>10. Has("year") => c.year = e.year
  BY <1>2, <1>3 DEF Whole, IsCoded
<1>11. Once("genre") => c.genre = Genre(e)
  <2> SUFFICES ASSUME Once("genre") PROVE c.genre = Genre(e)
    OBVIOUS
  <2>1. Has("genre") /\ LineOf("genre").data = Genre(d)
    BY OnceWhole
  <2>2. disc.genre = Genre(d)
    BY <2>1 DEF Whole
  <2>3. c.genre = Coded(Genre(d), -1)
    BY <1>3, <2>2 DEF IsCoded
  <2>. QED
    BY <1>1, <1>2, <2>3, GenreBack
<1>. QED
  BY <1>6, <1>7, <1>8, <1>9, <1>10, <1>11 DEF Says

\* Before the dot the parser does not stop.
LEMMA NeverStops ==
  ASSUME NEW d, NEW n, NEW y, NEW w, Given(d, n, y, w), NEW j \in 0..Len(w), Parser(n, y, w, j)
  PROVE  state # "stop"
<1>1. n \in Nat /\ n >= 1 /\ y \in Nat /\ y \in {0, 2} /\ Len(w) = 3 * n + 10 + y
  <2>1. Len(w) = 3 * n + 10 + y
    BY LinesAre
  <2>. QED
    BY <2>1 DEF Given
<1>2. CASE j <= n + 8
  <2>1. \/ j <= 1 \/ (2 <= j /\ j <= n + 2) \/ j = n + 3 \/ (n + 4 <= j /\ j <= n + 5)
        \/ (n + 6 <= j /\ j <= n + 8)
    BY <1>1, <1>2
  <2>. QED
    BY <2>1 DEF Parser
<1>3. CASE ~(j <= n + 8)
  <2>1. \/ (y = 2 /\ j = n + 9) \/ (y = 2 /\ j = n + 10) \/ (n + 8 + y < j /\ j < 2 * n + 9 + y)
        \/ j = 2 * n + 9 + y \/ (2 * n + 9 + y < j /\ j < 3 * n + 10 + y) \/ j = 3 * n + 10 + y
    BY <1>1, <1>3
  <2>. QED
    BY <2>1 DEF Parser
<1>. QED
  BY <1>2, <1>3

\* A well-formed record is only left unread where something went wrong.
LEMMA EndsTold ==
  ASSUME TypeInv, pc = "reading", ~Comes, NEW d, NEW n, NEW y, NEW w, NEW x, Writable(d),
         Reads(d, n, y, w, x)
  PROVE  \E k : Told(d, n, y, w, Len(w), k)
<1>1. Given(d, n, y, w) /\ Cut(x, w)
  BY HoldsGiven DEF Reads, Holds
<1>2. at \in Nat /\ Len(rec) \in Nat
  BY TypeFacts
<1>3. CASE at <= Len(rec)
  <2>1. Progress(d, n, y, w, Reached(x).slot, Reached(x).to)
    BY <1>3 DEF Reads
  <2>2. PICK j, k : j = Reached(x).slot /\ k = Reached(x).to
    OBVIOUS
  <2>3. Progress(d, n, y, w, j, k)
    BY <2>1, <2>2
  <2>4. j \in 0..Len(w)
    <3>1. CASE at = 0
      BY <1>1, <2>2, <3>1, LinesAre DEF Reached, Nowhere
    <3>2. CASE at # 0
      <4>1. at \in 1..Len(rec)
        BY <1>2, <1>3, <3>2
      <4>2. x[at].slot \in 1..Len(w)
        BY <1>1, <4>1, CutAt
      <4>. QED
        BY <2>2, <3>2, <4>2 DEF Reached
    <3>. QED
      BY <3>1, <3>2
  <2>5. state # "stop"
    BY <1>1, <2>3, <2>4, NeverStops DEF Progress
  <2>6. at = Len(rec)
    BY <1>2, <1>3, <2>5 DEF Comes
  <2>7. j = Len(w)
    BY <1>1, <1>2, <2>2, <2>6 DEF Cut, Reached
  <2>. QED
    BY <2>3, <2>7 DEF Progress
<1>4. CASE ~(at <= Len(rec))
  BY <1>4 DEF Reads
<1>. QED
  BY <1>3, <1>4

\* The end of a read tells all that was written,
LEMMA EndTells ==
  ASSUME TypeInv, RInv, ReadEnds
  PROVE  ReadTells'
<1> SUFFICES ASSUME HasRead' PROVE ReadTells'
  BY DEF ReadTells
<1>1. /\ pc = "reading" /\ rec' = rec /\ meant' = meant /\ before' = before /\ plain' = plain
      /\ ret' = "ok" /\ fit' /\ plain'
  BY DEF HasRead, ReadEnds
<1>2. disc' = DiscIconv(disc, -1) /\ ~Comes
  BY <1>1 DEF ReadEnds
<1>3. PICK d, n, y, w, x : d = DiscIconv(meant, 1) /\ Reads(d, n, y, w, x)
  BY <1>1 DEF RInv
<1>4. Writable(d)
  BY <1>3, MeantIs
<1>5. PICK k : Told(d, n, y, w, Len(w), k)
  BY <1>1, <1>2, <1>3, <1>4, EndsTold
<1>6. Given(d, n, y, w) /\ Cut(x, w) /\ n = Len(d.tracks)
  BY <1>3, <1>4, HoldsGiven DEF Reads, Holds
<1>7. Whole(d, n, y, w)
  BY <1>5, <1>6, ToldWhole
<1>8. PICK c, e, f : c = disc' /\ e = meant /\ f = before
  OBVIOUS
<1>9. Says(c, e, f)
  <2>1. d = DiscIconv(e, 1) /\ c = DiscIconv(disc, -1)
    BY <1>2, <1>3, <1>8
  <2>. QED
    BY <1>6, <1>7, <1>8, <2>1, WholeSays
<1>10. Says(c, e, f)'
  BY <1>1, <1>9 DEF Says, Has, Once
<1>11. c = disc' /\ e = meant' /\ f = before'
  BY <1>1, <1>8
<1>. QED
  BY <1>10, <1>11 DEF ReadTells, Says

\* and no other step ends a read that has gone well.
LEMMA TellsNext == TypeInv /\ RInv /\ ReadTells /\ [Next]_recVars => ReadTells'
<1> SUFFICES ASSUME TypeInv, RInv, ReadTells, [Next]_recVars PROVE ReadTells'
  OBVIOUS
<1>1. CASE UNCHANGED recVars
  <2>1. /\ rec' = rec /\ disc' = disc /\ before' = before /\ meant' = meant /\ plain' = plain
        /\ pc' = pc /\ ret' = ret /\ fit' = fit
    BY <1>1 DEF recVars, locals, history
  <2>. QED
    BY <2>1 DEF ReadTells, HasRead, Has, Once
<1>2. CASE \/ \E x \in Contents \cup {NewDisc} : NewStructure(x)
           \/ CddbWrite \/ CddbWriteFails \/ TrackNotFound
           \/ \E artist \in BOOLEAN : QueryMatch(artist)
  <2>1. ~fit'
    BY <1>2 DEF NewStructure, CddbWrite, CddbWriteFails, TrackNotFound, QueryMatch
  <2>. QED
    BY <2>1 DEF ReadTells, HasRead
<1>3. CASE \E p \in {p \in DOMAIN rec : rec[p].key \in Textual} :
             Spoil(p) \/ \E q \in 0..Len(rec[p].data) : Wrap(p, q)
  <2>1. ~fit'
    BY <1>3 DEF Spoil, Wrap, Changes
  <2>. QED
    BY <2>1 DEF ReadTells, HasRead
<1>4. CASE CddbRead
  <2>1. pc' # "idle"
    BY <1>4 DEF CddbRead
  <2>. QED
    BY <2>1 DEF ReadTells, HasRead
<1>5. CASE Reading
  <2>1. Takes
    BY <1>5, ReadingTypes
  <2>2. pc' # "idle"
    BY <2>1 DEF Takes, Comes
  <2>. QED
    BY <2>2 DEF ReadTells, HasRead
<1>6. CASE ReadEnds
  BY <1>6, EndTells
<1>. QED
  BY <1>1, <1>2, <1>3, <1>4, <1>5, <1>6 DEF Next, Reading

\* What a record says of a disc comes back as it was written, in the character set of the
\* application, into whatever structure it is read and however the database has split its
\* lines, but for a genre that is split; nothing is said of what the record does not have
\* (cddb_write_data, cddb_parse_record, cddb_disc_iconv).
THEOREM RecordsReadBack == Spec => []ReadTells
<1>1. Init => ReadTells
  BY DEF Init, ReadTells, HasRead
<1>. QED
  BY <1>1, TypeInit, TypeNext, ReadsInit, ReadsNext, TellsNext, PTL DEF Spec
=============================================================================
