----------------------------- MODULE CddbRecord -----------------------------
(***************************************************************************)
(* The record of a disc, as cddb_write makes it of a disc structure and as *)
(* cddb_parse_record reads it, line by line, into one: keywords, lines     *)
(* that continue the one before, " / " between artist and title, and the   *)
(* conversion between the character sets of the application and of the     *)
(* database.                                                               *)
(*                                                                         *)
(* A text is a sequence of words, Slash for " / "; a word has the number   *)
(* of times it was converted to the character set of the database more     *)
(* often than back.  How lines come in is the subject of CddbConn and      *)
(* CddbNet, which file they are stored in that of CddbCache.               *)
(***************************************************************************)
EXTENDS Integers, SequencesExt, FiniteSetsExt

CONSTANTS
  Null,       \* NULL
  Charset,    \* the application has set a character set
  Vocabulary, \* the words of texts and the names of categories
  Ascii,      \* the words that are the same in every character set
  Contents,   \* the discs the application or another client writes of
  Faults,     \* what may go wrong: "iconv", "comment", "track", "cut"
  MaxEvents,  \* bound on the number of faults and of lines that are split in two
  MaxCalls    \* bound on the number of calls that write, query or read

\* A text is NULL or its words, which may be none.
Words == [w : Vocabulary, enc : Int]
Texts == Seq(Words) \cup {Null}

TrackData == [frame_offset : Nat \cup {-1}, title : Texts, artist : Texts, ext_data : Texts]

\* The names of the categories are ASCII.
Categories == Vocabulary \cap Ascii

DiscData ==
  [ length : Nat, revision : Nat, year : Nat, category : Categories, genre : Texts,
    title : Texts, artist : Texts, ext_data : Texts, tracks : Seq(TrackData) ]

\* What cddb_write asks of a disc; the disc id and the category are taken as given.
Complete(d) ==
  /\ d.length # 0 /\ d.tracks # <<>> /\ d.artist # Null /\ d.title # Null
  /\ \A i \in DOMAIN d.tracks : d.tracks[i].frame_offset # -1 /\ d.tracks[i].title # Null

\* No artist and no title has a " / " of its own.
Undivided(text) == text = Null \/ \A i \in DOMAIN text : text[i].w # "/"

AllUndivided(d) ==
  /\ Undivided(d.artist) /\ Undivided(d.title)
  /\ \A i \in DOMAIN d.tracks : Undivided(d.tracks[i].artist) /\ Undivided(d.tracks[i].title)

ASSUME VocabularyAssumption == "/" \in Vocabulary /\ "misc" \in Categories
ASSUME NullIsNoText == Null \notin Seq(Words)
ASSUME ContentsAssumption ==
  \A d \in Contents : d \in DiscData /\ Complete(d) /\ AllUndivided(d) /\ d.year < 10000
ASSUME CharsetAssumption == Charset \in BOOLEAN
ASSUME FaultsAssumption == Faults \subseteq {"iconv", "comment", "track", "cut"}
ASSUME BoundAssumption == {MaxEvents, MaxCalls} \subseteq Nat

VARIABLES
  rec,        \* the lines of the record in the database or the cache
  disc,       \* the disc structure of the application
  pc,         \* "idle" or "reading"
  at,         \* the lines of the record that have been read
  dotted,     \* a server sends a dot behind the record, a file has none
  state, multi_line, track_no, old_no,  \* locals of cddb_parse_record
  ret,        \* what the last call returned
  calls, events,  \* counters for the bounds
  meant,      \* history: the disc the record is of
  before,     \* history: the disc structure when the last read began
  plain,      \* history: nobody has put lines into the record
  fit         \* history: the last call was a read, and it saw the end of the record

locals  == <<at, dotted, state, multi_line, track_no, old_no>>
history == <<meant, before, plain, fit>>
recVars == <<rec, disc, pc, locals, ret, calls, events, history>>

Word(w) == [w |-> w, enc |-> 0]
Slash   == Word("/")

\* cddb_track_new, and what matters here of cddb_disc_new.
NewTrack == [frame_offset |-> -1, title |-> Null, artist |-> Null, ext_data |-> Null]

NewDisc ==
  [ length |-> 0, revision |-> 0, year |-> 0, category |-> "misc", genre |-> Null,
    title |-> Null, artist |-> Null, ext_data |-> Null, tracks |-> <<>> ]

Extended(text, more) == IF text = Null THEN more ELSE text \o more

----------------------------------------------------------------------------
(* Character sets.                                                         *)

\* cddb_str_iconv.
StrIconv(text, by) ==
  [i \in DOMAIN text |->
     IF text[i].w \in Ascii THEN text[i] ELSE [text[i] EXCEPT !.enc = @ + by]]

\* The texts of a disc in the order they are converted in: cddb_disc_iconv and, for
\* each track, cddb_track_iconv.
DiscTexts  == <<"genre", "title", "artist", "ext_data">>
TrackTexts == <<"title", "artist", "ext_data">>

TextAt(d, n) ==
  IF n <= 4 THEN d[DiscTexts[n]]
  ELSE d.tracks[((n - 5) \div 3) + 1][TrackTexts[((n - 5) % 3) + 1]]

TextNumbers(d) == 1..(4 + 3 * Len(d.tracks))

\* The disc with its first n texts converted; NULL is left out.
Converted(d, by, n) ==
  LET Text(k, text) == IF k > n \/ text = Null THEN text ELSE StrIconv(text, by)
      Track(j, t) == [t EXCEPT !.title = Text(3 * j + 2, @), !.artist = Text(3 * j + 3, @),
                               !.ext_data = Text(3 * j + 4, @)]
  IN [d EXCEPT
       !.genre = Text(1, @), !.title = Text(2, @), !.artist = Text(3, @),
       !.ext_data = Text(4, @), !.tracks = [j \in DOMAIN @ |-> Track(j, @[j])]]

\* cddb_disc_iconv: without a character set nothing is converted.
DiscIconv(d, by) == IF Charset THEN Converted(d, by, 4 + 3 * Len(d.tracks)) ELSE d

Event == events < MaxEvents /\ events' = events + 1

Fault(kind) == kind \in Faults /\ Event

\* It fails at one text and leaves those before it converted.
DiscIconvFails(d, by) ==
  /\ Charset /\ Fault("iconv")
  /\ \E n \in {n \in TextNumbers(d) : TextAt(d, n) # Null} : disc' = Converted(d, by, n - 1)

----------------------------------------------------------------------------
(* Writing a record.                                                       *)

\* data is a text or a number, no the number of a track.
Line(key, no, data) == [key |-> key, no |-> no, data |-> data]

\* A line no state of the parser looks for: a comment, DISCID.
Other == Line("other", 0, <<>>)

Textual == {"title", "genre", "ttitle", "ext", "extt"}

Lines ==
  [key : {"offset", "length", "revision", "year"}, no : Nat, data : Nat]
  \cup [key : Textual, no : Nat, data : Seq(Words)]
  \cup [key : {"other", "offsets", "hidden", "order"}, no : Nat, data : {<<>>}]

\* "EXTD=" stands for NULL.
TextOf(text) == IF text = Null THEN <<>> ELSE text

\* The year gets four places.  One of three digits leaves the end of its text in front
\* of the next line, which is empty for its reader then.  (Shorter ones leave bytes
\* besides that nobody has written, and one of five digits takes the rest of the record
\* with it.)
Hidden == Line("hidden", 0, <<>>)

\* A disc without a genre has its category for it.
Genre(d) == IF TextOf(d.genre) # <<>> THEN d.genre ELSE <<Word(d.category)>>

YearAndGenre(d) ==
  <<Line("year", 0, d.year), IF d.year \in 100..999 THEN Hidden ELSE Line("genre", 0, Genre(d))>>

TrackTitle(t) == IF t.artist # Null THEN t.artist \o <<Slash>> \o t.title ELSE t.title

Header(d) ==
  <<Other, Line("offsets", 0, <<>>)>>
  \o [i \in DOMAIN d.tracks |-> Line("offset", 0, d.tracks[i].frame_offset)]
  \o <<Other, Line("length", 0, d.length), Other, Line("revision", 0, d.revision), Other,
       Line("title", 0, d.artist \o <<Slash>> \o d.title)>>

Body(d) ==
  [i \in DOMAIN d.tracks |-> Line("ttitle", i - 1, TrackTitle(d.tracks[i]))]
  \o <<Line("ext", 0, TextOf(d.ext_data))>>
  \o [i \in DOMAIN d.tracks |-> Line("extt", i - 1, TextOf(d.tracks[i].ext_data))]
  \o <<Line("order", 0, <<>>)>>

\* The records of old clients have no year and no genre.
Record(d, old) == Header(d) \o (IF old THEN <<>> ELSE YearAndGenre(d)) \o Body(d)

\* cddb_write_data.
WriteData(d) == Record(d, FALSE)

----------------------------------------------------------------------------

Init ==
  /\ meant \in Contents /\ \E old \in BOOLEAN : rec = Record(DiscIconv(meant, 1), old)
  /\ disc = NewDisc /\ before = NewDisc
  /\ pc = "idle" /\ at = 0 /\ dotted = FALSE
  /\ state = "start" /\ multi_line = "none" /\ track_no = 0 /\ old_no = -1
  /\ ret = "none" /\ calls = 0 /\ events = 0
  /\ plain = TRUE /\ fit = FALSE

Call == pc = "idle" /\ calls < MaxCalls /\ calls' = calls + 1

\* The locals end with the call.
Returns ==
  /\ pc' = "idle" /\ at' = 0 /\ dotted' = FALSE
  /\ state' = "start" /\ multi_line' = "none" /\ track_no' = 0 /\ old_no' = -1

\* The application begins with a new structure, and may fill it in.
NewStructure(x) ==
  /\ pc = "idle" /\ x # disc
  /\ disc' = x
  /\ ret' = "none" /\ fit' = FALSE
  /\ UNCHANGED <<rec, pc, locals, calls, events, meant, before, plain>>

\* The disc of the application is converted where it is, and not back.
CddbWrite ==
  /\ Call /\ Complete(disc)
  /\ disc' = DiscIconv(disc, 1)
  /\ rec' = WriteData(disc')
  /\ ret' = "ok" /\ fit' = FALSE
  /\ meant' = disc /\ plain' = TRUE
  /\ UNCHANGED <<pc, locals, events, before>>

CddbWriteFails ==
  /\ Call
  /\ ret' = "failed" /\ fit' = FALSE
  /\ IF Complete(disc)
     THEN DiscIconvFails(disc, 1)
     ELSE UNCHANGED <<disc, events>>
  /\ UNCHANGED <<rec, pc, locals, meant, before, plain>>

\* A match of a query, category and title in the character set of the database, goes
\* into the disc, and all of the disc is converted.
QueryMatch(artist) ==
  LET said == DiscIconv(meant, 1)
      matched == [disc EXCEPT !.category = said.category, !.genre = <<Word(said.category)>>,
                              !.title = said.title,
                              !.artist = IF artist THEN said.artist ELSE @]
  IN /\ Call
     /\ \/ disc' = DiscIconv(matched, -1) /\ ret' = "ok" /\ UNCHANGED events
        \/ DiscIconvFails(matched, -1) /\ ret' = "failed"
     /\ fit' = FALSE
     /\ UNCHANGED <<rec, pc, locals, meant, before, plain>>

----------------------------------------------------------------------------
(* What a database makes of a record.                                      *)

Changes(new) ==
  /\ pc = "idle"
  /\ rec' = new
  /\ fit' = FALSE
  /\ UNCHANGED <<disc, pc, locals, ret, calls, meant, before>>

\* "Multiple occurrences of the same keyword indicate that the data contained on
\* those lines should be concatenated" (doc/freedb.howto.txt): line p is split at q.
Wrap(p, q) ==
  /\ Event
  /\ Changes(ReplaceAt(InsertAt(rec, p, [rec[p] EXCEPT !.data = SubSeq(@, 1, q)]),
                       p + 1, [rec[p] EXCEPT !.data = SubSeq(@, q + 1, Len(@))]))
  /\ UNCHANGED plain

\* A comment, or a title for a track that the disc does not have, behind the header,
\* where no line is expected but the next.
Spoil(p) ==
  /\ plain
  /\ \/ Fault("comment") /\ Changes(InsertAt(rec, p + 1, Other))
     \/ Fault("track") /\ Changes(InsertAt(rec, p + 1, Line("ttitle", 9, <<>>)))
  /\ plain' = FALSE

----------------------------------------------------------------------------
(* Reading a record.                                                       *)

CddbRead ==
  /\ Call
  /\ pc' = "reading" /\ dotted' \in BOOLEAN
  /\ before' = disc /\ fit' = TRUE
  /\ UNCHANGED <<rec, disc, at, state, multi_line, track_no, old_no, ret, events,
                 meant, plain>>

\* cddb_read_line.
line == IF at < Len(rec) THEN rec[at + 1] ELSE Line("dot", 0, <<>>)

\* Mutant: the end of what is sent is not noticed.
ComesEver == pc = "reading" /\ state # "stop"

Comes == pc = "reading" /\ state # "stop" /\ (at < Len(rec) \/ (at = Len(rec) /\ dotted))

Takes ==
  /\ Comes
  /\ at' = at + 1
  /\ UNCHANGED <<rec, pc, dotted, ret, calls, events, history>>

HeaderStart ==
  /\ Takes /\ state = "start"
  /\ state' = IF line.key = "offsets" THEN "offsets" ELSE "start"
  /\ UNCHANGED <<disc, multi_line, track_no, old_no>>

\* A track that the disc does not have yet is added.
HeaderOffset ==
  /\ Takes /\ state = "offsets" /\ line.key = "offset"
  /\ LET had == IF track_no < Len(disc.tracks) THEN disc.tracks ELSE Append(disc.tracks, NewTrack)
     IN disc' = [disc EXCEPT !.tracks = [had EXCEPT ![track_no + 1].frame_offset = line.data]]
  /\ track_no' = track_no + 1
  /\ UNCHANGED <<state, multi_line, old_no>>

\* The first line that is no offset may be the length already.
HeaderLength ==
  /\ Takes /\ ((state = "offsets" /\ line.key # "offset") \/ state = "length")
  /\ IF line.key = "length"
     THEN disc' = [disc EXCEPT !.length = line.data] /\ state' = "revision"
     ELSE state' = "length" /\ UNCHANGED disc
  /\ UNCHANGED <<multi_line, track_no, old_no>>

HeaderRevision ==
  /\ Takes /\ state = "revision"
  /\ IF line.key = "revision"
     THEN disc' = [disc EXCEPT !.revision = line.data] /\ state' = "title"
     ELSE UNCHANGED <<disc, state>>
  /\ UNCHANGED <<multi_line, track_no, old_no>>

\* The last Slash of a text: the expressions of cddb_regex.c take as much as they can
\* before it.
Slashes(text)   == {i \in DOMAIN text : text[i] = Slash}
Split(text)     == Slashes(text) # {}
BeforeSlash(text) == SubSeq(text, 1, Max(Slashes(text)) - 1)
AfterSlash(text)  == SubSeq(text, Max(Slashes(text)) + 1, Len(text))

\* The first of the lines deletes what an earlier read has left.  Up to the Slash they
\* are the artist, behind it the title.
DiscTitle ==
  LET d == IF multi_line = "none" THEN [disc EXCEPT !.artist = Null, !.title = Null] ELSE disc
  IN /\ Takes /\ state = "title" /\ line.key = "title"
     /\ IF Split(line.data)
        THEN /\ disc' = [d EXCEPT !.artist = Extended(@, BeforeSlash(line.data)),
                                  !.title = Extended(@, AfterSlash(line.data))]
             /\ multi_line' = "title"
        ELSE IF multi_line = "title"
        THEN disc' = [d EXCEPT !.title = Extended(@, line.data)] /\ UNCHANGED multi_line
        ELSE disc' = [d EXCEPT !.artist = Extended(@, line.data)] /\ multi_line' = "artist"
     /\ UNCHANGED <<state, track_no, old_no>>

\* Mutant: the lines behind the title are skipped, too.
SkipToTitleAlways ==
  /\ Takes /\ state = "title" /\ line.key # "title"
  /\ UNCHANGED <<disc, state, multi_line, track_no, old_no>>

\* "Might be comment line, just skip it"; so is everything until a title comes.
SkipToTitle ==
  /\ Takes /\ state = "title" /\ line.key # "title" /\ multi_line = "none"
  /\ UNCHANGED <<disc, state, multi_line, track_no, old_no>>

\* From "year" on each state hands a line it does not know to the next one.
Order == <<"year", "genre", "ttitle", "ext", "extt", "order", "dot">>

Place(key) ==
  IF \E i \in DOMAIN Order : Order[i] = key
  THEN CHOOSE i \in DOMAIN Order : Order[i] = key ELSE Len(Order) + 1

\* The lines of a title of a disc have ended, or no such line is expected.
InBody ==
  \/ state = "title" /\ line.key # "title" /\ multi_line # "none"
  \/ Place(state) <= Len(Order)

\* Where the line is looked at first, and the state that knows it, if one does.
First == IF state = "title" THEN 1 ELSE Place(state)
Known == IF Place(line.key) >= First THEN Place(line.key) ELSE Len(Order) + 1
Passes(key) == First <= Place(key) /\ Place(key) < Known

\* The disc and the locals when that state is reached.  A disc without a title has
\* that of its artist.
EndsTitle ==
  IF state = "title" /\ disc.artist # Null /\ disc.title = Null
  THEN [disc EXCEPT !.title = disc.artist] ELSE disc

Multi == IF state = "title" \/ Passes("ttitle") \/ Passes("ext") THEN "none" ELSE multi_line

OldNo == IF Passes("ttitle") THEN -1 ELSE old_no

Knows(key) == Takes /\ InBody /\ Known = Place(key) /\ line.key = key

DiscYear ==
  /\ Knows("year")
  /\ disc' = [EndsTitle EXCEPT !.year = line.data]
  /\ state' = "genre"
  /\ multi_line' = Multi /\ old_no' = OldNo /\ UNCHANGED track_no

DiscGenre ==
  /\ Knows("genre")
  /\ disc' = [EndsTitle EXCEPT !.genre = line.data]
  /\ state' = "ttitle"
  /\ multi_line' = Multi /\ old_no' = OldNo /\ UNCHANGED track_no

\* Mutant: the first part of a title that turns out to be the artist stays.
NamedKeeps(t, text) ==
  IF Split(text)
  THEN [t EXCEPT !.artist = BeforeSlash(text), !.title = Extended(@, AfterSlash(text))]
  ELSE [t EXCEPT !.title = Extended(@, text)]

\* What came before the Slash was put into the title and is the artist.
Named(t, text) ==
  IF Split(text)
  THEN [t EXCEPT !.artist = Extended(t.title, BeforeSlash(text)), !.title = AfterSlash(text)]
  ELSE [t EXCEPT !.title = Extended(@, text)]

\* The first line for a track deletes what an earlier read has left.
TrackTitleLine ==
  LET again == line.no = OldNo
  IN /\ Knows("ttitle") /\ line.no < Len(disc.tracks)
     /\ disc' = [EndsTitle EXCEPT !.tracks[line.no + 1] =
          Named(IF again THEN @ ELSE [@ EXCEPT !.artist = Null, !.title = Null], line.data)]
     /\ multi_line' = IF Split(line.data) THEN "title" ELSE IF again THEN Multi ELSE "artist"
     /\ state' = "ttitle" /\ old_no' = line.no /\ UNCHANGED track_no

DiscExt ==
  LET had == IF Multi = "none" THEN Null ELSE EndsTitle.ext_data
  IN /\ Knows("ext")
     /\ disc' = [EndsTitle EXCEPT !.ext_data =
          IF line.data = <<>> THEN had ELSE Extended(had, line.data)]
     /\ multi_line' = IF Multi = "none" THEN "ext" ELSE Multi
     /\ state' = "ext" /\ old_no' = OldNo /\ UNCHANGED track_no

TrackExt ==
  /\ Knows("extt") /\ line.no < Len(disc.tracks)
  /\ LET had == IF line.no = OldNo THEN EndsTitle.tracks[line.no + 1].ext_data ELSE Null
     IN disc' = [EndsTitle EXCEPT !.tracks[line.no + 1].ext_data =
          IF line.data = <<>> THEN had ELSE Extended(had, line.data)]
  /\ state' = "extt" /\ multi_line' = Multi /\ old_no' = line.no /\ UNCHANGED track_no

PlayOrder ==
  /\ Knows("order")
  /\ disc' = EndsTitle /\ state' = "dot"
  /\ multi_line' = Multi /\ old_no' = OldNo /\ UNCHANGED track_no

EndDot ==
  /\ Knows("dot")
  /\ disc' = EndsTitle /\ state' = "stop"
  /\ multi_line' = Multi /\ old_no' = OldNo /\ UNCHANGED track_no

\* The state stays, also that of the titles of the disc.
Unexpected ==
  /\ Takes /\ InBody /\ Known > Len(Order)
  /\ disc' = EndsTitle
  /\ multi_line' = Multi /\ old_no' = OldNo /\ UNCHANGED <<state, track_no>>

\* CDDB_ERR_TRACK_NOT_FOUND: nothing is converted.
TrackNotFound ==
  /\ Comes /\ InBody /\ line.key \in {"ttitle", "extt"} /\ Known = Place(line.key)
  /\ line.no >= Len(disc.tracks)
  /\ disc' = EndsTitle
  /\ Returns /\ ret' = "failed" /\ fit' = FALSE
  /\ UNCHANGED <<rec, calls, events, meant, before, plain>>

\* The record ends with its dot, at the end of the file or with a time-out.
ReadEnds ==
  /\ pc = "reading" /\ Returns
  /\ \/ disc' = DiscIconv(disc, -1) /\ ret' = "ok" /\ UNCHANGED fit
        /\ ~Comes /\ UNCHANGED events
     \/ disc' = DiscIconv(disc, -1) /\ ret' = "ok" /\ fit' = FALSE
        /\ Comes /\ Fault("cut")
     \/ DiscIconvFails(disc, -1) /\ ret' = "failed" /\ fit' = FALSE
        /\ ~Comes
  /\ UNCHANGED <<rec, calls, meant, before, plain>>

Next ==
  \/ \E x \in Contents \cup {NewDisc} : NewStructure(x)
  \/ CddbWrite \/ CddbWriteFails
  \/ \E artist \in BOOLEAN : QueryMatch(artist)
  \/ \E p \in {p \in DOMAIN rec : rec[p].key \in Textual} :
       \/ Spoil(p)
       \/ \E q \in 0..Len(rec[p].data) : Wrap(p, q)
  \/ CddbRead
  \/ HeaderStart \/ HeaderOffset \/ HeaderLength \/ HeaderRevision
  \/ DiscTitle \/ SkipToTitle
  \/ DiscYear \/ DiscGenre \/ TrackTitleLine \/ DiscExt \/ TrackExt \/ PlayOrder \/ EndDot
  \/ Unexpected \/ TrackNotFound \/ ReadEnds

Spec == Init /\ [][Next]_recVars

----------------------------------------------------------------------------
(* What writing and reading promise.                                       *)

RecordTypeOK ==
  /\ rec \in Seq(Lines) /\ {disc, meant, before} \subseteq DiscData
  /\ pc \in {"idle", "reading"}
  /\ at \in 0..(Len(rec) + 1)
  /\ state \in {"start", "offsets", "length", "revision", "title", "stop"} \cup Range(Order)
  /\ multi_line \in {"none", "artist", "title", "ext"}
  /\ track_no \in Nat /\ old_no \in Nat \cup {-1}
  /\ ret \in {"none", "ok", "failed"}
  /\ calls \in 0..MaxCalls /\ events \in 0..MaxEvents
  /\ {plain, fit, dotted} \subseteq BOOLEAN

\* The last call read a well-formed record, to its end.
HasRead == pc = "idle" /\ ret = "ok" /\ fit /\ plain

\* An empty text and none at all are one in a record.
Read(text) == IF text = <<>> THEN Null ELSE text

Has(key) == \E i \in DOMAIN rec : rec[i].key = key

Once(key) ==
  \E i \in DOMAIN rec : rec[i].key = key /\ \A j \in DOMAIN rec : rec[j].key = key => j = i

\* What a record says of a disc is read as it was written, in the character set it was
\* written from, into whatever structure and in whatever places its lines were split, but
\* for a genre that is split.  Of what was in the structure and the record does not have
\* nothing is said, but no track is made up (cddb_write_data, cddb_parse_record,
\* cddb_disc_iconv).
ReadTells ==
  HasRead =>
    /\ disc.length = meant.length /\ disc.revision = meant.revision
    /\ disc.artist = meant.artist /\ disc.title = meant.title
    /\ disc.ext_data = Read(meant.ext_data)
    /\ DOMAIN meant.tracks \subseteq DOMAIN disc.tracks
    /\ DOMAIN disc.tracks \subseteq DOMAIN meant.tracks \cup DOMAIN before.tracks
    /\ \A i \in DOMAIN meant.tracks :
         disc.tracks[i] = [meant.tracks[i] EXCEPT !.ext_data = Read(@)]
    /\ Has("year") => disc.year = meant.year
    /\ Once("genre") => disc.genre = Genre(meant)

\* "this applies to any of the textual fields" (doc/freedb.howto.txt): so is a genre,
\* also when it is split.  The parser takes its first line only (case STATE_DISC_GENRE).
GenreReadBack == HasRead /\ Has("genre") => disc.genre = Genre(meant)

\* "All of the applicable keywords must be present in the file" (doc/freedb.howto.txt):
\* a record that has the one has the other.  A year of three digits hides the genre
\* (cddb_write_data).
KeywordsPresent == HasRead => (Has("year") <=> Has("genre"))

\* The dot of a well-formed record ends the read, wherever the parser is by then: it
\* never waits for more (cddb_parse_record).
EndsWithDot == pc = "reading" /\ plain /\ at > Len(rec) => state = "stop"

=============================================================================
