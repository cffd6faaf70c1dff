---------------------------- MODULE CddbMatches -----------------------------
(***************************************************************************)
(* The result set of a query, c->query_data, as the library fills it and   *)
(* the application walks it: cddb_query, cddb_album and cddb_search put    *)
(* the matches into the list of CddbList, cddb_query_next (which           *)
(* cddb_album_next and cddb_search_next call) moves its iterator.  A match *)
(* gets into the application's disc by cddb_disc_copy, which leaves every  *)
(* field alone that the match does not have.  Of a disc the model has the  *)
(* title and the artist; the track list and the other fields are those of  *)
(* CddbDisc.                                                               *)
(*                                                                         *)
(* How the answer comes about is the subject of CddbConn; here it is one   *)
(* of the ways a call may end.                                             *)
(***************************************************************************)
EXTENDS CddbList

CONSTANTS
  Titles, Artists,    \* what a title and an artist may be
  None,       \* a field that is not set
  MaxCalls,   \* bound on the number of calls
  Careful     \* the application asks for no more matches than there are

Discs == [title : Titles \cup {None}, artist : Artists \cup {None}]

ASSUME NoneAssumption == None \notin Titles /\ None \notin Artists
ASSUME DiscsAssumption == Data = Discs
ASSUME MaxCallsAssumption == MaxCalls \in Nat
ASSUME CarefulAssumption == Careful \in BOOLEAN

VARIABLES
  act,      \* "idle", or where the current call is
  fn,       \* the function called last
  ret,      \* what it returned
  disc,     \* the disc structure the application passed to it
  calls,    \* the number of calls made
  count,    \* history: what the last query returned
  listed,   \* history: the matches of the last query, as the server sent them
  given     \* history: the application's disc after each that it has been given

callVars  == <<act, fn, ret, disc, calls, count, listed, given>>
matchVars == <<listVars, callVars>>

Queries == {"query", "album", "search"}

NewDisc == [title |-> None, artist |-> None]

\* A match always has a title; one of a search may be known by its disc id alone,
\* and one of the cache always is.
Answers == {m \in Discs : m.title # None} \cup {NewDisc}

\* cddb_disc_copy: only what src has is copied.
Merged(dst, src) ==
  [field \in DOMAIN dst |-> IF src[field] = None THEN dst[field] ELSE src[field]]

\* The caller's disc when the element that holds m is copied into d; nothing is known
\* of the element that never was one.
Filled(d, m) == IF m = Nothing THEN d ELSE Merged(d, m)

Init ==
  /\ ListInit
  /\ act = "idle" /\ fn = "none" /\ ret = 0 /\ disc \in Discs /\ calls = 0
  /\ count = 0 /\ listed = <<>> /\ given = <<>>

----------------------------------------------------------------------------
(* A query.                                                                *)

\* The first thing a query does is to flush the list.  The disc it is passed may be
\* the one of the call before.
Query(f, d) ==
  /\ act = "idle" /\ calls < MaxCalls
  /\ ListFlush
  /\ act' = "flush"
  /\ fn' = f
  /\ calls' = calls + 1
  /\ disc' = d
  /\ listed' = <<>> /\ given' = <<>>
  /\ UNCHANGED <<ret, count>>

Flushes ==
  /\ act = "flush"
  /\ FlushElem \/ FlushDone
  /\ UNCHANGED callVars

Flushed == act = "flush" /\ at = "ready"

Ends(r) ==
  /\ act' = "idle"
  /\ ret' = r
  /\ count' = r

\* Data is missing, the connection or the command fails, the server answers with an
\* error, or an exact match is in the disc when its conversion fails.
QueryFails ==
  /\ Flushed
  /\ Ends(-1)
  /\ \E m \in Answers : disc' = Merged(disc, m)
  /\ UNCHANGED <<listVars, fn, calls, listed, given>>

\* 202, or a miss in cache-only mode; cddb_search has no such answer.
NoMatch ==
  /\ Flushed /\ fn # "search"
  /\ Ends(0)
  /\ UNCHANGED <<listVars, fn, disc, calls, listed, given>>

\* 200, or a hit in the cache: the match goes into the disc and not into the list.
ExactMatch(m) ==
  /\ Flushed /\ fn # "search"
  /\ m = NewDisc => fn = "query"
  /\ Ends(1)
  /\ disc' = Merged(disc, m)
  /\ listed' = <<m>> /\ given' = <<disc'>>
  /\ UNCHANGED <<listVars, fn, calls>>

\* 210 or 211: a list follows.  A search reads its page from the start.
ListFollows ==
  /\ Flushed
  /\ act' = "list"
  /\ UNCHANGED <<listVars, fn, ret, disc, calls, count, listed, given>>

\* A line of a query or an album fills in a clone of the caller's disc.  A match of a
\* search has both fields, on its line or from the match before it, unless there is
\* none before it (CddbSearch).
Lists(m) ==
  IF fn = "search"
  THEN m.artist # None \/ (m = NewDisc /\ \A i \in DOMAIN listed : listed[i] = NewDisc)
  ELSE m # NewDisc

ListedMatch(m) ==
  /\ act = "list"
  /\ Lists(m)
  /\ ListAppend(IF fn = "search" THEN m ELSE Merged(disc, m))
  /\ listed' = Append(listed, m)
  /\ UNCHANGED <<act, fn, ret, disc, calls, count, given>>

\* A line that cannot be parsed ends the call; the list keeps what it has.
ListBroken ==
  /\ act = "list"
  /\ Ends(-1)
  /\ UNCHANGED <<listVars, fn, disc, calls, listed, given>>

\* Mutant: the iterator is not set to the first match.
ListReturnedNoFirst ==
  /\ act = "list" /\ at = "ready" /\ cnt # 0
  /\ disc' = Filled(disc, ElementData(first))
  /\ given' = <<disc'>>
  /\ Ends(cnt)
  /\ UNCHANGED <<listVars, fn, calls, listed>>

\* The first match goes into the disc, and the iterator to the first element.
ListReturned ==
  /\ act = "list" /\ cnt # 0
  /\ ListFirst
  /\ disc' = Filled(disc, out')
  /\ given' = <<disc'>>
  /\ Ends(cnt)
  /\ UNCHANGED <<fn, calls, listed>>

\* An empty list is an error, but not of a search.
EmptyList ==
  /\ act = "list" /\ cnt = 0
  /\ Ends(IF fn = "search" THEN 0 ELSE -1)
  /\ UNCHANGED <<listVars, fn, disc, calls, listed, given>>

----------------------------------------------------------------------------
(* The next match.                                                         *)

Remaining == count - Len(given)

\* Mutant: the disc is filled in before the iterator moves.
CddbQueryNextLags(d) ==
  /\ act = "idle" /\ calls < MaxCalls
  /\ Careful => Remaining > 0
  /\ ListNext
  /\ fn' = "next"
  /\ calls' = calls + 1
  /\ IF it' = Null
     THEN ret' = 0 /\ disc' = d /\ UNCHANGED given
     ELSE /\ ret' = 1 /\ disc' = Filled(d, ElementData(it))
          /\ given' = Append(given, disc')
  /\ UNCHANGED <<act, count, listed>>

\* The application may pass the disc that holds the match before, or another one.
CddbQueryNext(d) ==
  /\ act = "idle" /\ calls < MaxCalls
  /\ Careful => Remaining > 0
  /\ ListNext
  /\ fn' = "next"
  /\ calls' = calls + 1
  /\ IF it' = Null
     THEN ret' = 0 /\ disc' = d /\ UNCHANGED given
     ELSE ret' = 1 /\ disc' = Filled(d, out') /\ given' = Append(given, disc')
  /\ UNCHANGED <<act, count, listed>>

Next ==
  \/ \E f \in Queries, d \in {disc, NewDisc} : Query(f, d)
  \/ Flushes
  \/ QueryFails \/ NoMatch \/ (\E m \in Answers : ExactMatch(m))
  \/ ListFollows \/ (\E m \in Answers : ListedMatch(m))
  \/ ListBroken \/ ListReturned \/ EmptyList
  \/ \E d \in {disc, NewDisc} : CddbQueryNext(d)

Spec == Init /\ [][Next]_matchVars

----------------------------------------------------------------------------
(* What the result set promises.                                           *)

\* Disc d shows what the server said of a match.
Shows(d, m) == \A field \in DOMAIN m : m[field] # None => d[field] = m[field]

\* The matches come out in the order the server listed them, the first with the
\* query and the others one for each cddb_query_next, none twice and none
\* left out, as long as the application counts them (examples/do_query.c): its
\* disc has every field that the server sent for the match.  What it has in the
\* other fields is another matter, see NextOverwrites.
MatchesInOrder ==
  act = "idle" /\ count > 0 =>
    /\ Len(listed) = count
    /\ Len(given) \in 1..count
    /\ \A i \in 1..Len(given) : Shows(given[i], listed[i])
    /\ Shows(disc, listed[Len(given)])
    /\ fn = "next" => ret = 1

\* The iterator of an application that counts its matches never stands on an
\* element that has been freed when cddb_query_next moves it.
NextOnLive == act = "idle" /\ Remaining > 0 => it \in alloc

\* "This function will overwrite any data that might be present in the disc
\* structure passed to it" (examples/do_query.c, of cddb_query_next): with a match
\* that is more than a disc id, the disc is the element of the result set under
\* the iterator, and not a mixture of it and of the match before.
NextOverwrites ==
  fn = "next" /\ ret = 1 /\ Remaining >= 0 /\ listed[Len(given)] # NewDisc =>
    disc = ElementData(it)

\* "If there are no more matches left, false (i.e. 0) will be returned"
\* (examples/do_query.c, of cddb_query_next).
NoMoreIsFalse == fn = "next" /\ ret = 1 /\ count >= 0 => Len(given) <= count

=============================================================================
