------------------------------ MODULE Playlists ------------------------------
(***************************************************************************)
(* Playlists: the tables playlists and playlist_songs, the operations of   *)
(* PlayList and CompletePlayList and the /pl requests that call them.      *)
(*                                                                         *)
(* A request runs alone on the web thread, but its SQL statements are      *)
(* separate commits: between two of them the scanner's thread adds and     *)
(* destroys songs, a statement may fail and end the request, and the       *)
(* process may die.  job holds the statements a request has yet to run.    *)
(***************************************************************************)
EXTENDS Integers, Sequences, FiniteSets, SequencesExt

CONSTANTS
    Requests,      \* kinds of requests that are made
    InitialSongs,  \* songs the library starts with
    MaxSongs,      \* bound: rowids of songs
    MaxRequests,   \* bound: requests made
    MaxDisturbed   \* bound: scanner steps, failures and restarts together

Kinds == {"song", "addsongs", "dir", "addpl", "add/pl", "rm", "reorder",
          "sort", "update"}

ASSUME RequestKinds == Requests \subseteq Kinds
ASSUME SongsBounded == MaxSongs \in Nat /\ InitialSongs \subseteq 1..MaxSongs

VARIABLES
    songs,      \* rowids in table songs, all of one directory
    lists,      \* table playlists: rowid -> order_by, as which column it names
    entries,    \* table playlist_songs: rowid -> [song, pl, order]
    allId,      \* db_id of the CompletePlayList object, 0 until it is saved
    job,        \* statements the current request has still to execute
    asked,      \* history: kind of the last request, and the db_id of its list
    placed,     \* history: every request gave the songs it lists places of their
                \* own and ran to its end undisturbed, and no song was destroyed
    copied,     \* history: the last request was addpl of this list to an empty one
    requests, disturbed

tables == <<songs, lists, entries>>
counters == <<requests, disturbed>>
history == <<asked, placed, copied>>
vars == <<tables, allId, job, history, counters>>

Columns == {"order", "title", "bad"}
NoCopy == <<0, 0>>
Positions == 0..2

\* PlayList::load: list 1 is the CompletePlayList object, whatever its db_id; 0
\* stands for a PlayList object never saved.
IdOf(l) == IF l = 1 THEN allId ELSE l

\* sqlite3VdbeExec, OP_NewRowid: one more than the last rowid there is.
NewRow(table) == 1 + Max(DOMAIN table \cup {0})
WithRow(table, row, values) ==
    [r \in DOMAIN table \cup {row} |-> IF r = row THEN values ELSE table[r]]

EntriesOf(pl) == {e \in DOMAIN entries : entries[e].pl = pl}

\* PlayList::size counts the entries, CompletePlayList::size the songs.
SizeOf(l) == IF l = 1 THEN Cardinality(songs) ELSE Cardinality(EntriesOf(l))

\* Statements; for what follows "pick" loads the song of an entry, "join" counts the
\* songs of a list and "own" selects them.
Shift(pl, from, by) == [k |-> "shift", pl |-> pl, from |-> from, by |-> by]
Row(pl, song, order) == [k |-> "row", pl |-> pl, song |-> song, order |-> order]
Rows(pl, order) == [k |-> "rows", pl |-> pl, order |-> order]
Join(l, p, order) ==
    [k |-> "join", list |-> l, pl |-> IdOf(l), from |-> p, order |-> order]
Own(l, pl, order) == [k |-> "own", list |-> l, pl |-> pl, order |-> order]
Copy(pl, left, order) == [k |-> "copy", pl |-> pl, left |-> left, order |-> order]
Pick(pl, entry, order) == [k |-> "pick", pl |-> pl, entry |-> entry, order |-> order]
Close(pl, song) == [k |-> "close", pl |-> pl, song |-> song]
Erase(pl, song) == [k |-> "erase", pl |-> pl, song |-> song]
Place(pl, song, order) == [k |-> "place", pl |-> pl, song |-> song, order |-> order]
Save(list, by) == [k |-> "save", list |-> list, by |-> by]

------------------------------------------------------------------------------
\* A new database: check_and_create_tables has stored "All Songs" as list 1; a
\* list 2 has been created since.
Init ==
    /\ songs = InitialSongs
    /\ lists = <<"order", "order">>
    /\ entries = <<>>
    /\ allId = 0
    /\ job = <<>>
    /\ asked = [kind |-> "none", pl |-> 0]
    /\ placed = TRUE /\ copied = NoCopy
    /\ requests = 0 /\ disturbed = 0

------------------------------------------------------------------------------
(* Requests: what they read at once, and the statements they will run.     *)

\* A request whose pl_id names list l.
Asks(kind, l, statements) ==
    /\ job = <<>> /\ requests < MaxRequests
    /\ kind \in Requests
    /\ requests' = requests + 1
    /\ job' = statements
    /\ asked' = [kind |-> kind, pl |-> IdOf(l)]
    /\ UNCHANGED <<tables, allId, disturbed>>

\* One that gives the songs of the list places of their own, if they had them.
PlacingRequest(kind, l, statements) ==
    Asks(kind, l, statements) /\ copied' = NoCopy /\ UNCHANGED placed

OtherRequest(kind, l, statements) ==
    Asks(kind, l, statements) /\ copied' = NoCopy /\ placed' = FALSE

\* PlayList::insert(Song)
InsertSong(pl, s, pos) == <<Shift(pl, pos, 1), Row(pl, s, pos)>>

\* /pl/songs/add/song
AddSong(l, s, pos) ==
    s \in songs /\ PlacingRequest("song", l, InsertSong(IdOf(l), s, pos))

\* /pl/songs/addsongs of two ids, which load_song takes for entries' rowids.
AddSongs(l, e, f, pos) ==
    PlacingRequest("addsongs", l, <<Pick(IdOf(l), e, pos), Pick(IdOf(l), f, pos + 1)>>)

\* /pl/songs/add/dir and /artist: PlayList::insert(result_set); the songs are
\* counted for the shift, and selected again after it.
AddDir(l, pos) ==
    PlacingRequest("dir", l, <<Shift(IdOf(l), pos, Cardinality(songs)),
                               Rows(IdOf(l), pos)>>)

\* Mistaken variant: the list to be added to is the last pl_id.
AddPlToTheLast(l, p, pos) ==
    /\ Asks("addpl", l, <<Join(p, l, pos), Join(p, p, pos)>>)
    /\ copied' = NoCopy
    /\ placed' = FALSE

\* /pl/songs/addpl: the list to be added to is the first pl_id, and every pl_id is
\* added to it, the first one too.  With one, p is l.  A copy to an empty list is
\* remembered in copied.
AddPl(l, p, pos) ==
    /\ Asks("addpl", l, IF l = p THEN <<Join(l, l, pos)>>
                        ELSE <<Join(l, l, pos), Join(l, p, pos)>>)
    /\ copied' = IF 1 \notin {l, p} /\ l # p /\ EntriesOf(l) = {}
                 THEN <<l, p>> ELSE NoCopy
    /\ placed' = FALSE

\* /pl/songs/add/pl: an inner variable hides the list of pl_id, and the one to be
\* added, id, is inserted into itself.
AddSelf(l, p, pos) == OtherRequest("add/pl", l, <<Join(p, p, pos)>>)

\* /pl/songs/rm: PlayList::remove.
Rm(l, s) == PlacingRequest("rm", l, <<Close(IdOf(l), s), Erase(IdOf(l), s)>>)

\* PlayList::set_order saves a changed order, CompletePlayList's saves nothing.
SetOrder(l, by) ==
    IF l = 1 \/ lists[l] = by THEN <<>> ELSE <<Save(l, by)>>

SongsOf(pl) == {entries[e].song : e \in EntriesOf(pl)}

\* /pl/songs/reorder: a number for each song the request names, one statement each
\* in the order of the ids as texts (that of the numbers, as long as they have one
\* digit), and then order_by is set to upper(playlist_songs), which is no column.  Ids
\* of no entry change nothing.  The client sends the page it shows, so that the songs
\* may be some of the list's and the numbers may be other songs' places.
Reorder(l) ==
    \E named \in SUBSET SongsOf(IdOf(l)) :
      \E ids \in SetToSeqs(named), places \in [named -> Positions] :
        LET statements == [i \in DOMAIN ids |-> Place(IdOf(l), ids[i], places[ids[i]])]
                          \o SetOrder(l, "bad")
        IN /\ \A i, j \in DOMAIN ids : i < j => ids[i] < ids[j]
           /\ IF named = SongsOf(IdOf(l)) /\ IsInjective(places)
              THEN PlacingRequest("reorder", l, statements)
              ELSE OtherRequest("reorder", l, statements)

\* /pl/songs/list?sort=
Sort(l) == OtherRequest("sort", l, SetOrder(l, "title"))

\* /pl/update of list l, or of a new one, 0.
Update(l) ==
    OtherRequest("update", l, <<Save(l, IF l \in {0, 1} THEN "order" ELSE lists[l])>>)

NewRequest ==
    \E l \in DOMAIN lists :
        \/ \E pos \in Positions :
              \/ \E s \in songs : AddSong(l, s, pos)
              \/ \E e, f \in DOMAIN entries : AddSongs(l, e, f, pos)
              \/ AddDir(l, pos)
              \/ \E p \in DOMAIN lists : AddPl(l, p, pos) \/ AddSelf(l, p, pos)
        \/ \E s \in 1..MaxSongs : Rm(l, s)
        \/ Reorder(l)
        \/ Sort(l)
        \/ Update(l)
        \/ Update(0)

------------------------------------------------------------------------------
(* Statements.  Each is one commit.                                        *)

st == Head(job)
Runs(kind) == job # <<>> /\ st.k = kind

\* st is done and these follow it, before the others.
Executed(more) ==
    /\ job' = more \o Tail(job)
    /\ UNCHANGED <<songs, history, counters>>

Moved(some, by) ==
    [e \in DOMAIN entries |->
        IF e \in some THEN [entries[e] EXCEPT !.order = @ + by] ELSE entries[e]]

\* Mistaken variant: the entries before the place are moved.
ExecShiftBefore ==
    /\ Runs("shift")
    /\ entries' = Moved({e \in EntriesOf(st.pl) : entries[e].order <= st.from}, st.by)
    /\ Executed(<<>>) /\ UNCHANGED <<lists, allId>>

\* Mistaken variant: the entry at the place is not moved.
ExecShiftAfter ==
    /\ Runs("shift")
    /\ entries' = Moved({e \in EntriesOf(st.pl) : entries[e].order > st.from}, st.by)
    /\ Executed(<<>>) /\ UNCHANGED <<lists, allId>>

ExecShift ==
    /\ Runs("shift")
    /\ entries' = Moved({e \in EntriesOf(st.pl) : entries[e].order >= st.from}, st.by)
    /\ Executed(<<>>) /\ UNCHANGED <<lists, allId>>

\* Mistaken variant: the values are not in the order of the columns.
ExecRowSwapped ==
    /\ Runs("row")
    /\ entries' = WithRow(entries, NewRow(entries),
                          [song |-> st.pl, pl |-> st.song, order |-> st.order])
    /\ Executed(<<>>) /\ UNCHANGED <<lists, allId>>

ExecRow ==
    /\ Runs("row")
    /\ entries' = WithRow(entries, NewRow(entries),
                          [song |-> st.song, pl |-> st.pl, order |-> st.order])
    /\ Executed(<<>>) /\ UNCHANGED <<lists, allId>>

\* insert(result_set): a connection that is stepping through a select commits what
\* it changes when the select ends, so that the inserts are all there or none.
ExecRows ==
    /\ Runs("rows")
    /\ LET last == NewRow(entries) - 1
           rows == (last + 1)..(last + Cardinality(songs))
       IN \E found \in SetToSeqs(songs) :
             entries' = [e \in DOMAIN entries \cup rows |->
                            IF e \in rows
                            THEN [song |-> found[e - last], pl |-> st.pl,
                                  order |-> st.order + (e - last - 1)]
                            ELSE entries[e]]
    /\ Executed(<<>>) /\ UNCHANGED <<lists, allId>>

\* PlayList::insert(PlayList), the size of the list that is added.
ExecJoin ==
    /\ Runs("join")
    /\ Executed(<<Shift(st.pl, st.order, SizeOf(st.from)), Own(st.list, st.pl, st.order)>>)
    /\ UNCHANGED <<lists, entries, allId>>

\* The order_by_ of an object loaded for the request is the row's; that of the
\* CompletePlayList object never changes.
Sortable(l) == l = 1 \/ lists[l] = "order"
Loadable(e) == e \in DOMAIN entries /\ entries[e].song \in songs

Listing(pl) ==
    {[entry |-> e, song |-> entries[e].song, order |-> entries[e].order] :
        e \in EntriesOf(pl)}

Copies(pl, left, order) == IF left = {} THEN <<>> ELSE <<Copy(pl, left, order)>>

\* insert(PlayList) selects the entries of the list it inserts into, in its
\* order_by; only "order" is a column of playlist_songs, else the query fails.
ExecOwn ==
    /\ Runs("own")
    /\ Sortable(st.list)
    /\ Executed(Copies(st.pl, Listing(st.pl), st.order + 1))
    /\ UNCHANGED <<lists, entries, allId>>

\* The inserts, one statement each, in descending order of the places.
ExecCopy ==
    /\ Runs("copy")
    /\ \E first \in st.left :
          /\ \A other \in st.left : other.order <= first.order
          /\ entries' = WithRow(entries, NewRow(entries),
                                [song |-> first.song, pl |-> st.pl, order |-> st.order])
          /\ Executed(Copies(st.pl, st.left \ {first}, st.order + 1))
    /\ UNCHANGED <<lists, allId>>

ExecPick ==
    /\ Runs("pick")
    /\ Loadable(st.entry)
    /\ Executed(InsertSong(st.pl, entries[st.entry].song, st.order))
    /\ UNCHANGED <<lists, entries, allId>>

\* The update of remove: the subquery yields the place of one entry of the song;
\* with none it is NULL and no row compares to it.
ExecClose ==
    /\ Runs("close")
    /\ LET hits == {e \in EntriesOf(st.pl) : entries[e].song = st.song}
           behind == {e \in EntriesOf(st.pl) : entries[e].order >= entries[Min(hits)].order}
       IN entries' = Moved(IF hits = {} THEN {} ELSE behind, -1)
    /\ Executed(<<>>) /\ UNCHANGED <<lists, allId>>

\* Mistaken variant: the song is deleted from every list.
ExecEraseEverywhere ==
    /\ Runs("erase")
    /\ entries' = Restrict(entries, {e \in DOMAIN entries : entries[e].song # st.song})
    /\ Executed(<<>>) /\ UNCHANGED <<lists, allId>>

ExecErase ==
    /\ Runs("erase")
    /\ entries' = Restrict(entries,
                           {e \in DOMAIN entries :
                              entries[e].pl # st.pl \/ entries[e].song # st.song})
    /\ Executed(<<>>) /\ UNCHANGED <<lists, allId>>

ExecPlace ==
    /\ Runs("place")
    /\ entries' = [e \in DOMAIN entries |->
                      IF entries[e].pl = st.pl /\ entries[e].song = st.song
                      THEN [entries[e] EXCEPT !.order = st.order] ELSE entries[e]]
    /\ Executed(<<>>) /\ UNCHANGED <<lists, allId>>

\* connection::save: insert without a db_id, else update.  The id of an inserted
\* row goes to the object; of the two, only CompletePlayList outlives the request.
ExecSave ==
    /\ Runs("save")
    /\ IF IdOf(st.list) = 0
       THEN /\ lists' = WithRow(lists, NewRow(lists), st.by)
            /\ allId' = IF st.list = 1 THEN NewRow(lists) ELSE allId
       ELSE /\ lists' = [lists EXCEPT ![IdOf(st.list)] = st.by]
            /\ UNCHANGED allId
    /\ Executed(<<>>) /\ UNCHANGED entries

\* What load_song wants is not there, or order_by is no column: the exception
\* ends the request.
Refused ==
    /\ \/ Runs("pick") /\ ~Loadable(st.entry)
       \/ Runs("own") /\ ~Sortable(st.list)
    /\ job' = <<>>
    /\ placed' = FALSE
    /\ UNCHANGED <<tables, allId, asked, copied, counters>>

Exec ==
    \/ ExecShift \/ ExecRow \/ ExecRows \/ ExecJoin \/ ExecOwn \/ ExecCopy \/ ExecPick
    \/ ExecClose \/ ExecErase \/ ExecPlace \/ ExecSave \/ Refused

------------------------------------------------------------------------------
(* What happens between the statements.                                    *)

Disturb(harmless) ==
    /\ disturbed < MaxDisturbed /\ disturbed' = disturbed + 1
    /\ placed' = (placed /\ harmless)

\* MusicDir::sync stores a new song; SQLite gives it the next rowid.
ScannerAdds ==
    /\ Disturb(job = <<>>)
    /\ 1 + Max(songs \cup {0}) <= MaxSongs
    /\ songs' = songs \cup {1 + Max(songs \cup {0})}
    /\ UNCHANGED <<lists, entries, allId, job, asked, copied, requests>>

\* MusicDir::sync destroys the song of a vanished file, not the entries of it.
ScannerDestroys(s) ==
    /\ Disturb(FALSE)
    /\ s \in songs
    /\ songs' = songs \ {s}
    /\ UNCHANGED <<lists, entries, allId, job, asked, copied, requests>>

\* The scanner keeps the database locked for longer than busy_handler waits.
StatementFails ==
    /\ Disturb(FALSE)
    /\ job # <<>>
    /\ job' = <<>>
    /\ UNCHANGED <<tables, allId, asked, copied, requests>>

\* The process dies and is started again; what was committed is there.
Restart ==
    /\ Disturb(job = <<>>)
    /\ job' = <<>> /\ allId' = 0
    /\ UNCHANGED <<tables, asked, copied, requests>>

Next ==
    \/ NewRequest \/ Exec
    \/ ScannerAdds
    \/ \E s \in songs : ScannerDestroys(s)
    \/ StatementFails \/ Restart

Spec == Init /\ [][Next]_vars

------------------------------------------------------------------------------
(* Properties.                                                             *)

\* The types of the tables' columns, and the lists every object refers to.
TypeOK ==
    /\ songs \subseteq 1..MaxSongs
    /\ {1, 2} \subseteq DOMAIN lists
    /\ \A l \in DOMAIN lists : lists[l] \in Columns
    /\ \A e \in DOMAIN entries :
          entries[e].song \in 1..MaxSongs /\ entries[e].order \in Int
    /\ \A e \in DOMAIN entries : entries[e].pl \in DOMAIN lists \cup {0}
    /\ allId \in DOMAIN lists \cup {0}
    /\ allId # 1

\* Inserting and removing never swaps two entries of a list, wherever the request
\* breaks off and whatever the scanner does: only a reorder moves one entry past
\* another.
NeverSwaps ==
    [][ ~Runs("place") =>
        \A e, f \in DOMAIN entries \cap DOMAIN entries' :
            entries[e].pl = entries[f].pl /\ entries[e].order < entries[f].order
              => entries'[e].order <= entries'[f].order ]_vars

\* A request adds, changes and removes entries of the list its pl_id names, and of no
\* other: in each statement, also those that earlier ones of the request led to, and
\* nothing between statements does.  Only /pl/songs/add/pl changes another list.
OnlyItsPlaylist ==
    [][ \A e \in DOMAIN entries \cup DOMAIN entries' :
          /\ e \in DOMAIN entries
             /\ (e \notin DOMAIN entries' \/ entries'[e] # entries[e])
               => job # <<>> /\ (asked.kind = "add/pl" \/ entries[e].pl = asked.pl)
          /\ e \in DOMAIN entries' \ DOMAIN entries
               => job # <<>> /\ (asked.kind = "add/pl" \/ entries'[e].pl = asked.pl) ]_vars

\* Between requests two songs of a list have different places, so that the order
\* the user gave them is the order that is listed, also when songs were added or the
\* process started again between two requests.  A reorder of some of the songs, which
\* may repeat places, is excepted.
DistinctPlaces ==
    placed /\ job = <<>> =>
        \A e, f \in DOMAIN entries :
            entries[e].pl = entries[f].pl /\ entries[e].order = entries[f].order
              => entries[e].song = entries[f].song

\* A list that was added to an empty list and the copy are equally long (what
\* test/spinny_playlist.cpp expects of insert(PlayList)).
CopiedWhole ==
    job = <<>> /\ copied # NoCopy /\ disturbed = 0
        => SizeOf(copied[1]) = SizeOf(copied[2])
==============================================================================
