--------------------------- MODULE PlaylistsProofs ---------------------------
(***************************************************************************)
(* What Playlists says of the entries, proved for any number of songs,     *)
(* requests, failures and restarts.                                        *)
(*                                                                         *)
(* The invariant says of the statements still to run what the statements   *)
(* need: that a shift is by a natural number and that what they refer to   *)
(* was a list when the request was made, which it still is, since lists    *)
(* are never deleted; and that each is about the list the request asks     *)
(* for, unless the request is /pl/songs/add/pl.  Rowids are bounded, so    *)
(* that a new one is new.                                                  *)
(*                                                                         *)
(* For the places, PlacedInv relates the statements to the entries: what   *)
(* an insert still to come finds free, and which entries are not where     *)
(* they will be when the request has run to its end.                       *)
(***************************************************************************)
EXTENDS Playlists, NumberFacts, FiniteSetTheorems

Ids == DOMAIN lists \cup {0}

\* What a listing says of an entry.
Listed == [entry : Nat, song : 1..MaxSongs, order : Int]

\* All statements about the lists in ids.
Statements(ids) ==
    [k : {"shift"}, pl : ids, from : Int, by : Nat]
    \cup [k : {"row", "place"}, pl : ids, song : 1..MaxSongs, order : Int]
    \cup [k : {"rows"}, pl : ids, order : Int]
    \cup [k : {"join"}, list : ids, pl : ids, from : ids, order : Int]
    \cup [k : {"own"}, list : ids, pl : ids, order : Int]
    \cup [k : {"copy"}, pl : ids, left : SUBSET Listed, order : Int]
    \cup [k : {"pick"}, pl : ids, entry : Nat, order : Int]
    \cup [k : {"close", "erase"}, pl : ids, song : 1..MaxSongs]
    \cup [k : {"save"}, list : ids, by : Columns]

\* Those a request may run: on the list it is for, or the list's own row.
For(ids, request) ==
    {s \in Statements(ids) :
        s.k = "save" \/ request.kind = "add/pl" \/ s.pl = request.pl}

Entry(ids) == [song : 1..MaxSongs, pl : ids, order : Int]

EntriesOK ==
    /\ Bounded(entries)
    /\ entries = [e \in DOMAIN entries |-> entries[e]]
    /\ \A e \in DOMAIN entries : entries[e] \in Entry(Ids)

ListsOK ==
    /\ Bounded(lists)
    /\ {1, 2} \subseteq DOMAIN lists
    /\ \A l \in DOMAIN lists : lists[l] \in Columns
    /\ allId \in Ids /\ allId # 1

IInv ==
    /\ songs \subseteq 1..MaxSongs
    /\ ListsOK
    /\ EntriesOK
    /\ job \in Seq(For(Ids, asked))

------------------------------------------------------------------------------
(* Rowids.                                                                 *)

\* A row that is inserted has a rowid that no row has.
LEMMA RowIsNew ==
    ASSUME NEW table, Bounded(table)
    PROVE  /\ NewRow(table) \in Nat \ {0}
           /\ \A r \in DOMAIN table : r \in Nat /\ 0 < r /\ r < NewRow(table)
BY NextRowid DEF NewRow

\* With it the rowids stay bounded.
LEMMA StaysBounded ==
    ASSUME NEW table, Bounded(table), NEW values
    PROVE  /\ Bounded(WithRow(table, NewRow(table), values))
           /\ DOMAIN WithRow(table, NewRow(table), values) = DOMAIN table \cup {NewRow(table)}
           /\ WithRow(table, NewRow(table), values)[NewRow(table)] = values
           /\ \A r \in DOMAIN table :
                 /\ r # NewRow(table)
                 /\ WithRow(table, NewRow(table), values)[r] = table[r]
<1>1. DOMAIN table \cup {NewRow(table)} \subseteq 1..NewRow(table)
    BY RowIsNew
<1> QED BY <1>1, RowIsNew DEF WithRow, Bounded

\* What is counted is finite: songs and entries.
LEMMA SizesAreNat ==
    ASSUME IInv
    PROVE  /\ Cardinality(songs) \in Nat
           /\ \A l : SizeOf(l) \in Nat
           /\ \A pl : IsFiniteSet(EntriesOf(pl)) /\ Cardinality(EntriesOf(pl)) \in Nat
<1>1. IsFiniteSet(songs) /\ Cardinality(songs) \in Nat
    <2>1. IsFiniteSet(1..MaxSongs)
        BY SongsBounded, FS_Interval
    <2> QED BY <2>1, FS_Subset, FS_CardinalityType DEF IInv
<1>2. ASSUME NEW pl PROVE IsFiniteSet(EntriesOf(pl)) /\ Cardinality(EntriesOf(pl)) \in Nat
    <2>1. PICK n \in Nat : DOMAIN entries \subseteq 1..n
        BY DEF IInv, EntriesOK, Bounded
    <2>2. IsFiniteSet(1..n) /\ EntriesOf(pl) \in SUBSET (1..n)
        BY <2>1, FS_Interval DEF EntriesOf
    <2> QED BY <2>2, FS_Subset, FS_CardinalityType
<1> QED BY <1>1, <1>2 DEF SizeOf

------------------------------------------------------------------------------
(* The statements of a request.                                            *)

\* The statements that a request is made of are statements.
LEMMA JobsAreTyped ==
    ASSUME NEW ids
    PROVE  /\ \A pl \in ids, from \in Int, by \in Nat : Shift(pl, from, by) \in Statements(ids)
           /\ \A pl \in ids, s \in 1..MaxSongs, o \in Int :
                 Row(pl, s, o) \in Statements(ids) /\ Place(pl, s, o) \in Statements(ids)
           /\ \A pl \in ids, o \in Int : Rows(pl, o) \in Statements(ids)
           /\ \A l \in ids, pl \in ids, o \in Int : Own(l, pl, o) \in Statements(ids)
           /\ \A l \in ids, p \in ids, o \in Int :
                 IdOf(l) \in ids => Join(l, p, o) \in Statements(ids)
           /\ \A pl \in ids, left \in SUBSET Listed, o \in Int :
                 Copy(pl, left, o) \in Statements(ids)
           /\ \A pl \in ids, e \in Nat, o \in Int : Pick(pl, e, o) \in Statements(ids)
           /\ \A pl \in ids, s \in 1..MaxSongs :
                 Close(pl, s) \in Statements(ids) /\ Erase(pl, s) \in Statements(ids)
           /\ \A l \in ids, by \in Columns : Save(l, by) \in Statements(ids)
BY DEF Statements, Shift, Row, Place, Rows, Join, Own, Copy, Pick, Close, Erase, Save

LEMMA Pairs ==
    ASSUME NEW S, NEW a \in S, NEW b \in S
    PROVE  <<a>> \in Seq(S) /\ <<a, b>> \in Seq(S) /\ <<>> \in Seq(S)
OBVIOUS

LEMMA IdOfIsId == ASSUME ListsOK PROVE \A l \in Ids : IdOf(l) \in Ids
BY DEF ListsOK, IdOf

\* The statements of a request that is for the list they are about.
LEMMA ForTheList ==
    ASSUME NEW ids, NEW request
    PROVE  /\ \A s \in Statements(ids) :
                 s.k = "save" \/ s.pl = request.pl \/ request.kind = "add/pl"
                   => s \in For(ids, request)
           /\ For(ids, request) \subseteq Statements(ids)
           /\ \A s \in For(ids, request) :
                 s.k = "save" \/ s.pl = request.pl \/ request.kind = "add/pl"
BY DEF For

\* Which list a statement is about.
LEMMA AboutList ==
    /\ \A pl, from, by : Shift(pl, from, by).pl = pl
    /\ \A pl, s, o : Row(pl, s, o).pl = pl /\ Place(pl, s, o).pl = pl
    /\ \A pl, o : Rows(pl, o).pl = pl
    /\ \A l, pl, o : Own(l, pl, o).pl = pl
    /\ \A l, p, o : Join(l, p, o).pl = IdOf(l)
    /\ \A pl, left, o : Copy(pl, left, o).pl = pl
    /\ \A pl, e, o : Pick(pl, e, o).pl = pl
    /\ \A pl, s : Close(pl, s).pl = pl /\ Erase(pl, s).pl = pl
    /\ \A l, by : Save(l, by).k = "save"
BY DEF Shift, Row, Place, Rows, Join, Own, Copy, Pick, Close, Erase, Save

\* SetOrder leaves at most the list's own row to save.
LEMMA SetOrderParts ==
    ASSUME NEW l, NEW by, NEW S, Save(l, by) \in S
    PROVE  /\ SetOrder(l, by) \in Seq(S)
           /\ \A i \in DOMAIN SetOrder(l, by) : SetOrder(l, by)[i].k = "save"
<1>1. PICK v : v = Save(l, by)
    OBVIOUS
<1>2. v.k = "save" /\ v \in S
    BY <1>1 DEF Save
<1>3. SetOrder(l, by) = <<>> \/ SetOrder(l, by) = <<v>>
    BY <1>1 DEF SetOrder
<1>4. CASE SetOrder(l, by) = <<>>
    BY <1>4
<1>5. CASE SetOrder(l, by) = <<v>>
    BY <1>2, <1>5
<1> QED BY <1>3, <1>4, <1>5

\* What a reorder names: n songs of the list, each with a number.
PlacesOf(l, n, ids, places) ==
    [i \in 1..n |-> Place(IdOf(l), ids[i], places[ids[i]])]

Names(l, n, ids, named, places) ==
    /\ n \in Nat
    /\ ids \in [1..n -> named]
    /\ places \in [named -> Positions]
    /\ named \subseteq 1..MaxSongs
    /\ Cardinality(named) = n /\ IsFiniteSet(named)
    /\ \A i, j \in 1..n : ids[i] = ids[j] => i = j

LEMMA ReorderParts ==
    ASSUME IInv, NEW l \in DOMAIN lists, Reorder(l)
    PROVE  \E n, ids, named, places :
             /\ Names(l, n, ids, named, places)
             /\ Asks("reorder", l, PlacesOf(l, n, ids, places) \o SetOrder(l, "bad"))
             /\ placed' => placed /\ named = SongsOf(IdOf(l)) /\ IsInjective(places)
<1>1. PICK named \in SUBSET SongsOf(IdOf(l)) :
        \E ids \in SetToSeqs(named), places \in [named -> Positions] :
        LET statements == [i \in DOMAIN ids |-> Place(IdOf(l), ids[i], places[ids[i]])]
                          \o SetOrder(l, "bad")
        IN IF named = SongsOf(IdOf(l)) /\ IsInjective(places)
           THEN PlacingRequest("reorder", l, statements)
           ELSE OtherRequest("reorder", l, statements)
    BY DEF Reorder
<1>2. PICK ids \in SetToSeqs(named), places \in [named -> Positions] :
        LET statements == [i \in DOMAIN ids |-> Place(IdOf(l), ids[i], places[ids[i]])]
                          \o SetOrder(l, "bad")
        IN IF named = SongsOf(IdOf(l)) /\ IsInjective(places)
           THEN PlacingRequest("reorder", l, statements)
           ELSE OtherRequest("reorder", l, statements)
    BY <1>1
<1> DEFINE n == Cardinality(named)
<1>3. named \in SUBSET (1..MaxSongs)
    BY DEF SongsOf, EntriesOf, IInv, EntriesOK, Entry
<1>4. n \in Nat /\ IsFiniteSet(named)
    <2>1. IsFiniteSet(1..MaxSongs)
        BY SongsBounded, FS_Interval
    <2> QED BY <1>3, <2>1, FS_Subset, FS_CardinalityType
<1>5. ids \in [1..n -> named] /\ \A i, j \in 1..n : ids[i] = ids[j] => i = j
    BY <1>2, <1>4 DEF SetToSeqs, IsInjective
<1>6. DOMAIN ids = 1..n
    BY <1>5
<1> DEFINE statements == PlacesOf(l, n, ids, places) \o SetOrder(l, "bad")
           full == named = SongsOf(IdOf(l)) /\ IsInjective(places)
<1>7. IF full THEN PlacingRequest("reorder", l, statements)
              ELSE OtherRequest("reorder", l, statements)
    BY <1>2, <1>6 DEF PlacesOf
<1> HIDE DEF statements, n, full
<1>8. Asks("reorder", l, statements)
    BY <1>7 DEF PlacingRequest, OtherRequest
<1>9. placed' => full /\ placed
    BY <1>7 DEF PlacingRequest, OtherRequest
<1>10. Names(l, n, ids, named, places)
    BY <1>2, <1>3, <1>4, <1>5 DEF Names, n
<1>11. placed' => placed /\ named = SongsOf(IdOf(l)) /\ IsInjective(places)
    BY <1>9 DEF full
<1>12. Asks("reorder", l, PlacesOf(l, n, ids, places) \o SetOrder(l, "bad"))
    BY <1>8 DEF statements
<1> QED BY <1>4, <1>10, <1>11, <1>12

\* A request reads, and leaves statements to run.
LEMMA RequestStep ==
    ASSUME IInv, NewRequest
    PROVE  /\ job' \in Seq(For(Ids, asked'))
           /\ UNCHANGED <<tables, allId>>
<1> DEFINE S == For(Ids, asked')
<1>1. PICK l \in DOMAIN lists :
        \/ \E pos \in Positions :
              \/ \E s \in songs : AddSong(l, s, pos)
              \/ \E e, f \in DOMAIN entries : AddSongs(l, e, f, pos)
              \/ AddDir(l, pos)
              \/ \E p \in DOMAIN lists : AddPl(l, p, pos) \/ AddSelf(l, p, pos)
        \/ \E s \in 1..MaxSongs : Rm(l, s)
        \/ Reorder(l)
        \/ Sort(l)
        \/ Update(l)
        \/ Update(0)
    BY DEF NewRequest
<1>2. /\ l \in Ids /\ 0 \in Ids
      /\ \A p \in Ids : IdOf(p) \in Ids
      /\ \A pos \in Positions : pos \in Int /\ pos + 1 \in Int
      /\ \A e \in DOMAIN entries : e \in Nat
      /\ songs \subseteq 1..MaxSongs
    BY IdOfIsId DEF IInv, EntriesOK, Bounded, Ids, Positions
<1>3. ASSUME NEW kind, NEW k \in Ids, NEW statements, Asks(kind, k, statements)
      PROVE  /\ job' = statements /\ UNCHANGED <<tables, allId>>
             /\ asked'.kind = kind /\ asked'.pl = IdOf(k)
    BY <1>3 DEF Asks
<1>4. ASSUME NEW kind, NEW k \in Ids, NEW statements,
             PlacingRequest(kind, k, statements) \/ OtherRequest(kind, k, statements)
      PROVE  /\ job' = statements /\ UNCHANGED <<tables, allId>>
             /\ asked'.kind = kind /\ asked'.pl = IdOf(k)
    BY <1>3, <1>4 DEF PlacingRequest, OtherRequest
<1>5. \A s \in Statements(Ids) :
        s.k = "save" \/ s.pl = asked'.pl \/ asked'.kind = "add/pl" => s \in S
    BY ForTheList
<1> HIDE DEF S
<1>6. \A by \in Columns : Save(l, by) \in S
    BY <1>2, <1>5, JobsAreTyped, AboutList
<1>7. ASSUME NEW pos \in Positions, NEW s \in songs, AddSong(l, s, pos)
      PROVE  job' \in Seq(S) /\ UNCHANGED <<tables, allId>>
    <2>1. /\ job' = InsertSong(IdOf(l), s, pos) /\ UNCHANGED <<tables, allId>>
          /\ asked'.pl = IdOf(l)
        BY <1>2, <1>4, <1>7 DEF AddSong
    <2>2. Shift(IdOf(l), pos, 1) \in S /\ Row(IdOf(l), s, pos) \in S
        BY <1>2, <1>5, <2>1, JobsAreTyped, AboutList
    <2> QED BY <2>1, <2>2, Pairs DEF InsertSong
<1>8. ASSUME NEW pos \in Positions, NEW e \in DOMAIN entries, NEW f \in DOMAIN entries,
             AddSongs(l, e, f, pos)
      PROVE  job' \in Seq(S) /\ UNCHANGED <<tables, allId>>
    <2>1. /\ job' = <<Pick(IdOf(l), e, pos), Pick(IdOf(l), f, pos + 1)>>
          /\ UNCHANGED <<tables, allId>> /\ asked'.pl = IdOf(l)
        BY <1>2, <1>4, <1>8 DEF AddSongs
    <2>2. Pick(IdOf(l), e, pos) \in S /\ Pick(IdOf(l), f, pos + 1) \in S
        BY <1>2, <1>5, <2>1, JobsAreTyped, AboutList
    <2> QED BY <2>1, <2>2, Pairs
<1>9. ASSUME NEW pos \in Positions, AddDir(l, pos)
      PROVE  job' \in Seq(S) /\ UNCHANGED <<tables, allId>>
    <2>1. /\ job' = <<Shift(IdOf(l), pos, Cardinality(songs)), Rows(IdOf(l), pos)>>
          /\ UNCHANGED <<tables, allId>> /\ asked'.pl = IdOf(l)
        BY <1>2, <1>4, <1>9 DEF AddDir
    <2>2. Shift(IdOf(l), pos, Cardinality(songs)) \in S /\ Rows(IdOf(l), pos) \in S
        BY <1>2, <1>5, <2>1, JobsAreTyped, AboutList, SizesAreNat
    <2> QED BY <2>1, <2>2, Pairs
<1>10. ASSUME NEW pos \in Positions, NEW p \in DOMAIN lists, AddPl(l, p, pos)
       PROVE  job' \in Seq(S) /\ UNCHANGED <<tables, allId>>
    <2> DEFINE statements == IF l = p THEN <<Join(l, l, pos)>>
                             ELSE <<Join(l, l, pos), Join(l, p, pos)>>
    <2>0. Asks("addpl", l, statements)
        BY <1>10 DEF AddPl
    <2> HIDE DEF statements
    <2>1. /\ job' = statements
          /\ UNCHANGED <<tables, allId>> /\ asked'.pl = IdOf(l)
        BY <1>2, <1>3, <2>0
    <2>2. p \in Ids /\ IdOf(l) \in Ids /\ pos \in Int
        BY <1>2 DEF Ids
    <2>3. Join(l, l, pos) \in Statements(Ids) /\ Join(l, p, pos) \in Statements(Ids)
        BY <1>2, <2>2, JobsAreTyped
    <2>4. Join(l, l, pos) \in S /\ Join(l, p, pos) \in S
        BY <1>5, <2>1, <2>3, AboutList
    <2>5. statements \in Seq(S)
        BY <2>4, Pairs DEF statements
    <2> QED BY <2>1, <2>5
<1>11. ASSUME NEW pos \in Positions, NEW p \in DOMAIN lists, AddSelf(l, p, pos)
       PROVE  job' \in Seq(S) /\ UNCHANGED <<tables, allId>>
    <2>1. /\ job' = <<Join(p, p, pos)>>
          /\ UNCHANGED <<tables, allId>> /\ asked'.kind = "add/pl"
        BY <1>2, <1>4, <1>11 DEF AddSelf
    <2>2. Join(p, p, pos) \in S
        BY <1>2, <1>5, <2>1, JobsAreTyped DEF Ids
    <2> QED BY <2>1, <2>2, Pairs
<1>12. ASSUME NEW s \in 1..MaxSongs, Rm(l, s)
       PROVE  job' \in Seq(S) /\ UNCHANGED <<tables, allId>>
    <2>1. /\ job' = <<Close(IdOf(l), s), Erase(IdOf(l), s)>>
          /\ UNCHANGED <<tables, allId>> /\ asked'.pl = IdOf(l)
        BY <1>2, <1>4, <1>12 DEF Rm
    <2>2. Close(IdOf(l), s) \in S /\ Erase(IdOf(l), s) \in S
        BY <1>2, <1>5, <2>1, JobsAreTyped, AboutList
    <2> QED BY <2>1, <2>2, Pairs
<1>13. ASSUME Reorder(l) PROVE job' \in Seq(S) /\ UNCHANGED <<tables, allId>>
    <2>1. PICK n, ids, named, places :
            /\ Names(l, n, ids, named, places)
            /\ Asks("reorder", l, PlacesOf(l, n, ids, places) \o SetOrder(l, "bad"))
        BY <1>13, ReorderParts
    <2>2. /\ job' = PlacesOf(l, n, ids, places) \o SetOrder(l, "bad")
          /\ UNCHANGED <<tables, allId>> /\ asked'.pl = IdOf(l)
        BY <1>2, <1>3, <2>1
    <2>0. n \in Nat
        BY <2>1 DEF Names
    <2>3. \A i \in 1..n : Place(IdOf(l), ids[i], places[ids[i]]) \in S
        <3>1. ASSUME NEW i \in 1..n
              PROVE  ids[i] \in 1..MaxSongs /\ places[ids[i]] \in Int
            <4>1. ids[i] \in named /\ named \subseteq 1..MaxSongs
                BY <2>1 DEF Names
            <4>2. places \in [named -> Positions]
                BY <2>1 DEF Names
            <4>3. places[ids[i]] \in Positions
                BY <4>1, <4>2
            <4>4. Positions \subseteq Int
                BY DEF Positions
            <4> QED BY <4>1, <4>3, <4>4
        <3> QED BY <1>2, <1>5, <2>2, <3>1, JobsAreTyped, AboutList
    <2>4. PlacesOf(l, n, ids, places) \in Seq(S)
        BY <2>0, <2>3 DEF PlacesOf
    <2>5. SetOrder(l, "bad") \in Seq(S)
        BY <1>6, SetOrderParts DEF Columns
    <2> HIDE DEF S
    <2>6. PlacesOf(l, n, ids, places) \o SetOrder(l, "bad") \in Seq(S)
        BY <2>4, <2>5
    <2> QED BY <2>2, <2>6
<1>14. ASSUME Sort(l) PROVE job' \in Seq(S) /\ UNCHANGED <<tables, allId>>
    <2>1. job' = SetOrder(l, "title") /\ UNCHANGED <<tables, allId>>
        BY <1>2, <1>4, <1>14 DEF Sort
    <2> QED BY <1>6, <2>1, SetOrderParts DEF Columns
<1>15. ASSUME NEW k \in {l, 0}, Update(k)
       PROVE  job' \in Seq(S) /\ UNCHANGED <<tables, allId>>
    <2>1. (IF k \in {0, 1} THEN "order" ELSE lists[k]) \in Columns
        BY DEF IInv, ListsOK, Columns
    <2>2. PICK by \in Columns : job' = <<Save(k, by)>> /\ UNCHANGED <<tables, allId>>
        BY <1>2, <1>4, <1>15, <2>1 DEF Update
    <2>3. Save(k, by) \in S
        BY <1>2, <1>5, JobsAreTyped, AboutList
    <2> QED BY <2>2, <2>3, Pairs
<1>16. job' \in Seq(S) /\ UNCHANGED <<tables, allId>>
    BY <1>1, <1>7, <1>8, <1>9, <1>10, <1>11, <1>12, <1>13, <1>14, <1>15
<1> QED BY <1>16 DEF S

------------------------------------------------------------------------------
(* What the statements do.                                                 *)

\* The statement that runs, and those that are left.
LEMMA JobParts ==
    ASSUME IInv, job # <<>>
    PROVE  /\ st \in For(Ids, asked) /\ st \in Statements(Ids)
           /\ Tail(job) \in Seq(For(Ids, asked))
<1> DEFINE S == For(Ids, asked)
<1>1. job \in Seq(S)
    BY DEF IInv
<1>2. S \subseteq Statements(Ids)
    BY ForTheList
<1> HIDE DEF S
<1>3. st \in S /\ Tail(job) \in Seq(S)
    BY <1>1 DEF st
<1> QED BY <1>2, <1>3 DEF S

\* What comes before the rest is typed with it.
LEMMA ExecutedIsTyped ==
    ASSUME IInv, job # <<>>, NEW more \in Seq(For(Ids, asked)), Executed(more)
    PROVE  job' \in Seq(For(Ids, asked)) /\ songs' = songs /\ asked' = asked
<1>1. Tail(job) \in Seq(For(Ids, asked))
    BY JobParts
<1>2. songs' = songs /\ asked' = asked /\ job' = more \o Tail(job)
    BY DEF Executed, history
<1> QED BY <1>1, <1>2

\* With more lists the statements there are stay statements.
LEMMA MoreIds ==
    ASSUME NEW S, NEW T, S \subseteq T
    PROVE  /\ Statements(S) \subseteq Statements(T) /\ Entry(S) \subseteq Entry(T)
           /\ \A request, q : q \in Seq(For(S, request)) => q \in Seq(For(T, request))
<1>1. Statements(S) \subseteq Statements(T)
    BY DEF Statements
<1>2. Entry(S) \subseteq Entry(T)
    BY DEF Entry
<1>3. \A request : For(S, request) \subseteq For(T, request)
    BY <1>1 DEF For
<1>4. ASSUME NEW request, NEW q \in Seq(For(S, request)) PROVE q \in Seq(For(T, request))
    <2>1. PICK A, B : A = For(S, request) /\ B = For(T, request)
        OBVIOUS
    <2> QED BY <1>3, <2>1
<1> QED BY <1>1, <1>2, <1>4

\* Entries whose places are changed are the same ones otherwise.
LEMMA MovedEntries ==
    ASSUME EntriesOK, NEW some, NEW by \in Int
    PROVE  /\ DOMAIN Moved(some, by) = DOMAIN entries
           /\ Moved(some, by) = [e \in DOMAIN entries |-> Moved(some, by)[e]]
           /\ \A e \in DOMAIN entries :
                 /\ Moved(some, by)[e] \in Entry(Ids)
                 /\ Moved(some, by)[e].pl = entries[e].pl
                 /\ Moved(some, by)[e].song = entries[e].song
                 /\ e \in some => Moved(some, by)[e].order = entries[e].order + by
                 /\ e \notin some => Moved(some, by)[e] = entries[e]
BY DEF EntriesOK, Moved, Entry

\* Any of the statements that move entries.
LEMMA MovingStep ==
    ASSUME IInv, NEW some, NEW by \in Int, entries' = Moved(some, by),
           UNCHANGED <<lists, allId>>
    PROVE  EntriesOK' /\ ListsOK'
<1>1. ListsOK' /\ Ids' = Ids
    BY DEF IInv, ListsOK, Ids, Bounded
<1>2. EntriesOK
    BY DEF IInv
<1>3. Bounded(entries')
    BY <1>2, MovedEntries DEF EntriesOK, Bounded
<1>4. entries' = [e \in DOMAIN entries' |-> entries'[e]]
    BY <1>2, MovedEntries
<1>5. \A e \in DOMAIN entries' : entries'[e] \in Entry(Ids)
    BY <1>2, MovedEntries
<1> QED BY <1>1, <1>3, <1>4, <1>5 DEF EntriesOK

\* A statement keeps the invariant when it keeps entries and lists.
LEMMA ExecutedKeeps ==
    ASSUME IInv, job # <<>>, NEW more \in Seq(For(Ids, asked)), Executed(more),
           EntriesOK', ListsOK', DOMAIN lists \subseteq DOMAIN lists'
    PROVE  IInv'
<1>1. job' \in Seq(For(Ids, asked)) /\ songs' = songs /\ asked' = asked
    BY ExecutedIsTyped
<1>2. Ids \subseteq Ids'
    BY DEF Ids
<1>3. job' \in Seq(For(Ids', asked'))
    BY <1>1, <1>2, MoreIds
<1> QED BY <1>1, <1>3 DEF IInv

\* A statement without effect on the tables.
LEMMA QuietKeeps ==
    ASSUME IInv, UNCHANGED <<lists, entries, allId>>
    PROVE  EntriesOK' /\ ListsOK' /\ DOMAIN lists \subseteq DOMAIN lists'
BY DEF IInv, EntriesOK, ListsOK, Ids, Bounded

\* The same for a statement that nothing follows.
LEMMA DoneKeeps ==
    ASSUME IInv, job # <<>>, Executed(<<>>),
           EntriesOK', ListsOK', DOMAIN lists \subseteq DOMAIN lists'
    PROVE  IInv'
<1>1. <<>> \in Seq(For(Ids, asked))
    OBVIOUS
<1> QED BY <1>1, ExecutedKeeps

------------------------------------------------------------------------------
(* Each statement keeps the invariant.                                     *)

\* One more row.
LEMMA RowAdded ==
    ASSUME IInv, NEW v \in Entry(Ids), entries' = WithRow(entries, NewRow(entries), v),
           UNCHANGED <<lists, allId>>
    PROVE  EntriesOK' /\ ListsOK' /\ DOMAIN lists \subseteq DOMAIN lists'
<1> DEFINE r == NewRow(entries)
<1>1. EntriesOK /\ Bounded(entries)
    BY DEF IInv, EntriesOK
<1>2. /\ Bounded(WithRow(entries, r, v))
      /\ DOMAIN WithRow(entries, r, v) = DOMAIN entries \cup {r}
      /\ WithRow(entries, r, v)[r] = v
      /\ \A e \in DOMAIN entries : WithRow(entries, r, v)[e] = entries[e]
    BY <1>1, StaysBounded, SMTT(30)
<1>3. entries' = [e \in DOMAIN entries' |-> entries'[e]]
    BY DEF WithRow
<1>4. Ids' = Ids /\ ListsOK' /\ lists' = lists
    BY DEF IInv, Ids, ListsOK, Bounded
<1> HIDE DEF r
<1>5. /\ Bounded(entries') /\ DOMAIN entries' = DOMAIN entries \cup {r}
      /\ entries'[r] = v
      /\ \A e \in DOMAIN entries : entries'[e] = entries[e]
    BY <1>2 DEF r
<1>6. EntriesOK'
    BY <1>1, <1>3, <1>4, <1>5 DEF EntriesOK
<1> QED BY <1>4, <1>6

LEMMA ExecRowStep == ASSUME IInv, ExecRow PROVE IInv'
<1> DEFINE v == [song |-> st.song, pl |-> st.pl, order |-> st.order]
<1>1. /\ job # <<>> /\ entries' = WithRow(entries, NewRow(entries), v)
      /\ UNCHANGED <<lists, allId>> /\ Executed(<<>>)
    BY DEF ExecRow, Runs
<1>2. v \in Entry(Ids)
    BY JobParts DEF ExecRow, Runs, Statements, Entry
<1> HIDE DEF v
<1>3. EntriesOK' /\ ListsOK' /\ DOMAIN lists \subseteq DOMAIN lists'
    BY <1>1, <1>2, RowAdded
<1> QED BY <1>1, <1>3, DoneKeeps

LEMMA ExecRowsStep == ASSUME IInv, ExecRows PROVE IInv'
<1> DEFINE last == NewRow(entries) - 1
           new == (last + 1)..(last + Cardinality(songs))
<1>1. PICK found \in SetToSeqs(songs) :
        entries' = [e \in DOMAIN entries \cup new |->
                       IF e \in new
                       THEN [song |-> found[e - last], pl |-> st.pl,
                             order |-> st.order + (e - last - 1)]
                       ELSE entries[e]]
    BY DEF ExecRows
<1>2. job # <<>> /\ st.pl \in Ids /\ st.order \in Int
    BY JobParts DEF ExecRows, Runs, Statements
<1>3. EntriesOK /\ songs \subseteq 1..MaxSongs /\ Cardinality(songs) \in Nat
    BY SizesAreNat DEF IInv
<1>4. /\ last \in Nat /\ found \in [1..Cardinality(songs) -> songs]
      /\ \A e \in DOMAIN entries : e \in Nat /\ 0 < e /\ e <= last
    BY <1>3, RowIsNew DEF SetToSeqs, EntriesOK
<1> HIDE DEF last
<1>5. DOMAIN entries' = DOMAIN entries \cup new
    BY <1>1
<1>6. Bounded(entries')
    <2>1. last + Cardinality(songs) \in Nat
          /\ DOMAIN entries' \subseteq 1..(last + Cardinality(songs))
        BY <1>3, <1>4, <1>5
    <2> QED BY <2>1 DEF Bounded
<1>7. ASSUME NEW e \in DOMAIN entries' PROVE entries'[e] \in Entry(Ids)
    <2>1. CASE e \in new
        <3>1. e - last \in 1..Cardinality(songs)
            BY <1>3, <1>4, <2>1
        <3>2. found[e - last] \in 1..MaxSongs
            BY <1>3, <1>4, <3>1
        <3>3. entries'[e] = [song |-> found[e - last], pl |-> st.pl,
                             order |-> st.order + (e - last - 1)]
            BY <1>1, <2>1
        <3>4. st.order + (e - last - 1) \in Int
            BY <1>2, <1>4, <3>1
        <3> QED BY <1>2, <3>2, <3>3, <3>4 DEF Entry
    <2>2. CASE e \notin new
        BY <1>1, <1>3, <1>5, <2>2 DEF EntriesOK
    <2> QED BY <2>1, <2>2
<1>8. Ids' = Ids /\ ListsOK' /\ lists' = lists
    BY DEF ExecRows, IInv, Ids, ListsOK, Bounded
<1>9. EntriesOK'
    <2>1. entries' = [e \in DOMAIN entries' |-> entries'[e]]
        BY <1>1
    <2> QED BY <1>6, <1>7, <1>8, <2>1 DEF EntriesOK
<1>10. Executed(<<>>)
    BY DEF ExecRows
<1> QED BY <1>2, <1>8, <1>9, <1>10, DoneKeeps

LEMMA ExecSaveStep == ASSUME IInv, ExecSave PROVE IInv'
<1>1. job # <<>> /\ st.list \in Ids /\ st.by \in Columns /\ IdOf(st.list) \in Ids
    BY JobParts, IdOfIsId DEF ExecSave, Runs, Statements, IInv
<1>2. ListsOK /\ EntriesOK
    BY DEF IInv
<1>3. ListsOK' /\ DOMAIN lists \subseteq DOMAIN lists'
    <2>1. CASE IdOf(st.list) = 0
        <3>1. /\ lists' = WithRow(lists, NewRow(lists), st.by)
              /\ allId' \in {NewRow(lists), allId}
            BY <2>1 DEF ExecSave
        <3>2. /\ Bounded(lists') /\ DOMAIN lists' = DOMAIN lists \cup {NewRow(lists)}
              /\ lists'[NewRow(lists)] = st.by
              /\ \A l \in DOMAIN lists : lists'[l] = lists[l]
            BY <1>2, <3>1, StaysBounded DEF ListsOK
        <3>3. NewRow(lists) # 1
            BY <1>2, RowIsNew DEF ListsOK
        <3> QED BY <1>1, <1>2, <3>1, <3>2, <3>3 DEF ListsOK, Ids
    <2>2. CASE IdOf(st.list) # 0
        BY <1>1, <1>2, <2>2 DEF ExecSave, ListsOK, Ids, Bounded
    <2> QED BY <2>1, <2>2
<1>4. EntriesOK'
    <2>1. Ids \subseteq Ids'
        BY <1>3 DEF Ids
    <2>2. entries' = entries
        BY DEF ExecSave
    <2>3. Entry(Ids) \subseteq Entry(Ids')
        BY <2>1, MoreIds
    <2> QED BY <1>2, <2>2, <2>3 DEF EntriesOK, Bounded
<1>5. Executed(<<>>)
    BY DEF ExecSave
<1> QED BY <1>1, <1>3, <1>4, <1>5, DoneKeeps

LEMMA ExecShiftStep == ASSUME IInv, ExecShift PROVE IInv'
<1> DEFINE some == {e \in EntriesOf(st.pl) : entries[e].order >= st.from}
           by == st.by
<1>1. job # <<>> /\ by \in Int
    BY JobParts DEF ExecShift, Runs, Statements
<1>2. entries' = Moved(some, by) /\ UNCHANGED <<lists, allId>> /\ Executed(<<>>)
    BY DEF ExecShift
<1> HIDE DEF some, by
<1>3. EntriesOK' /\ ListsOK'
    BY <1>1, <1>2, MovingStep
<1> QED BY <1>1, <1>2, <1>3, DoneKeeps

LEMMA ExecCloseStep == ASSUME IInv, ExecClose PROVE IInv'
<1>1. PICK some : entries' = Moved(some, -1)
    BY DEF ExecClose
<1>2. job # <<>> /\ UNCHANGED <<lists, allId>> /\ Executed(<<>>)
    BY DEF ExecClose, Runs
<1>3. EntriesOK' /\ ListsOK'
    BY <1>1, <1>2, MovingStep
<1> QED BY <1>2, <1>3, DoneKeeps

LEMMA ExecEraseStep == ASSUME IInv, ExecErase PROVE IInv'
<1>1. /\ job # <<>> /\ UNCHANGED <<lists, allId>> /\ Executed(<<>>)
      /\ DOMAIN entries' \subseteq DOMAIN entries
      /\ entries' = [e \in DOMAIN entries' |-> entries[e]]
    BY DEF ExecErase, Runs, Restrict
<1>2. ListsOK' /\ Ids' = Ids /\ EntriesOK
    BY <1>1 DEF IInv, ListsOK, Ids, Bounded
<1>3. Bounded(entries')
    BY <1>1, <1>2 DEF EntriesOK, Bounded
<1>4. \A e \in DOMAIN entries' : entries'[e] \in Entry(Ids)
    BY <1>1, <1>2 DEF EntriesOK
<1>5. EntriesOK'
    BY <1>1, <1>2, <1>3, <1>4 DEF EntriesOK
<1> QED BY <1>1, <1>2, <1>5, DoneKeeps

LEMMA ExecPlaceStep == ASSUME IInv, ExecPlace PROVE IInv'
<1>1. /\ job # <<>> /\ UNCHANGED <<lists, allId>> /\ Executed(<<>>)
      /\ entries' = [e \in DOMAIN entries |->
                       IF entries[e].pl = st.pl /\ entries[e].song = st.song
                       THEN [entries[e] EXCEPT !.order = st.order] ELSE entries[e]]
    BY DEF ExecPlace, Runs
<1>2. ListsOK' /\ Ids' = Ids /\ EntriesOK
    BY <1>1 DEF IInv, ListsOK, Ids, Bounded
<1>3. st.order \in Int
    BY JobParts DEF ExecPlace, Runs, Statements
<1>4. \A e \in DOMAIN entries' : entries'[e] \in Entry(Ids)
    BY <1>1, <1>2, <1>3 DEF EntriesOK, Entry
<1>5. EntriesOK'
    BY <1>1, <1>2, <1>4 DEF EntriesOK, Bounded
<1> QED BY <1>1, <1>2, <1>5, DoneKeeps

\* What follows a statement is about its list.
LEMMA SameList ==
    ASSUME IInv, job # <<>>, st.k # "save", NEW s \in Statements(Ids), s.pl = st.pl
    PROVE  s \in For(Ids, asked)
<1>1. st.pl = asked.pl \/ asked.kind = "add/pl"
    BY JobParts, ForTheList
<1> QED BY <1>1, ForTheList

LEMMA ExecPickStep == ASSUME IInv, ExecPick PROVE IInv'
<1> DEFINE more == InsertSong(st.pl, entries[st.entry].song, st.order)
<1>1. /\ job # <<>> /\ UNCHANGED <<lists, entries, allId>> /\ Executed(more)
      /\ st.entry \in DOMAIN entries /\ st.k = "pick"
    BY DEF ExecPick, Runs, Loadable
<1>2. /\ st.pl \in Ids /\ st.order \in Int
      /\ entries[st.entry].song \in 1..MaxSongs
    BY <1>1, JobParts DEF Statements, IInv, EntriesOK, Entry
<1>3. more \in Seq(For(Ids, asked))
    <2>1. /\ Shift(st.pl, st.order, 1) \in Statements(Ids)
          /\ Row(st.pl, entries[st.entry].song, st.order) \in Statements(Ids)
        BY <1>2, JobsAreTyped
    <2>2. /\ Shift(st.pl, st.order, 1) \in For(Ids, asked)
          /\ Row(st.pl, entries[st.entry].song, st.order) \in For(Ids, asked)
        BY <1>1, <2>1, SameList, AboutList
    <2> QED BY <2>2, Pairs DEF InsertSong
<1> HIDE DEF more
<1>4. EntriesOK' /\ ListsOK' /\ DOMAIN lists \subseteq DOMAIN lists'
    BY <1>1, QuietKeeps
<1> QED BY <1>1, <1>3, <1>4, ExecutedKeeps

LEMMA ExecJoinStep == ASSUME IInv, ExecJoin PROVE IInv'
<1> DEFINE more == <<Shift(st.pl, st.order, SizeOf(st.from)),
                     Own(st.list, st.pl, st.order)>>
<1>1. /\ job # <<>> /\ UNCHANGED <<lists, entries, allId>> /\ Executed(more)
      /\ st.k = "join"
    BY DEF ExecJoin, Runs
<1>2. /\ st.pl \in Ids /\ st.list \in Ids /\ st.order \in Int
      /\ SizeOf(st.from) \in Nat
    BY <1>1, JobParts, SizesAreNat DEF Statements
<1>3. more \in Seq(For(Ids, asked))
    <2>1. /\ Shift(st.pl, st.order, SizeOf(st.from)) \in Statements(Ids)
          /\ Own(st.list, st.pl, st.order) \in Statements(Ids)
        BY <1>2, JobsAreTyped
    <2>2. /\ Shift(st.pl, st.order, SizeOf(st.from)) \in For(Ids, asked)
          /\ Own(st.list, st.pl, st.order) \in For(Ids, asked)
        BY <1>1, <2>1, SameList, AboutList
    <2> QED BY <2>2, Pairs
<1> HIDE DEF more
<1>4. EntriesOK' /\ ListsOK' /\ DOMAIN lists \subseteq DOMAIN lists'
    BY <1>1, QuietKeeps
<1> QED BY <1>1, <1>3, <1>4, ExecutedKeeps

\* What a listing leaves to insert.
LEMMA CopiesAreTyped ==
    ASSUME IInv, job # <<>>, st.k # "save", st.pl \in Ids,
           NEW left \in SUBSET Listed, NEW order \in Int
    PROVE  Copies(st.pl, left, order) \in Seq(For(Ids, asked))
<1>1. Copy(st.pl, left, order) \in Statements(Ids)
    BY JobsAreTyped
<1>2. Copy(st.pl, left, order) \in For(Ids, asked)
    BY <1>1, SameList, AboutList
<1> QED BY <1>2, Pairs DEF Copies

LEMMA ExecOwnStep == ASSUME IInv, ExecOwn PROVE IInv'
<1> DEFINE more == Copies(st.pl, Listing(st.pl), st.order + 1)
<1>1. /\ job # <<>> /\ UNCHANGED <<lists, entries, allId>> /\ Executed(more)
      /\ st.k = "own"
    BY DEF ExecOwn, Runs
<1>2. st.pl \in Ids /\ st.order \in Int
    BY <1>1, JobParts DEF Statements
<1>3. Listing(st.pl) \in SUBSET Listed
    BY DEF Listing, Listed, EntriesOf, IInv, EntriesOK, Bounded, Entry
<1>4. more \in Seq(For(Ids, asked))
    BY <1>1, <1>2, <1>3, CopiesAreTyped
<1> HIDE DEF more
<1>5. EntriesOK' /\ ListsOK' /\ DOMAIN lists \subseteq DOMAIN lists'
    BY <1>1, QuietKeeps
<1> QED BY <1>1, <1>4, <1>5, ExecutedKeeps

\* The song inserted is one of the listing.
LEMMA CopyParts ==
    ASSUME IInv, ExecCopy
    PROVE  /\ job # <<>> /\ st.k = "copy" /\ UNCHANGED <<lists, allId>>
           /\ st.pl \in Ids /\ st.order \in Int /\ st.left \in SUBSET Listed
           /\ \E first, v :
                 /\ first \in st.left
                 /\ v = [song |-> first.song, pl |-> st.pl, order |-> st.order]
                 /\ entries' = WithRow(entries, NewRow(entries), v)
                 /\ Executed(Copies(st.pl, st.left \ {first}, st.order + 1))
<1>1. job # <<>> /\ st.k = "copy" /\ UNCHANGED <<lists, allId>>
    BY DEF ExecCopy, Runs
<1>2. st.pl \in Ids /\ st.order \in Int /\ st.left \in SUBSET Listed
    BY <1>1, JobParts DEF Statements
<1> QED BY <1>1, <1>2 DEF ExecCopy

LEMMA ExecCopyStep == ASSUME IInv, ExecCopy PROVE IInv'
<1>1. PICK first, v :
        /\ first \in st.left
        /\ v = [song |-> first.song, pl |-> st.pl, order |-> st.order]
        /\ entries' = WithRow(entries, NewRow(entries), v)
        /\ Executed(Copies(st.pl, st.left \ {first}, st.order + 1))
    BY CopyParts
<1>2. /\ job # <<>> /\ st.k = "copy" /\ UNCHANGED <<lists, allId>>
      /\ st.pl \in Ids /\ st.order \in Int /\ st.left \in SUBSET Listed
    BY CopyParts
<1>3. v \in Entry(Ids)
    <2>1. first.song \in 1..MaxSongs
        BY <1>1, <1>2 DEF Listed
    <2> QED BY <1>1, <1>2, <2>1 DEF Entry
<1>4. EntriesOK' /\ ListsOK' /\ DOMAIN lists \subseteq DOMAIN lists'
    BY <1>1, <1>2, <1>3, RowAdded
<1>5. Copies(st.pl, st.left \ {first}, st.order + 1) \in Seq(For(Ids, asked))
    BY <1>2, CopiesAreTyped
<1>6. PICK more \in Seq(For(Ids, asked)) : Executed(more)
    BY <1>1, <1>5
<1> QED BY <1>2, <1>4, <1>6, ExecutedKeeps

\* A request that ends early, and what happens between the statements.
LEMMA EndedKeeps ==
    ASSUME IInv, job' \in {job, <<>>}, UNCHANGED <<lists, entries, asked>>,
           allId' \in {allId, 0}, songs' \subseteq 1..MaxSongs
    PROVE  IInv'
<1>1. Ids' = Ids
    BY DEF Ids
<1>2. lists' = lists /\ entries' = entries
    OBVIOUS
<1>3. ListsOK'
    BY <1>1, <1>2 DEF IInv, ListsOK, Bounded, Ids
<1>4. EntriesOK'
    BY <1>1, <1>2 DEF IInv, EntriesOK, Bounded
<1>5. job' \in Seq(For(Ids, asked))
    <2>1. <<>> \in Seq(For(Ids, asked))
        OBVIOUS
    <2>2. job \in Seq(For(Ids, asked))
        BY DEF IInv
    <2> QED BY <2>1, <2>2
<1> QED BY <1>1, <1>3, <1>4, <1>5 DEF IInv

\* The song that is added is one after the last.
LEMMA LastSong == ASSUME IInv PROVE Max(songs \cup {0}) \in 0..MaxSongs
<1>1. songs \cup {0} \in SUBSET (0..MaxSongs) /\ songs \cup {0} # {}
    BY SongsBounded DEF IInv
<1>2. Max(songs \cup {0}) \in songs \cup {0}
    BY <1>1, SongsBounded, MaxOfBounded
<1> QED BY <1>1, <1>2, SongsBounded

LEMMA InitIInv == Init => IInv
<1> SUFFICES ASSUME Init PROVE IInv
    OBVIOUS
<1>1. ListsOK
    <2>1. DOMAIN lists = 1..2 /\ 2 \in Nat
        BY DEF Init
    <2> QED BY <2>1 DEF Init, ListsOK, Bounded, Ids, Columns
<1>2. EntriesOK
    <2>1. DOMAIN entries = {} /\ 0 \in Nat
        BY DEF Init
    <2> QED BY <2>1 DEF Init, EntriesOK, Bounded
<1> QED BY <1>1, <1>2, SongsBounded DEF Init, IInv

\* Every step keeps the invariant.
LEMMA NextIInv == IInv /\ [Next]_vars => IInv'
<1> SUFFICES ASSUME IInv, [Next]_vars PROVE IInv'
    OBVIOUS
<1>1. CASE NewRequest
    <2>1. job' \in Seq(For(Ids, asked')) /\ UNCHANGED <<tables, allId>>
        BY <1>1, RequestStep
    <2>2. Ids' = Ids /\ ListsOK' /\ EntriesOK'
        BY <2>1 DEF tables, IInv, ListsOK, EntriesOK, Bounded, Ids
    <2> QED BY <2>1, <2>2 DEF tables, IInv
<1>2. CASE Exec
    <2>1. CASE Refused
        BY <2>1, EndedKeeps DEF Refused, tables, IInv
    <2> QED BY <1>2, <2>1, ExecShiftStep, ExecRowStep, ExecRowsStep, ExecJoinStep,
            ExecOwnStep, ExecCopyStep, ExecPickStep, ExecCloseStep, ExecEraseStep,
            ExecPlaceStep, ExecSaveStep DEF Exec
<1>3. CASE ScannerAdds
    <2>1. 1 + Max(songs \cup {0}) \in 1..MaxSongs
        BY <1>3, LastSong DEF ScannerAdds
    <2>2. songs' \subseteq 1..MaxSongs
        BY <1>3, <2>1 DEF ScannerAdds, IInv
    <2> QED BY <1>3, <2>2, EndedKeeps DEF ScannerAdds
<1>4. ASSUME NEW s \in songs, ScannerDestroys(s) PROVE IInv'
    <2>1. songs' \subseteq 1..MaxSongs
        BY <1>4 DEF ScannerDestroys, IInv
    <2> QED BY <1>4, <2>1, EndedKeeps DEF ScannerDestroys
<1>5. CASE StatementFails
    BY <1>5, EndedKeeps DEF StatementFails, tables, IInv
<1>6. CASE Restart
    BY <1>6, EndedKeeps DEF Restart, tables, IInv
<1>7. CASE UNCHANGED vars
    BY <1>7, EndedKeeps DEF vars, tables, history, IInv
<1> QED BY <1>1, <1>2, <1>3, <1>4, <1>5, <1>6, <1>7 DEF Next

LEMMA Invariant == Spec => []IInv
BY InitIInv, NextIInv, PTL DEF Spec

------------------------------------------------------------------------------
(* The theorems.                                                           *)

\* The tables' columns have their types, and every entry is of a list that exists
\* or of the object that was never saved.
THEOREM TypeCorrect == Spec => []TypeOK
<1>1. IInv => TypeOK
    BY DEF IInv, ListsOK, EntriesOK, Entry, TypeOK, Ids
<1> QED BY <1>1, Invariant, PTL

\* What a statement does to the entries: nothing but to those of the list it is for,
\* and never to their song and list.
LEMMA EntriesChange ==
    ASSUME IInv, Exec
    PROVE  /\ \A e \in DOMAIN entries :
                 (e \notin DOMAIN entries' \/ entries'[e] # entries[e])
                   => job # <<>> /\ st.k # "save" /\ entries[e].pl = st.pl
           /\ \A e \in DOMAIN entries' \ DOMAIN entries :
                 job # <<>> /\ st.k # "save" /\ entries'[e].pl = st.pl
           /\ \A e \in DOMAIN entries \cap DOMAIN entries' :
                 entries'[e].pl = entries[e].pl /\ entries'[e].song = entries[e].song
<1> DEFINE Kept == \A e \in DOMAIN entries : e \in DOMAIN entries' /\ entries'[e] = entries[e]
<1>1. EntriesOK /\ Bounded(entries)
    BY DEF IInv, EntriesOK
<1>3. ASSUME NEW some \in SUBSET EntriesOf(st.pl), NEW by \in Int,
             entries' = Moved(some, by), job # <<>>, st.k # "save"
      PROVE  /\ \A e \in DOMAIN entries :
                    (e \notin DOMAIN entries' \/ entries'[e] # entries[e])
                      => entries[e].pl = st.pl
             /\ DOMAIN entries' = DOMAIN entries
             /\ \A e \in DOMAIN entries :
                    entries'[e].pl = entries[e].pl /\ entries'[e].song = entries[e].song
    BY <1>1, <1>3, MovedEntries DEF EntriesOf
<1>4. CASE ExecShift
    <2> DEFINE some == {e \in EntriesOf(st.pl) : entries[e].order >= st.from}
    <2>1. job # <<>> /\ st.by \in Int /\ st.k # "save" /\ entries' = Moved(some, st.by)
        BY <1>4, JobParts DEF ExecShift, Runs, Statements
    <2>2. some \in SUBSET EntriesOf(st.pl)
        OBVIOUS
    <2> HIDE DEF some
    <2> QED BY <1>3, <2>1, <2>2
<1>5. CASE ExecClose
    <2>1. PICK some \in SUBSET EntriesOf(st.pl) : entries' = Moved(some, -1)
        BY <1>5 DEF ExecClose
    <2>2. job # <<>> /\ st.k # "save" /\ -1 \in Int
        BY <1>5 DEF ExecClose, Runs
    <2> QED BY <1>3, <2>1, <2>2
<1>6. ASSUME Kept, job # <<>>, st.k # "save",
             \A e \in DOMAIN entries' \ DOMAIN entries : entries'[e].pl = st.pl
      PROVE  /\ \A e \in DOMAIN entries :
                    e \in DOMAIN entries' /\ entries'[e] = entries[e]
             /\ \A e \in DOMAIN entries' \ DOMAIN entries :
                    job # <<>> /\ st.k # "save" /\ entries'[e].pl = st.pl
    BY <1>6
<1>7. ASSUME NEW v, v.pl = st.pl, entries' = WithRow(entries, NewRow(entries), v),
             job # <<>>, st.k # "save"
      PROVE  /\ Kept
             /\ \A e \in DOMAIN entries' \ DOMAIN entries : entries'[e].pl = st.pl
    <2>1. \A r \in DOMAIN entries : r < NewRow(entries) /\ r \in Nat
        BY <1>1, RowIsNew
    <2>2. NewRow(entries) \in Nat
        BY <1>1, RowIsNew
    <2> QED BY <1>7, <2>1, <2>2 DEF WithRow
<1>12. CASE ExecRow
    <2> DEFINE v == [song |-> st.song, pl |-> st.pl, order |-> st.order]
    <2>1. /\ entries' = WithRow(entries, NewRow(entries), v) /\ v.pl = st.pl
          /\ job # <<>> /\ st.k # "save"
        BY <1>12 DEF ExecRow, Runs
    <2> HIDE DEF v
    <2> QED BY <1>6, <1>7, <2>1
<1>13. CASE ExecCopy
    <2>1. PICK first, v :
            /\ first \in st.left
            /\ v = [song |-> first.song, pl |-> st.pl, order |-> st.order]
            /\ entries' = WithRow(entries, NewRow(entries), v)
        BY <1>13, CopyParts
    <2>2. job # <<>> /\ st.k # "save" /\ v.pl = st.pl
        BY <1>13, <2>1, CopyParts
    <2> QED BY <1>6, <1>7, <2>1, <2>2
<1>8. CASE ExecRows
    <2> DEFINE last == NewRow(entries) - 1
               new == (last + 1)..(last + Cardinality(songs))
    <2>1. PICK found : entries' = [e \in DOMAIN entries \cup new |->
                         IF e \in new
                         THEN [song |-> found[e - last], pl |-> st.pl,
                               order |-> st.order + (e - last - 1)]
                         ELSE entries[e]]
        BY <1>8 DEF ExecRows
    <2>2. \A e \in DOMAIN entries : e \notin new
        BY <1>1, RowIsNew, SizesAreNat
    <2>3. job # <<>> /\ st.k # "save"
        BY <1>8 DEF ExecRows, Runs
    <2> HIDE DEF new
    <2>4. Kept /\ \A e \in DOMAIN entries' \ DOMAIN entries : entries'[e].pl = st.pl
        BY <2>1, <2>2
    <2> QED BY <1>6, <2>3, <2>4
<1>9. CASE ExecErase
    <2>1. /\ job # <<>> /\ st.k # "save"
          /\ \A e \in DOMAIN entries :
                e \notin DOMAIN entries' => entries[e].pl = st.pl
          /\ DOMAIN entries' \subseteq DOMAIN entries
          /\ \A e \in DOMAIN entries' : entries'[e] = entries[e]
        BY <1>9 DEF ExecErase, Runs, Restrict
    <2> QED BY <2>1
<1>10. CASE ExecPlace
    <2>1. /\ job # <<>> /\ st.k # "save"
          /\ entries' = [e \in DOMAIN entries |->
                           IF entries[e].pl = st.pl /\ entries[e].song = st.song
                           THEN [entries[e] EXCEPT !.order = st.order] ELSE entries[e]]
        BY <1>10 DEF ExecPlace, Runs
    <2>2. \A e \in DOMAIN entries : entries[e] \in Entry(Ids)
        BY <1>1 DEF EntriesOK
    <2> QED BY <2>1, <2>2 DEF Entry
<1>11. CASE ExecJoin \/ ExecOwn \/ ExecPick \/ ExecSave \/ Refused
    <2>1. entries' = entries
        BY <1>11 DEF ExecJoin, ExecOwn, ExecPick, ExecSave, Refused, tables
    <2> QED BY <2>1
<1> QED BY <1>4, <1>5, <1>8, <1>9, <1>10, <1>11, <1>12, <1>13 DEF Exec

\* Between statements no entry is changed.
LEMMA EntriesStay ==
    ASSUME IInv, Next, ~Exec PROVE entries' = entries
BY RequestStep DEF Next, ScannerAdds, ScannerDestroys, StatementFails, Restart, tables

\* No request, and nothing between its statements, touches an entry of a list other
\* than the one that pl_id names, /pl/songs/add/pl excepted: the statements that others
\* lead to are about the same list, and the id of a list is the same until the request
\* has ended.
THEOREM OnlyItsPlaylistHolds == Spec => OnlyItsPlaylist
<1> DEFINE A == \A e \in DOMAIN entries \cup DOMAIN entries' :
                  /\ e \in DOMAIN entries
                     /\ (e \notin DOMAIN entries' \/ entries'[e] # entries[e])
                       => job # <<>> /\ (asked.kind = "add/pl" \/ entries[e].pl = asked.pl)
                  /\ e \in DOMAIN entries' \ DOMAIN entries
                       => job # <<>> /\ (asked.kind = "add/pl" \/ entries'[e].pl = asked.pl)
<1>1. IInv /\ [Next]_vars => [A]_vars
    <2> SUFFICES ASSUME IInv, Next PROVE A
        OBVIOUS
    <2>1. CASE Exec
        <3>1. job # <<>> /\ st.k # "save" => asked.kind = "add/pl" \/ st.pl = asked.pl
            BY JobParts, ForTheList
        <3> QED BY <2>1, <3>1, EntriesChange
    <2>2. CASE ~Exec
        BY <2>2, EntriesStay
    <2> QED BY <2>1, <2>2
<1> QED BY <1>1, Invariant, PTL DEF Spec, OnlyItsPlaylist

\* Two entries of a list never pass each other but in a reorder: what a shift moves
\* is everything from a place on, by a natural number, and what a removal moves is
\* everything from a place on, by one.
THEOREM NeverSwapsHolds == Spec => NeverSwaps
<1> DEFINE A == ~Runs("place") =>
                  \A e, f \in DOMAIN entries \cap DOMAIN entries' :
                    entries[e].pl = entries[f].pl /\ entries[e].order < entries[f].order
                      => entries'[e].order <= entries'[f].order
<1>1. IInv /\ [Next]_vars => [A]_vars
    <2> SUFFICES ASSUME IInv, Next, ~Runs("place"),
                        NEW e \in DOMAIN entries \cap DOMAIN entries',
                        NEW f \in DOMAIN entries \cap DOMAIN entries',
                        entries[e].pl = entries[f].pl,
                        entries[e].order < entries[f].order
                 PROVE  entries'[e].order <= entries'[f].order
        OBVIOUS
    <2>1. EntriesOK /\ entries[e].order \in Int /\ entries[f].order \in Int
        BY DEF IInv, EntriesOK, Entry
    <2>2. CASE entries'[e].order = entries[e].order /\ entries'[f].order = entries[f].order
        BY <2>1, <2>2
    <2>3. CASE ExecShift
        <3> DEFINE some == {g \in EntriesOf(st.pl) : entries[g].order >= st.from}
        <3>1. st.by \in Nat /\ st.from \in Int /\ entries' = Moved(some, st.by)
            BY <2>3, JobParts DEF ExecShift, Runs, Statements
        <3>2. e \in some => f \in some
            BY <2>1, <3>1 DEF EntriesOf
        <3> HIDE DEF some
        <3>3. /\ e \in some => entries'[e].order = entries[e].order + st.by
              /\ e \notin some => entries'[e].order = entries[e].order
              /\ f \in some => entries'[f].order = entries[f].order + st.by
              /\ f \notin some => entries'[f].order = entries[f].order
            BY <2>1, <3>1, MovedEntries
        <3> QED BY <2>1, <3>1, <3>2, <3>3
    <2>4. CASE ExecClose
        <3> DEFINE hits == {g \in EntriesOf(st.pl) : entries[g].song = st.song}
                   from == entries[Min(hits)].order
                   some == IF hits = {} THEN {}
                           ELSE {g \in EntriesOf(st.pl) : entries[g].order >= from}
        <3>1. entries' = Moved(some, -1)
            BY <2>4 DEF ExecClose
        <3>2. hits # {} => from \in Int
            <4>1. hits \in SUBSET Nat /\ hits \subseteq DOMAIN entries
                BY <2>1 DEF EntriesOK, Bounded, EntriesOf
            <4>2. hits # {} => Min(hits) \in DOMAIN entries
                BY <4>1, MinOfNaturals
            <4> QED BY <2>1, <4>2 DEF EntriesOK, Entry
        <3>3. e \in some => f \in some
            BY <2>1, <3>2 DEF EntriesOf
        <3> HIDE DEF some
        <3>4. /\ e \in some => entries'[e].order = entries[e].order - 1
              /\ e \notin some => entries'[e].order = entries[e].order
              /\ f \in some => entries'[f].order = entries[f].order - 1
              /\ f \notin some => entries'[f].order = entries[f].order
            BY <2>1, <3>1, MovedEntries
        <3> QED BY <2>1, <3>3, <3>4
    <2>5. CASE ExecErase
        BY <2>2, <2>5 DEF ExecErase, Restrict
    <2>6. CASE ExecRow \/ ExecCopy
        <3>1. PICK v : entries' = WithRow(entries, NewRow(entries), v)
            BY <2>6 DEF ExecRow, ExecCopy
        <3>2. \A r \in DOMAIN entries : r \in Nat /\ r < NewRow(entries)
            BY <2>1, RowIsNew DEF EntriesOK
        <3>3. NewRow(entries) \in Nat
            BY <2>1, RowIsNew DEF EntriesOK
        <3>4. entries'[e] = entries[e] /\ entries'[f] = entries[f]
            BY <3>1, <3>2, <3>3 DEF WithRow
        <3> QED BY <2>2, <3>4
    <2>7. CASE ExecRows
        <3>1. e < NewRow(entries) /\ f < NewRow(entries) /\ NewRow(entries) \in Nat
              /\ e \in Nat /\ f \in Nat
            BY <2>1, RowIsNew DEF EntriesOK
        <3>2. entries'[e] = entries[e] /\ entries'[f] = entries[f]
            BY <2>7, <3>1 DEF ExecRows
        <3> QED BY <2>2, <3>2
    <2>8. CASE ExecJoin \/ ExecOwn \/ ExecPick \/ ExecSave \/ Refused
        BY <2>2, <2>8 DEF ExecJoin, ExecOwn, ExecPick, ExecSave, Refused, tables
    <2>9. CASE ~Exec
        BY <2>2, <2>9, EntriesStay
    <2> QED BY <2>3, <2>4, <2>5, <2>6, <2>7, <2>8, <2>9 DEF Exec, ExecPlace
<1> QED BY <1>1, Invariant, PTL DEF Spec, NeverSwaps

------------------------------------------------------------------------------
(* Places.  While a request that is remembered by placed runs, two entries *)
(* of a list may have one place only if they are of one song, or if a      *)
(* statement still to run gives one of them another place or deletes it.   *)

\* No entry of the list has one of the places.
Free(pl, from, by) ==
    \A e \in DOMAIN entries :
        entries[e].pl = pl => entries[e].order < from \/ entries[e].order >= from + by

\* Before statement i inserts n entries their places are made free.
Opened(i, n) ==
    IF i = 1 THEN Free(job[i].pl, job[i].order, n)
    ELSE job[i - 1] = Shift(job[i].pl, job[i].order, n)

\* A statement to come gives the entry its place, or the next one deletes it.
Unplaced(e) ==
    \E i \in DOMAIN job :
        /\ job[i].k = "place" \/ (job[i].k = "erase" /\ i = 1)
        /\ job[i].pl = entries[e].pl /\ job[i].song = entries[e].song

Apart ==
    \A e, f \in DOMAIN entries :
        entries[e].pl = entries[f].pl /\ entries[e].order = entries[f].order
          => entries[e].song = entries[f].song \/ Unplaced(e) \/ Unplaced(f)

EntriesHaveSongs == \A e \in DOMAIN entries : entries[e].song \in songs

RowsHaveSongs == \A i \in DOMAIN job : job[i].k = "row" => job[i].song \in songs

Opens ==
    /\ \A i \in DOMAIN job : job[i].k = "row" => Opened(i, 1)
    /\ \A i \in DOMAIN job : job[i].k = "rows" => Opened(i, Cardinality(songs))

Closes ==
    \A i \in DOMAIN job : job[i].k = "close" =>
        i + 1 \in DOMAIN job /\ job[i + 1] = Erase(job[i].pl, job[i].song)

\* Places are given to all songs of one list, each another, and nothing else is done.
OnlyPlaces ==
    \A i, j \in DOMAIN job : job[i].k = "place" =>
        \/ job[j].k = "save"
        \/ job[j].k = "place" /\ job[j].pl = job[i].pl

PlacesDiffer ==
    \A i, j \in DOMAIN job :
        job[i].k = "place" /\ job[j].k = "place" /\ i # j => job[j].order # job[i].order

PlacesAreFree ==
    \A i \in DOMAIN job : job[i].k = "place" =>
        \A e \in DOMAIN entries :
            entries[e].pl = job[i].pl /\ entries[e].order = job[i].order => Unplaced(e)

NoJoin == \A i \in DOMAIN job : job[i].k \notin {"join", "own", "copy"}

JobInv == RowsHaveSongs /\ Closes /\ OnlyPlaces /\ PlacesDiffer /\ NoJoin

PlacedInv ==
    placed => Apart /\ EntriesHaveSongs /\ Opens /\ PlacesAreFree /\ JobInv

\* The statements a request still has to run are the same, but for the first.
LEMMA TailParts ==
    ASSUME IInv, job # <<>>, Executed(<<>>)
    PROVE  /\ Len(job) \in Nat \ {0} /\ DOMAIN job = 1..Len(job) /\ st = job[1]
           /\ DOMAIN job' = 1..(Len(job) - 1)
           /\ \A i \in DOMAIN job' : i + 1 \in DOMAIN job /\ job'[i] = job[i + 1]
<1> DEFINE S == For(Ids, asked)
<1>1. job \in Seq(S) /\ Tail(job) \in Seq(S)
    BY JobParts DEF IInv
<1> HIDE DEF S
<1>2. job' = Tail(job)
    BY <1>1 DEF Executed
<1> QED BY <1>1, <1>2 DEF st

\* What is known of them stays known.
LEMMA JobInvStays ==
    ASSUME IInv, job # <<>>, Executed(<<>>), JobInv
    PROVE  JobInv'
<1>1. /\ Len(job) \in Nat \ {0} /\ DOMAIN job = 1..Len(job)
      /\ DOMAIN job' = 1..(Len(job) - 1)
      /\ \A i \in DOMAIN job' : i + 1 \in DOMAIN job /\ job'[i] = job[i + 1]
    BY TailParts
<1>2. songs' = songs
    BY DEF Executed
<1>3. RowsHaveSongs' /\ NoJoin'
    BY <1>1, <1>2 DEF JobInv, RowsHaveSongs, NoJoin
<1>4. Closes'
    <2> SUFFICES ASSUME NEW i \in DOMAIN job', job'[i].k = "close"
                 PROVE  i + 1 \in DOMAIN job' /\ job'[i + 1] = Erase(job'[i].pl, job'[i].song)
        BY DEF Closes, Erase
    <2>1. /\ i \in Int /\ i + 1 \in DOMAIN job /\ job'[i] = job[i + 1]
          /\ (i + 1) + 1 \in DOMAIN job
          /\ job[(i + 1) + 1] = Erase(job[i + 1].pl, job[i + 1].song)
        BY <1>1 DEF JobInv, Closes
    <2>2. i + 1 \in DOMAIN job'
        BY <1>1, <2>1
    <2> QED BY <1>1, <2>1, <2>2
<1>5. OnlyPlaces'
    BY <1>1 DEF JobInv, OnlyPlaces
<1>6. PlacesDiffer'
    <2> SUFFICES ASSUME NEW i \in DOMAIN job', NEW j \in DOMAIN job',
                        job'[i].k = "place", job'[j].k = "place", i # j
                 PROVE  job'[j].order # job'[i].order
        BY DEF PlacesDiffer
    <2>1. i + 1 # j + 1
        BY <1>1
    <2> QED BY <1>1, <2>1 DEF JobInv, PlacesDiffer
<1> QED BY <1>3, <1>4, <1>5, <1>6 DEF JobInv

\* An insert that comes to be the next one follows the shift for it.
LEMMA OpensStays ==
    ASSUME IInv, job # <<>>, Executed(<<>>), Opens,
           \A pl, from, by : st = Shift(pl, from, by) => Free(pl, from, by)'
    PROVE  Opens'
<1>1. /\ Len(job) \in Nat \ {0} /\ DOMAIN job = 1..Len(job) /\ st = job[1]
      /\ DOMAIN job' = 1..(Len(job) - 1)
      /\ \A i \in DOMAIN job' : i + 1 \in DOMAIN job /\ job'[i] = job[i + 1]
    BY TailParts
<1>2. songs' = songs
    BY DEF Executed
<1>3. ASSUME NEW i \in DOMAIN job', NEW n, Opened(i + 1, n)
      PROVE  Opened(i, n)'
    <2>1. i \in Nat \ {0} /\ i + 1 \in DOMAIN job /\ job'[i] = job[i + 1] /\ (i + 1) - 1 = i
        BY <1>1
    <2>2. job[i] = Shift(job'[i].pl, job'[i].order, n)
        BY <1>3, <2>1 DEF Opened
    <2>3. CASE i = 1
        <3>1. PICK pl, from : pl = job'[i].pl /\ from = job'[i].order
            OBVIOUS
        <3>2. Free(pl, from, n)'
            BY <1>1, <2>2, <2>3, <3>1
        <3> QED BY <2>3, <3>1, <3>2 DEF Opened, Free
    <2>4. CASE i # 1
        <3>1. i - 1 \in DOMAIN job' /\ job'[i - 1] = job[(i - 1) + 1] /\ (i - 1) + 1 = i
            BY <1>1, <2>1, <2>4
        <3> QED BY <2>2, <2>4, <3>1 DEF Opened, Shift
    <2> QED BY <2>3, <2>4
<1>4. \A i \in DOMAIN job' : job'[i].k = "row" => Opened(i, 1)'
    BY <1>1, <1>3 DEF Opens
<1>5. \A i \in DOMAIN job' : job'[i].k = "rows" => Opened(i, Cardinality(songs))'
    <2> SUFFICES ASSUME NEW i \in DOMAIN job', job'[i].k = "rows"
                 PROVE  Opened(i, Cardinality(songs))'
        OBVIOUS
    <2>1. Opened(i + 1, Cardinality(songs))
        BY <1>1 DEF Opens
    <2> DEFINE n == Cardinality(songs)
    <2>2. n' = n
        BY <1>2
    <2>3. PICK m : m = n
        OBVIOUS
    <2>4. Opened(i, m)'
        BY <1>3, <2>1, <2>3
    <2> QED BY <2>2, <2>3, <2>4 DEF Opened
<1> QED BY <1>4, <1>5 DEF Opens

\* An entry that a later statement places is still unplaced after this one.
LEMMA UnplacedStays ==
    ASSUME IInv, job # <<>>, Executed(<<>>), st.k # "erase",
           NEW e \in DOMAIN entries, Unplaced(e),
           ~(st.k = "place" /\ st.pl = entries[e].pl /\ st.song = entries[e].song),
           entries'[e].pl = entries[e].pl, entries'[e].song = entries[e].song
    PROVE  Unplaced(e)'
<1>1. /\ Len(job) \in Nat \ {0} /\ DOMAIN job = 1..Len(job) /\ st = job[1]
      /\ DOMAIN job' = 1..(Len(job) - 1)
      /\ \A i \in DOMAIN job' : i + 1 \in DOMAIN job /\ job'[i] = job[i + 1]
    BY TailParts
<1>2. PICK i \in DOMAIN job :
        /\ job[i].k = "place" \/ (job[i].k = "erase" /\ i = 1)
        /\ job[i].pl = entries[e].pl /\ job[i].song = entries[e].song
    BY DEF Unplaced
<1>3. i # 1 /\ job[i].k = "place"
    BY <1>1, <1>2
<1>4. i - 1 \in DOMAIN job' /\ (i - 1) + 1 = i
    BY <1>1, <1>3
<1>5. job'[i - 1] = job[i]
    BY <1>1, <1>4
<1> QED BY <1>2, <1>3, <1>4, <1>5 DEF Unplaced

\* Where the next statement gives no place, none does.
LEMMA NothingPlaced ==
    ASSUME IInv, job # <<>>, OnlyPlaces, st.k \notin {"place", "save"}
    PROVE  /\ \A i \in DOMAIN job : job[i].k # "place"
           /\ st.k # "erase" => \A e : ~Unplaced(e)
           /\ Executed(<<>>) => PlacesAreFree'
<1>1. 1 \in DOMAIN job /\ st = job[1]
    BY JobParts DEF IInv, st
<1>2. \A i \in DOMAIN job : job[i].k # "place"
    BY <1>1 DEF OnlyPlaces
<1>3. ASSUME Executed(<<>>) PROVE PlacesAreFree'
    <2>1. \A i \in DOMAIN job' : i + 1 \in DOMAIN job /\ job'[i] = job[i + 1]
        BY <1>3, TailParts
    <2> QED BY <1>2, <2>1 DEF PlacesAreFree
<1> QED BY <1>1, <1>2, <1>3 DEF Unplaced

\* A statement that is not a shift opens nothing.
LEMMA DoneKeepsPlaces ==
    ASSUME IInv, placed, PlacedInv, job # <<>>, Executed(<<>>),
           \A pl, from, by : st = Shift(pl, from, by) => Free(pl, from, by)',
           Apart', EntriesHaveSongs', PlacesAreFree'
    PROVE  PlacedInv'
BY OpensStays, JobInvStays DEF PlacedInv

\* After the shift no entry of the list has one of the places it frees.
LEMMA ShiftPlaces ==
    ASSUME IInv, placed, PlacedInv, ExecShift PROVE PlacedInv'
<1> DEFINE some == {e \in EntriesOf(st.pl) : entries[e].order >= st.from}
<1>1. job # <<>> /\ st.k = "shift" /\ Executed(<<>>) /\ entries' = Moved(some, st.by)
    BY DEF ExecShift, Runs
<1>2. st.by \in Nat /\ st.from \in Int
    BY <1>1, JobParts DEF Statements
<1>3. EntriesOK /\ \A e \in DOMAIN entries : entries[e].order \in Int
    BY DEF IInv, EntriesOK, Entry
<1>4. \A e : e \in some <=> e \in DOMAIN entries /\ entries[e].pl = st.pl
                             /\ entries[e].order >= st.from
    BY DEF EntriesOf
<1> HIDE DEF some
<1>5. /\ DOMAIN entries' = DOMAIN entries
      /\ \A e \in DOMAIN entries :
            /\ entries'[e].pl = entries[e].pl
            /\ entries'[e].song = entries[e].song
            /\ e \in some => entries'[e].order = entries[e].order + st.by
            /\ e \notin some => entries'[e].order = entries[e].order
    BY <1>1, <1>2, <1>3, MovedEntries
<1>6. PlacesAreFree' /\ \A e : ~Unplaced(e)
    BY <1>1, NothingPlaced DEF PlacedInv, JobInv
<1>7. Apart'
    BY <1>2, <1>3, <1>4, <1>5, <1>6 DEF PlacedInv, Apart
<1>8. EntriesHaveSongs'
    BY <1>1, <1>5 DEF PlacedInv, EntriesHaveSongs, Executed
<1>9. ASSUME NEW pl, NEW from, NEW by, st = Shift(pl, from, by)
      PROVE  Free(pl, from, by)'
    <2>1. pl = st.pl /\ from = st.from /\ by = st.by
        BY <1>9 DEF Shift
    <2> QED BY <1>2, <1>3, <1>4, <1>5, <2>1 DEF Free
<1> QED BY <1>1, <1>6, <1>7, <1>8, <1>9, DoneKeepsPlaces

\* What is inserted at one place has it alone.
LEMMA RowPlaces ==
    ASSUME IInv, placed, PlacedInv, ExecRow PROVE PlacedInv'
<1> DEFINE v == [song |-> st.song, pl |-> st.pl, order |-> st.order]
           r == NewRow(entries)
<1>1. job # <<>> /\ st.k = "row" /\ Executed(<<>>) /\ entries' = WithRow(entries, r, v)
    BY DEF ExecRow, Runs
<1>2. 1 \in DOMAIN job /\ st = job[1]
    BY <1>1, TailParts
<1>3. st.song \in songs /\ Free(st.pl, st.order, 1)
    BY <1>1, <1>2 DEF PlacedInv, JobInv, RowsHaveSongs, Opens, Opened
<1>4. st.order \in Int
    BY <1>1, JobParts DEF Statements
<1>5. EntriesOK /\ \A e \in DOMAIN entries : entries[e].order \in Int
    BY DEF IInv, EntriesOK, Entry
<1>6. /\ DOMAIN entries' = DOMAIN entries \cup {r}
      /\ entries'[r] = v
      /\ \A e \in DOMAIN entries : entries'[e] = entries[e]
    <2>1. Bounded(entries)
        BY <1>5 DEF EntriesOK
    <2> HIDE DEF v
    <2>2. /\ Bounded(WithRow(entries, r, v))
          /\ DOMAIN WithRow(entries, r, v) = DOMAIN entries \cup {r}
          /\ WithRow(entries, r, v)[r] = v
          /\ \A e \in DOMAIN entries : WithRow(entries, r, v)[e] = entries[e]
        BY <2>1, StaysBounded, SMTT(30)
    <2> QED BY <1>1, <2>2
<1>7. PlacesAreFree' /\ \A e : ~Unplaced(e)
    BY <1>1, NothingPlaced DEF PlacedInv, JobInv
<1> HIDE DEF r
<1>8. Apart'
    <2>1. \A e \in DOMAIN entries : entries[e].pl = st.pl => entries[e].order # st.order
        BY <1>3, <1>4, <1>5 DEF Free
    <2> QED BY <1>6, <1>7, <2>1 DEF PlacedInv, Apart
<1>9. EntriesHaveSongs'
    BY <1>1, <1>3, <1>6 DEF PlacedInv, EntriesHaveSongs, Executed
<1>10. \A pl, from, by : st # Shift(pl, from, by)
    BY <1>1 DEF Shift
<1> QED BY <1>1, <1>7, <1>8, <1>9, <1>10, DoneKeepsPlaces

\* What is inserted at many places has each of them alone.
LEMMA RowsPlaces ==
    ASSUME IInv, placed, PlacedInv, ExecRows PROVE PlacedInv'
<1> DEFINE last == NewRow(entries) - 1
           n == Cardinality(songs)
           new == (last + 1)..(last + n)
<1>1. PICK found \in SetToSeqs(songs) :
        entries' = [e \in DOMAIN entries \cup new |->
                       IF e \in new
                       THEN [song |-> found[e - last], pl |-> st.pl,
                             order |-> st.order + (e - last - 1)]
                       ELSE entries[e]]
    BY DEF ExecRows
<1>2. job # <<>> /\ st.k = "rows" /\ Executed(<<>>) /\ st.order \in Int
    BY JobParts DEF ExecRows, Runs, Statements
<1>3. EntriesOK /\ n \in Nat /\ \A e \in DOMAIN entries : entries[e].order \in Int
    BY SizesAreNat DEF IInv, EntriesOK, Entry
<1>4. /\ last \in Nat /\ found \in [1..n -> songs]
      /\ \A e \in DOMAIN entries : e \in Nat /\ 0 < e /\ e <= last
    BY <1>3, RowIsNew DEF SetToSeqs, EntriesOK
<1>5. 1 \in DOMAIN job /\ st = job[1]
    BY <1>2, TailParts
<1>6. Free(st.pl, st.order, n)
    BY <1>2, <1>5 DEF PlacedInv, Opens, Opened
<1>7. PlacesAreFree' /\ \A e : ~Unplaced(e)
    BY <1>2, NothingPlaced DEF PlacedInv, JobInv
<1>8. songs' = songs
    BY <1>2 DEF Executed
<1> HIDE DEF last, n
<1>9. /\ DOMAIN entries' = DOMAIN entries \cup new
      /\ \A e \in DOMAIN entries : e \notin new /\ entries'[e] = entries[e]
      /\ \A e \in new : /\ entries'[e].song \in songs
                        /\ entries'[e].pl = st.pl
                        /\ entries'[e].order = st.order + (e - last - 1)
                        /\ e - last - 1 \in 0..(n - 1)
    <2>1. \A e \in DOMAIN entries : e \notin new
        BY <1>3, <1>4
    <2>2. \A e \in new : e - last \in 1..n /\ e - last - 1 \in 0..(n - 1)
        BY <1>3, <1>4
    <2>3. \A e \in new : found[e - last] \in songs
        BY <1>4, <2>2
    <2> HIDE DEF new
    <2> QED BY <1>1, <2>1, <2>2, <2>3
<1>10. Apart'
    <2> SUFFICES ASSUME NEW e \in DOMAIN entries', NEW f \in DOMAIN entries',
                        entries'[e].pl = entries'[f].pl,
                        entries'[e].order = entries'[f].order
                 PROVE  entries'[e].song = entries'[f].song
        BY DEF Apart
    <2>1. CASE e \in new /\ f \in new
        <3>1. e \in Int /\ f \in Int /\ last \in Int
              /\ st.order + (e - last - 1) = st.order + (f - last - 1)
            BY <1>3, <1>4, <1>9, <2>1, SMTT(30)
        <3>2. e = f
            BY <1>2, <3>1
        <3> QED BY <3>2
    <2>2. CASE e \notin new /\ f \notin new
        BY <1>7, <1>9, <2>2 DEF PlacedInv, Apart
    <2>3. ASSUME NEW g \in DOMAIN entries, NEW h \in new, entries[g].pl = st.pl
          PROVE  entries'[g].order # entries'[h].order
        <3>1. entries[g].order < st.order \/ entries[g].order >= st.order + n
            BY <1>6, <2>3 DEF Free
        <3> HIDE DEF new
        <3>2. PICK d \in 0..(n - 1) : entries'[h].order = st.order + d
            BY <1>9
        <3> QED BY <1>2, <1>3, <1>9, <3>1, <3>2, SMTT(30)
    <2> HIDE DEF new
    <2> QED BY <1>9, <2>1, <2>2, <2>3
<1>11. EntriesHaveSongs'
    BY <1>8, <1>9 DEF PlacedInv, EntriesHaveSongs
<1>12. \A pl, from, by : st # Shift(pl, from, by)
    BY <1>2 DEF Shift
<1> QED BY <1>2, <1>7, <1>10, <1>11, <1>12, DoneKeepsPlaces

\* What a removal moves to the place before it is the removed song itself, which
\* is deleted next.
LEMMA ClosePlaces ==
    ASSUME IInv, placed, PlacedInv, ExecClose PROVE PlacedInv'
<1> DEFINE hits == {e \in EntriesOf(st.pl) : entries[e].song = st.song}
           from == entries[Min(hits)].order
           some == IF hits = {} THEN {}
                   ELSE {e \in EntriesOf(st.pl) : entries[e].order >= from}
<1>1. job # <<>> /\ st.k = "close" /\ Executed(<<>>) /\ entries' = Moved(some, -1)
    BY DEF ExecClose, Runs
<1>2. EntriesOK /\ \A e \in DOMAIN entries : entries[e].order \in Int
    BY DEF IInv, EntriesOK, Entry
<1>3. hits # {} => /\ Min(hits) \in DOMAIN entries
                   /\ entries[Min(hits)].pl = st.pl /\ entries[Min(hits)].song = st.song
    <2>1. hits \in SUBSET Nat
        BY <1>2 DEF EntriesOK, Bounded, EntriesOf
    <2>2. hits # {} => Min(hits) \in hits
        BY <2>1, MinOfNaturals
    <2> QED BY <2>2 DEF EntriesOf
<1>4. \A e : e \in some <=> /\ hits # {}
                             /\ e \in DOMAIN entries /\ entries[e].pl = st.pl
                             /\ entries[e].order >= from
    BY DEF EntriesOf
<1>5. hits # {} => from \in Int
    BY <1>2, <1>3
<1> HIDE DEF some
<1>6. /\ DOMAIN entries' = DOMAIN entries
      /\ \A e \in DOMAIN entries :
            /\ entries'[e].pl = entries[e].pl
            /\ entries'[e].song = entries[e].song
            /\ e \in some => entries'[e].order = entries[e].order - 1
            /\ e \notin some => entries'[e].order = entries[e].order
    BY <1>1, <1>2, MovedEntries
<1>7. PlacesAreFree' /\ \A e : ~Unplaced(e)
    BY <1>1, NothingPlaced DEF PlacedInv, JobInv
<1>8. 1 \in DOMAIN job' /\ job'[1] = Erase(st.pl, st.song)
    <2>1. /\ Len(job) \in Nat \ {0} /\ DOMAIN job = 1..Len(job) /\ st = job[1]
          /\ DOMAIN job' = 1..(Len(job) - 1)
          /\ \A i \in DOMAIN job' : i + 1 \in DOMAIN job /\ job'[i] = job[i + 1]
        BY <1>1, TailParts
    <2>2. 1 \in DOMAIN job
        BY <2>1
    <2>3. 1 + 1 \in DOMAIN job /\ job[1 + 1] = Erase(st.pl, st.song)
        BY <1>1, <2>1, <2>2 DEF PlacedInv, JobInv, Closes
    <2>4. 1 \in DOMAIN job'
        BY <2>1, <2>3
    <2> QED BY <2>1, <2>3, <2>4
<1>9. ASSUME NEW e \in DOMAIN entries, NEW f \in DOMAIN entries, e \in some, f \notin some,
             entries[e].pl = entries[f].pl, entries'[e].order = entries'[f].order
      PROVE  Unplaced(e)'
    <2>1. hits # {} /\ entries[e].pl = st.pl /\ entries[f].pl = st.pl
          /\ entries[e].order >= from /\ ~(entries[f].order >= from)
          /\ entries[e].order - 1 = entries[f].order
        BY <1>4, <1>6, <1>9
    <2>2. entries[e].order = from
        BY <1>2, <1>5, <2>1
    <2>3. entries[e].song = st.song
        <3>1. PICK m \in DOMAIN entries :
                /\ entries[m].pl = st.pl /\ entries[m].song = st.song
                /\ entries[m].order = from
            BY <1>3, <2>1
        <3> QED BY <1>7, <2>1, <2>2, <3>1 DEF PlacedInv, Apart
    <2> QED BY <1>6, <1>8, <2>1, <2>3 DEF Unplaced, Erase
<1>10. Apart'
    <2> SUFFICES ASSUME NEW e \in DOMAIN entries, NEW f \in DOMAIN entries,
                        entries[e].pl = entries[f].pl,
                        entries'[e].order = entries'[f].order
                 PROVE  entries[e].song = entries[f].song \/ Unplaced(e)' \/ Unplaced(f)'
        BY <1>6 DEF Apart
    <2>1. CASE e \in some <=> f \in some
        <3>1. entries[e].order = entries[f].order
            BY <1>2, <1>6, <2>1
        <3> QED BY <1>7, <3>1 DEF PlacedInv, Apart
    <2> QED BY <1>9, <2>1
<1>11. EntriesHaveSongs'
    BY <1>1, <1>6 DEF PlacedInv, EntriesHaveSongs, Executed
<1>12. \A pl, from_, by : st # Shift(pl, from_, by)
    BY <1>1 DEF Shift
<1> QED BY <1>1, <1>7, <1>10, <1>11, <1>12, DoneKeepsPlaces

\* The entries that are left had places of their own before.
LEMMA ErasePlaces ==
    ASSUME IInv, placed, PlacedInv, ExecErase PROVE PlacedInv'
<1>1. /\ job # <<>> /\ st.k = "erase" /\ Executed(<<>>)
      /\ \A e : e \in DOMAIN entries' <=>
                  e \in DOMAIN entries /\ (entries[e].pl # st.pl \/ entries[e].song # st.song)
      /\ \A e \in DOMAIN entries' : entries'[e] = entries[e]
    BY DEF ExecErase, Runs, Restrict
<1>2. PlacesAreFree' /\ \A i \in DOMAIN job : job[i].k # "place"
    BY <1>1, NothingPlaced DEF PlacedInv, JobInv
<1>3. st = job[1]
    BY <1>1, TailParts
<1>4. \A e \in DOMAIN entries' : ~Unplaced(e)
    BY <1>1, <1>2, <1>3 DEF Unplaced
<1>5. Apart'
    BY <1>1, <1>4 DEF PlacedInv, Apart
<1>6. EntriesHaveSongs'
    BY <1>1 DEF PlacedInv, EntriesHaveSongs, Executed
<1>7. \A pl, from, by : st # Shift(pl, from, by)
    BY <1>1 DEF Shift
<1> QED BY <1>1, <1>2, <1>5, <1>6, <1>7, DoneKeepsPlaces

\* Which entry has the place a song is given, will itself be given another.
LEMMA PlacePlaces ==
    ASSUME IInv, placed, PlacedInv, ExecPlace PROVE PlacedInv'
<1> DEFINE Hit(e) == entries[e].pl = st.pl /\ entries[e].song = st.song
<1>1. job # <<>> /\ st.k = "place" /\ Executed(<<>>)
    BY DEF ExecPlace, Runs
<1>2. /\ DOMAIN entries' = DOMAIN entries
      /\ \A e \in DOMAIN entries :
            /\ entries'[e].pl = entries[e].pl
            /\ entries'[e].song = entries[e].song
            /\ Hit(e) => entries'[e].order = st.order
            /\ ~Hit(e) => entries'[e].order = entries[e].order
    <2>1. \A e \in DOMAIN entries : entries[e] \in Entry(Ids)
        BY DEF IInv, EntriesOK
    <2>2. entries' = [e \in DOMAIN entries |->
                        IF Hit(e) THEN [entries[e] EXCEPT !.order = st.order] ELSE entries[e]]
        BY DEF ExecPlace
    <2> HIDE DEF Hit
    <2> QED BY <2>1, <2>2 DEF Entry
<1>3. /\ Len(job) \in Nat \ {0} /\ DOMAIN job = 1..Len(job) /\ st = job[1]
      /\ DOMAIN job' = 1..(Len(job) - 1)
      /\ \A i \in DOMAIN job' : i + 1 \in DOMAIN job /\ job'[i] = job[i + 1]
    BY <1>1, TailParts
<1>4. 1 \in DOMAIN job
    BY <1>3
<1>5. \A e \in DOMAIN entries : Unplaced(e) /\ ~Hit(e) => Unplaced(e)'
    BY <1>1, <1>2, UnplacedStays
<1>6. \A e \in DOMAIN entries :
         entries[e].pl = st.pl /\ entries[e].order = st.order /\ ~Hit(e) => Unplaced(e)'
    BY <1>1, <1>3, <1>4, <1>5 DEF PlacedInv, PlacesAreFree
<1>7. Apart'
    <2> SUFFICES ASSUME NEW e \in DOMAIN entries, NEW f \in DOMAIN entries,
                        entries[e].pl = entries[f].pl,
                        entries'[e].order = entries'[f].order
                 PROVE  entries[e].song = entries[f].song \/ Unplaced(e)' \/ Unplaced(f)'
        BY <1>2 DEF Apart
    <2>1. CASE Hit(e) /\ Hit(f)
        BY <2>1
    <2>2. CASE Hit(e) /\ ~Hit(f)
        BY <1>2, <1>6, <2>2
    <2>3. CASE ~Hit(e) /\ Hit(f)
        BY <1>2, <1>6, <2>3
    <2>4. CASE ~Hit(e) /\ ~Hit(f)
        <3>1. entries[e].song = entries[f].song \/ Unplaced(e) \/ Unplaced(f)
            BY <1>2, <2>4 DEF PlacedInv, Apart
        <3> HIDE DEF Hit
        <3> QED BY <1>5, <2>4, <3>1
    <2> QED BY <2>1, <2>2, <2>3, <2>4
<1>8. PlacesAreFree'
    <2> SUFFICES ASSUME NEW i \in DOMAIN job', job'[i].k = "place",
                        NEW e \in DOMAIN entries,
                        entries[e].pl = job'[i].pl, entries'[e].order = job'[i].order
                 PROVE  Unplaced(e)'
        BY <1>2 DEF PlacesAreFree
    <2>1. i + 1 \in DOMAIN job /\ job'[i] = job[i + 1] /\ i + 1 # 1
        BY <1>3
    <2>2. job[i + 1].order # st.order
        BY <1>1, <1>3, <1>4, <2>1 DEF PlacedInv, JobInv, PlacesDiffer
    <2>3. ~Hit(e) /\ entries[e].order = job[i + 1].order
        BY <1>2, <2>1, <2>2
    <2>4. Unplaced(e)
        BY <2>1, <2>3 DEF PlacedInv, PlacesAreFree
    <2> HIDE DEF Hit
    <2> QED BY <1>5, <2>3, <2>4
<1>9. EntriesHaveSongs'
    BY <1>1, <1>2 DEF PlacedInv, EntriesHaveSongs, Executed
<1>10. \A pl, from, by : st # Shift(pl, from, by)
    BY <1>1 DEF Shift
<1> QED BY <1>1, <1>7, <1>8, <1>9, <1>10, DoneKeepsPlaces

\* The object's own row has nothing to do with places.
LEMMA SavePlaces ==
    ASSUME IInv, placed, PlacedInv, ExecSave PROVE PlacedInv'
<1>1. job # <<>> /\ st.k = "save" /\ Executed(<<>>) /\ entries' = entries
    BY DEF ExecSave, Runs
<1>2. \A e \in DOMAIN entries : Unplaced(e) => Unplaced(e)'
    BY <1>1, UnplacedStays
<1>3. Apart'
    BY <1>1, <1>2 DEF PlacedInv, Apart
<1>4. PlacesAreFree'
    <2>1. \A i \in DOMAIN job' : i + 1 \in DOMAIN job /\ job'[i] = job[i + 1]
        BY <1>1, TailParts
    <2> QED BY <1>1, <1>2, <2>1 DEF PlacedInv, PlacesAreFree
<1>5. EntriesHaveSongs'
    BY <1>1 DEF PlacedInv, EntriesHaveSongs, Executed
<1>6. \A pl, from, by : st # Shift(pl, from, by)
    BY <1>1 DEF Shift
<1> QED BY <1>1, <1>3, <1>4, <1>5, <1>6, DoneKeepsPlaces

\* A song that was loaded is inserted before the statements that were left.
LEMMA PickParts ==
    ASSUME IInv, ExecPick
    PROVE  LET s == entries[st.entry].song
           IN  /\ Len(job) \in Nat \ {0} /\ DOMAIN job = 1..Len(job) /\ st = job[1]
               /\ DOMAIN job' = 1..(Len(job) + 1)
               /\ job'[1] = Shift(st.pl, st.order, 1) /\ job'[2] = Row(st.pl, s, st.order)
               /\ \A i \in DOMAIN job' \ {1, 2} : i - 1 \in DOMAIN job \ {1} /\ job'[i] = job[i - 1]
<1> DEFINE S == For(Ids, asked)
           s == entries[st.entry].song
<1>1. job # <<>> /\ job \in Seq(S) /\ Tail(job) \in Seq(S)
    BY JobParts DEF IInv, ExecPick, Runs
<1> HIDE DEF S
<1>2. PICK rest \in Seq(S) : rest = Tail(job)
    BY <1>1
<1>3. PICK a, b : a = Shift(st.pl, st.order, 1) /\ b = Row(st.pl, s, st.order)
    OBVIOUS
<1>4. job' = <<a, b>> \o rest
    BY <1>2, <1>3 DEF ExecPick, Executed, InsertSong
<1>5. Len(job) \in Nat \ {0} /\ DOMAIN job = 1..Len(job) /\ st = job[1]
    BY <1>1 DEF st
<1>6. Len(rest) = Len(job) - 1 /\ \A i \in 1..Len(rest) : rest[i] = job[i + 1]
    BY <1>1, <1>2
<1>7. /\ DOMAIN job' = 1..(2 + Len(rest))
      /\ job'[1] = a /\ job'[2] = b
      /\ \A i \in DOMAIN job' \ {1, 2} : i - 2 \in 1..Len(rest) /\ job'[i] = rest[i - 2]
    BY <1>2, <1>4
<1>8. ASSUME NEW i \in DOMAIN job' \ {1, 2}
      PROVE  i - 1 \in DOMAIN job \ {1} /\ job'[i] = job[i - 1]
    <2>1. i - 2 \in 1..Len(rest) /\ job'[i] = rest[i - 2] /\ (i - 2) + 1 = i - 1
        BY <1>5, <1>6, <1>7
    <2> QED BY <1>5, <1>6, <2>1
<1> QED BY <1>3, <1>5, <1>6, <1>7, <1>8

\* The picked song is inserted behind a shift of its own.
LEMMA PickPlaces ==
    ASSUME IInv, placed, PlacedInv, ExecPick PROVE PlacedInv'
<1> DEFINE s == entries[st.entry].song
<1>1. job # <<>> /\ st.k = "pick" /\ songs' = songs /\ entries' = entries /\ s \in songs
    BY DEF ExecPick, Runs, Executed, Loadable
<1>2. /\ Len(job) \in Nat \ {0} /\ DOMAIN job = 1..Len(job) /\ st = job[1]
      /\ DOMAIN job' = 1..(Len(job) + 1)
      /\ job'[1] = Shift(st.pl, st.order, 1) /\ job'[2] = Row(st.pl, s, st.order)
      /\ \A i \in DOMAIN job' \ {1, 2} : i - 1 \in DOMAIN job \ {1} /\ job'[i] = job[i - 1]
    BY PickParts
<1> HIDE DEF s
<1>3. (\A i \in DOMAIN job : job[i].k # "place") /\ \A e : ~Unplaced(e)
    BY <1>1, NothingPlaced DEF PlacedInv, JobInv
<1>4. \A i \in DOMAIN job' : job'[i].k # "place"
    BY <1>2, <1>3 DEF Shift, Row
<1>5. Apart' /\ EntriesHaveSongs'
    BY <1>1, <1>3 DEF PlacedInv, Apart, EntriesHaveSongs
<1>6. PlacesAreFree' /\ OnlyPlaces' /\ PlacesDiffer'
    BY <1>4 DEF PlacesAreFree, OnlyPlaces, PlacesDiffer
<1>7. RowsHaveSongs' /\ NoJoin'
    BY <1>1, <1>2 DEF PlacedInv, JobInv, RowsHaveSongs, NoJoin, Shift, Row
<1>8. Closes'
    <2> SUFFICES ASSUME NEW i \in DOMAIN job', job'[i].k = "close"
                 PROVE  i + 1 \in DOMAIN job' /\ job'[i + 1] = Erase(job'[i].pl, job'[i].song)
        BY DEF Closes, Erase
    <2>1. i \notin {1, 2}
        BY <1>2 DEF Shift, Row
    <2>2. i \in Int /\ i - 1 \in DOMAIN job /\ job'[i] = job[i - 1]
        BY <1>2, <2>1
    <2>3. (i - 1) + 1 \in DOMAIN job
          /\ job[(i - 1) + 1] = Erase(job'[i].pl, job'[i].song)
        BY <2>2 DEF PlacedInv, JobInv, Closes
    <2>4. i + 1 \in DOMAIN job' /\ i + 1 \notin {1, 2} /\ (i + 1) - 1 = (i - 1) + 1
        BY <1>2, <2>1, <2>2, <2>3
    <2>5. job'[i + 1] = job[(i - 1) + 1]
        BY <1>2, <2>4
    <2> QED BY <2>3, <2>4, <2>5
<1>9. Opens'
    <2>1. ASSUME NEW i \in DOMAIN job', i \notin {1, 2}, NEW n, Opened(i - 1, n)
          PROVE  job'[i - 1] = Shift(job'[i].pl, job'[i].order, n)
        <3>1. i \in Int /\ i - 1 \in DOMAIN job \ {1} /\ job'[i] = job[i - 1]
            BY <1>2, <2>1
        <3>2. job[(i - 1) - 1] = Shift(job'[i].pl, job'[i].order, n)
            BY <2>1, <3>1 DEF Opened
        <3>3. (i - 1) - 1 # 1
            BY <1>1, <1>2, <3>2 DEF Shift
        <3>4. i - 1 \in DOMAIN job' \ {1, 2}
            BY <1>2, <2>1, <3>1, <3>3
        <3> QED BY <1>2, <3>2, <3>4
    <2>2. ASSUME NEW i \in DOMAIN job', i \notin {1, 2}
          PROVE  i \in Int /\ i - 1 \in DOMAIN job /\ job'[i] = job[i - 1]
        BY <1>2, <2>2
    <2>3. ASSUME NEW i \in DOMAIN job', job'[i].k = "row"
          PROVE  Opened(i, 1)'
        <3>1. CASE i \in {1, 2}
            <4>1. i = 2 /\ i - 1 = 1
                BY <1>2, <2>3, <3>1 DEF Shift
            <4> QED BY <1>2, <4>1 DEF Opened, Shift, Row
        <3>2. CASE i \notin {1, 2}
            <4>1. Opened(i - 1, 1)
                BY <2>2, <2>3, <3>2 DEF PlacedInv, Opens
            <4>2. job'[i - 1] = Shift(job'[i].pl, job'[i].order, 1)
                BY <2>1, <3>2, <4>1
            <4> QED BY <3>2, <4>2 DEF Opened, Shift
        <3> QED BY <3>1, <3>2
    <2>4. ASSUME NEW i \in DOMAIN job', job'[i].k = "rows"
          PROVE  Opened(i, Cardinality(songs))'
        <3>1. i \notin {1, 2}
            BY <1>2, <2>4 DEF Shift, Row
        <3>2. Opened(i - 1, Cardinality(songs))
            BY <2>2, <2>4, <3>1 DEF PlacedInv, Opens
        <3>3. job'[i - 1] = Shift(job'[i].pl, job'[i].order, Cardinality(songs))
            BY <2>1, <3>1, <3>2
        <3> QED BY <1>1, <3>1, <3>3 DEF Opened, Shift
    <2> QED BY <2>3, <2>4 DEF Opens
<1> QED BY <1>5, <1>6, <1>7, <1>8, <1>9 DEF PlacedInv, JobInv

\* Between requests the songs of a list have places of their own, and every entry
\* has its song.
LEMMA AtRest ==
    ASSUME placed, PlacedInv, job = <<>>
    PROVE  /\ \A e, f \in DOMAIN entries :
                 entries[e].pl = entries[f].pl /\ entries[e].order = entries[f].order
                   => entries[e].song = entries[f].song
           /\ entries' = entries => Apart'
           /\ EntriesHaveSongs
           /\ entries' = entries /\ songs \subseteq songs' => EntriesHaveSongs'
<1>1. DOMAIN job = {}
    OBVIOUS
<1>2. \A e : ~Unplaced(e)
    BY <1>1 DEF Unplaced
<1> QED BY <1>2 DEF PlacedInv, Apart, EntriesHaveSongs

\* With nothing to run all that is asked of the statements holds.
LEMMA AtRestAgain ==
    ASSUME job' = <<>>, Apart', EntriesHaveSongs' PROVE PlacedInv'
<1>1. DOMAIN job' = {}
    OBVIOUS
<1>2. Opens' /\ PlacesAreFree' /\ JobInv'
    BY <1>1 DEF Opens, PlacesAreFree, JobInv, RowsHaveSongs, Closes, OnlyPlaces,
                PlacesDiffer, NoJoin
<1> QED BY <1>2 DEF PlacedInv

\* Two statements, of which the second inserts at the places the first frees, or
\* deletes what the first closed up to, or two songs to load.
LEMMA TwoStatements ==
    ASSUME NEW a, NEW b, job' = <<a, b>>, Apart', EntriesHaveSongs', songs' = songs,
           \/ \E pl, s, o : s \in songs /\ a = Shift(pl, o, 1) /\ b = Row(pl, s, o)
           \/ \E pl, o : a = Shift(pl, o, Cardinality(songs)) /\ b = Rows(pl, o)
           \/ \E pl, s : a = Close(pl, s) /\ b = Erase(pl, s)
           \/ \E pl, e, f, o, p : a = Pick(pl, e, o) /\ b = Pick(pl, f, p)
    PROVE  PlacedInv'
<1>1. DOMAIN job' = {1, 2} /\ job'[1] = a /\ job'[2] = b /\ 1 + 1 = 2 /\ 2 - 1 = 1 /\ 2 # 1
    OBVIOUS
<1>2. a.k \notin {"place", "join", "own", "copy"} /\ b.k \notin {"place", "join", "own", "copy"}
    BY DEF Shift, Row, Rows, Close, Erase, Pick
<1>3. PlacesAreFree' /\ OnlyPlaces' /\ PlacesDiffer' /\ NoJoin'
    BY <1>1, <1>2 DEF PlacesAreFree, OnlyPlaces, PlacesDiffer, NoJoin
<1>4. RowsHaveSongs'
    BY <1>1 DEF RowsHaveSongs, Shift, Row, Rows, Close, Erase, Pick
<1>5. Closes'
    <2>1. b.k # "close"
        BY DEF Shift, Row, Rows, Close, Erase, Pick
    <2>2. a.k = "close" => b = Erase(a.pl, a.song)
        BY DEF Shift, Row, Rows, Close, Erase, Pick
    <2> QED BY <1>1, <2>1, <2>2 DEF Closes, Erase
<1>6. Opens'
    <2>1. a.k # "row" /\ a.k # "rows"
        BY DEF Shift, Row, Rows, Close, Erase, Pick
    <2>2. b.k = "row" => a = Shift(b.pl, b.order, 1)
        BY DEF Shift, Row, Rows, Close, Erase, Pick
    <2>3. b.k = "rows" => a = Shift(b.pl, b.order, Cardinality(songs))
        BY DEF Shift, Row, Rows, Close, Erase, Pick
    <2> QED BY <1>1, <2>1, <2>2, <2>3 DEF Opens, Opened, Shift
<1> QED BY <1>3, <1>4, <1>5, <1>6 DEF PlacedInv, JobInv

\* One sequence before another.
LEMMA JoinedParts ==
    ASSUME NEW S, NEW p \in Seq(S), NEW q \in Seq(S)
    PROVE  /\ Len(p) \in Nat /\ Len(q) \in Nat
           /\ DOMAIN (p \o q) = 1..(Len(p) + Len(q))
           /\ \A i \in 1..Len(p) : (p \o q)[i] = p[i]
           /\ \A i \in 1..(Len(p) + Len(q)) :
                 i > Len(p) => i - Len(p) \in DOMAIN q /\ (p \o q)[i] = q[i - Len(p)]
OBVIOUS

\* A reorder after which the songs have places of their own gives every song of the
\* list a place, each another one.
LEMMA ReorderPlaces ==
    ASSUME IInv, placed, PlacedInv, NEW l \in DOMAIN lists, Reorder(l), placed'
    PROVE  PlacedInv'
<1> DEFINE end == SetOrder(l, "bad")
<1>1. PICK n, ids, named, places :
        /\ Names(l, n, ids, named, places)
        /\ Asks("reorder", l, PlacesOf(l, n, ids, places) \o end)
        /\ placed' => placed /\ named = SongsOf(IdOf(l)) /\ IsInjective(places)
    BY ReorderParts
<1>2. /\ job' = PlacesOf(l, n, ids, places) \o end
      /\ job = <<>> /\ entries' = entries /\ songs' = songs
    BY <1>1 DEF Asks, tables
<1>3. Apart' /\ EntriesHaveSongs'
    BY <1>2, AtRest
<1>4. ids \in [1..n -> named] /\ named = SongsOf(IdOf(l)) /\ n \in Nat
    BY <1>1 DEF Names
<1>5. \A i, j \in 1..n : i # j => places[ids[i]] # places[ids[j]]
    <2>1. \A s, t \in named : places[s] = places[t] => s = t
        BY <1>1 DEF Names, IsInjective
    <2>2. \A i, j \in 1..n : ids[i] = ids[j] => i = j
        BY <1>1 DEF Names
    <2> QED BY <1>4, <2>1, <2>2
<1>6. \A s \in named : \E i \in 1..n : ids[i] = s
    <2>1. IsFiniteSet(named) /\ Cardinality(named) = n
        BY <1>1 DEF Names
    <2>2. IsFiniteSet(1..n) /\ Cardinality(1..n) = Cardinality(named)
        BY <1>4, <2>1, FS_Interval
    <2>3. ids \in Injection(1..n, named)
        BY <1>1 DEF Names, Injection, IsInjective
    <2>4. ids \in Surjection(1..n, named)
        BY <2>1, <2>2, <2>3, FS_Injection
    <2> QED BY <2>4 DEF Surjection
<1> DEFINE first == PlacesOf(l, n, ids, places)
           S == {Place(IdOf(l), ids[i], places[ids[i]]) : i \in 1..n} \cup {Save(l, "bad")}
<1>7. /\ first \in Seq(S) /\ Len(first) = n
      /\ \A i \in 1..n : first[i] = Place(IdOf(l), ids[i], places[ids[i]])
    BY <1>4 DEF PlacesOf
<1>8. job' = first \o end
    BY <1>2
<1>9. end \in Seq(S) /\ \A i \in DOMAIN end : end[i].k = "save"
    BY SetOrderParts
<1> HIDE DEF first, end, S
<1>10. /\ 1..n \subseteq DOMAIN job'
       /\ \A i \in 1..n : job'[i] = Place(IdOf(l), ids[i], places[ids[i]])
       /\ \A i \in DOMAIN job' \ 1..n : job'[i].k = "save"
    <2>1. /\ Len(end) \in Nat /\ DOMAIN job' = 1..(n + Len(end))
          /\ \A i \in 1..n : job'[i] = first[i]
          /\ \A i \in 1..(n + Len(end)) :
                i > n => i - n \in DOMAIN end /\ job'[i] = end[i - n]
        BY <1>7, <1>8, <1>9, JoinedParts
    <2>2. \A i \in DOMAIN job' \ 1..n : i > n
        BY <1>4, <2>1
    <2>3. 1..n \subseteq DOMAIN job'
        BY <1>4, <2>1
    <2> QED BY <1>7, <1>9, <2>1, <2>2, <2>3
<1>11. \A i \in DOMAIN job' : job'[i].k = "place" => i \in 1..n
    BY <1>10
<1>12. \A i \in 1..n : /\ job'[i].k = "place" /\ job'[i].pl = IdOf(l)
                       /\ job'[i].song = ids[i] /\ job'[i].order = places[ids[i]]
    <2>1. \A pl, s, o : /\ Place(pl, s, o).k = "place" /\ Place(pl, s, o).pl = pl
                        /\ Place(pl, s, o).song = s /\ Place(pl, s, o).order = o
        BY DEF Place
    <2> QED BY <1>10, <2>1
<1>13. \A i \in DOMAIN job' : job'[i].k \in {"place", "save"}
    BY <1>10, <1>12
<1>14. RowsHaveSongs' /\ Closes' /\ NoJoin' /\ Opens'
    BY <1>13 DEF RowsHaveSongs, Closes, NoJoin, Opens
<1>15. OnlyPlaces' /\ PlacesDiffer'
    BY <1>5, <1>11, <1>13, <1>12 DEF OnlyPlaces, PlacesDiffer
<1>16. PlacesAreFree'
    <2> SUFFICES ASSUME NEW e \in DOMAIN entries, entries[e].pl = IdOf(l)
                 PROVE  Unplaced(e)'
        BY <1>2, <1>11, <1>12 DEF PlacesAreFree
    <2>1. entries[e].song \in named
        BY <1>4 DEF SongsOf, EntriesOf
    <2>2. PICK i \in 1..n : ids[i] = entries[e].song
        BY <1>6, <2>1
    <2> QED BY <1>2, <1>10, <1>12, <2>2 DEF Unplaced
<1> QED BY <1>3, <1>14, <1>15, <1>16 DEF PlacedInv, JobInv

\* A request begins with all songs at places of their own.
LEMMA RequestPlaces ==
    ASSUME IInv, placed, PlacedInv, NewRequest, placed' PROVE PlacedInv'
<1>1. PICK l \in DOMAIN lists :
        \/ \E pos \in Positions :
              \/ \E s \in songs : AddSong(l, s, pos)
              \/ \E e, f \in DOMAIN entries : AddSongs(l, e, f, pos)
              \/ AddDir(l, pos)
              \/ \E p \in DOMAIN lists : AddPl(l, p, pos) \/ AddSelf(l, p, pos)
        \/ \E s \in 1..MaxSongs : Rm(l, s)
        \/ Reorder(l)
        \/ Sort(l)
        \/ Update(l)
        \/ Update(0)
    BY DEF NewRequest
<1>2. job = <<>>
    BY <1>1 DEF AddSong, AddSongs, AddDir, AddPl, AddSelf, Rm, Reorder, Sort, Update,
                PlacingRequest, OtherRequest, Asks
<1>3. entries' = entries /\ songs' = songs
    BY RequestStep DEF tables
<1>4. Apart' /\ EntriesHaveSongs'
    BY <1>2, <1>3, AtRest
<1>5. ASSUME NEW pos \in Positions, NEW s \in songs, AddSong(l, s, pos) PROVE PlacedInv'
    <2>1. PICK a, b : a = Shift(IdOf(l), pos, 1) /\ b = Row(IdOf(l), s, pos)
        OBVIOUS
    <2>2. job' = <<a, b>>
        BY <1>5, <2>1 DEF AddSong, PlacingRequest, Asks, InsertSong
    <2> QED BY <1>3, <1>4, <2>1, <2>2, TwoStatements
<1>6. ASSUME NEW pos \in Positions, NEW e \in DOMAIN entries, NEW f \in DOMAIN entries,
             AddSongs(l, e, f, pos)
      PROVE  PlacedInv'
    <2>1. job' = <<Pick(IdOf(l), e, pos), Pick(IdOf(l), f, pos + 1)>>
        BY <1>6 DEF AddSongs, PlacingRequest, Asks
    <2> QED BY <1>3, <1>4, <2>1, TwoStatements
<1>7. ASSUME NEW pos \in Positions, AddDir(l, pos) PROVE PlacedInv'
    <2>1. job' = <<Shift(IdOf(l), pos, Cardinality(songs)), Rows(IdOf(l), pos)>>
        BY <1>7 DEF AddDir, PlacingRequest, Asks
    <2> QED BY <1>3, <1>4, <2>1, TwoStatements
<1>8. ASSUME NEW s \in 1..MaxSongs, Rm(l, s) PROVE PlacedInv'
    <2>1. job' = <<Close(IdOf(l), s), Erase(IdOf(l), s)>>
        BY <1>8 DEF Rm, PlacingRequest, Asks
    <2> QED BY <1>3, <1>4, <2>1, TwoStatements
<1>9. CASE Reorder(l)
    BY <1>9, ReorderPlaces
<1>10. ASSUME NEW pos \in Positions, NEW p \in DOMAIN lists,
              AddPl(l, p, pos) \/ AddSelf(l, p, pos)
       PROVE  FALSE
    BY <1>10 DEF AddPl, AddSelf, OtherRequest
<1>11. CASE Sort(l) \/ Update(l) \/ Update(0)
    BY <1>11 DEF Sort, Update, OtherRequest
<1> QED BY <1>1, <1>5, <1>6, <1>7, <1>8, <1>9, <1>10, <1>11

LEMMA InitPlacedInv == Init => PlacedInv
<1> SUFFICES ASSUME Init PROVE PlacedInv
    OBVIOUS
<1>1. DOMAIN job = {} /\ DOMAIN entries = {}
    BY DEF Init
<1> QED BY <1>1 DEF PlacedInv, Apart, EntriesHaveSongs, Opens, PlacesAreFree, JobInv,
                    RowsHaveSongs, Closes, OnlyPlaces, PlacesDiffer, NoJoin

LEMMA NextPlacedInv == IInv /\ PlacedInv /\ [Next]_vars => PlacedInv'
<1> SUFFICES ASSUME IInv, PlacedInv, [Next]_vars, placed' PROVE PlacedInv'
    BY DEF PlacedInv
<1>1. CASE UNCHANGED vars
    <2>1. /\ songs' = songs /\ entries' = entries /\ job' = job /\ placed' = placed
        BY <1>1 DEF vars, tables, history
    <2> QED BY <2>1 DEF PlacedInv, Apart, EntriesHaveSongs, Opens, PlacesAreFree, JobInv,
                        RowsHaveSongs, Closes, OnlyPlaces, PlacesDiffer, NoJoin, Unplaced,
                        Opened, Free, Erase, Shift
<1>2. CASE NewRequest
    <2>1. placed
        BY <1>2 DEF NewRequest, AddSong, AddSongs, AddDir, AddPl, AddSelf, Rm, Reorder,
                    Sort, Update, PlacingRequest, OtherRequest
    <2> QED BY <1>2, <2>1, RequestPlaces
<1>3. CASE Exec
    <2>1. placed' = placed \/ Refused
        BY <1>3 DEF Exec, ExecShift, ExecRow, ExecRows, ExecJoin, ExecOwn, ExecCopy, ExecPick,
                    ExecClose, ExecErase, ExecPlace, ExecSave, Executed, history
    <2>2. placed /\ ~Refused
        BY <2>1 DEF Refused
    <2>3. ~(ExecJoin \/ ExecOwn \/ ExecCopy)
        <3> SUFFICES ASSUME ExecJoin \/ ExecOwn \/ ExecCopy PROVE FALSE
            OBVIOUS
        <3>1. job # <<>> /\ st.k \in {"join", "own", "copy"}
            BY DEF ExecJoin, ExecOwn, ExecCopy, Runs
        <3>2. 1 \in DOMAIN job /\ st = job[1]
            BY <3>1, JobParts DEF IInv, st
        <3> QED BY <2>2, <3>1, <3>2 DEF PlacedInv, JobInv, NoJoin
    <2> QED BY <1>3, <2>2, <2>3, ShiftPlaces, RowPlaces, RowsPlaces, PickPlaces, ClosePlaces,
               ErasePlaces, PlacePlaces, SavePlaces DEF Exec
<1>4. CASE ScannerAdds \/ Restart
    <2>1. placed /\ job = <<>> /\ job' = <<>> /\ entries' = entries /\ songs \subseteq songs'
        BY <1>4 DEF ScannerAdds, Restart, Disturb, tables
    <2> QED BY <2>1, AtRest, AtRestAgain
<1>5. CASE StatementFails \/ \E s \in songs : ScannerDestroys(s)
    BY <1>5 DEF StatementFails, ScannerDestroys, Disturb
<1> QED BY <1>1, <1>2, <1>3, <1>4, <1>5 DEF Next

\* After requests that ran to their end the songs of a list have places of their
\* own: an insert's places were freed before, a removal moves nothing but the removed
\* song onto another's place, and a reorder of the whole list has given every song a new
\* one.
THEOREM DistinctPlacesHolds == Spec => []DistinctPlaces
<1>1. Spec => [](IInv /\ PlacedInv)
    BY InitIInv, NextIInv, InitPlacedInv, NextPlacedInv, PTL DEF Spec
<1>2. IInv /\ PlacedInv => DistinctPlaces
    BY AtRest DEF DistinctPlaces
<1> QED BY <1>1, <1>2, PTL
==============================================================================
