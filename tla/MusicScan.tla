------------------------------ MODULE MusicScan ------------------------------
(***************************************************************************)
(* The scan of the music directories at application start: App::rescan,    *)
(* MusicDir::create_root, sync and destroy, and Song::create_from_file,    *)
(* against a file system that changes while it is read, and a process that *)
(* may die between any two SQL statements.  No transaction groups the      *)
(* statements, so each one is a step.                                      *)
(*                                                                         *)
(* A directory is read with a directory_iterator, one entry after the      *)
(* other: what was there when it was opened and is not removed is returned *)
(* once; for what is removed or made meanwhile POSIX leaves open whether   *)
(* it is, so that what is removed and made again may be returned twice.    *)
(*                                                                         *)
(* A path is the sequence of its names.  Rowids are chosen as SQLite does  *)
(* for a table without AUTOINCREMENT: one more than the largest in use.    *)
(***************************************************************************)
EXTENDS Naturals, Sequences, FiniteSets, SequencesExt

CONSTANTS
    Paths,      \* every path that may come to exist
    Roots,      \* the configured music_dir options, a sequence of paths
    Interesting, \* those whose extension is one of a song file
    Tagged,     \* song files whose artist and album have rows in the tables
    DepthLimit, \* the largest unsigned char, 255: directories this deep are
                \* recorded but not entered
    MaxChanges, \* bound: changes of the file system
    MaxStarts   \* bound: starts of the process

ASSUME PathsOfNames == \A p \in Paths : p \in Seq(ToSet(p)) /\ p # <<>>
ASSUME PathsClosed == \A p \in Paths : Len(p) > 1 => Front(p) \in Paths
ASSUME RootsArePaths == Roots \in Seq(Paths)
ASSUME DepthIsLimited == DepthLimit \in Nat

VARIABLES
    fs,         \* file system: "none", "dir" or "song" for each path
    dirs,       \* table music_dirs: rowid -> [parent, name]; parent 0: a root
    songs,      \* table songs: rowid -> [dir, name]
    app,        \* the application thread
    todo,       \* roots still to be scanned
    stack,      \* activations of sync and destroy
    changes, starts,  \* counters for the two bounds
    made,       \* the change that last made an entry while a scan ran; 0: none did
    stable,     \* the file system has not changed since the scan began
    present,    \* entries that have existed ever since the scan began
    quiet       \* a scan has completed and no entry changed since it began

tables == <<dirs, songs>>
bounds == <<changes, starts>>
observer == <<stable, present, quiet>>
vars == <<fs, tables, app, todo, stack, bounds, made, observer>>

NewId(table) == 1 + Max(DOMAIN table \cup {0})

\* Mistaken variant: the row goes by the db_id the object had, which is 0.
InsertUnnumbered(table, row) ==
    [i \in DOMAIN table \cup {0} |-> IF i = 0 THEN row ELSE table[i]]

Insert(table, row) ==
    [i \in DOMAIN table \cup {NewId(table)} |->
        IF i = NewId(table) THEN row ELSE table[i]]

Delete(table, id) == [i \in DOMAIN table \ {id} |-> table[i]]

\* MusicDir::path(): the names from the root down.
DirPath[d \in DOMAIN dirs] ==
    IF dirs[d].parent = 0 THEN dirs[d].name
    ELSE Append(DirPath[dirs[d].parent], dirs[d].name)

Children(d) == {k \in DOMAIN dirs : dirs[k].parent = d}
SongsOf(d) == {s \in DOMAIN songs : songs[s].dir = d}

SongPath(s) == Append(DirPath[songs[s].dir], songs[s].name)

Top == Last(stack)
Below == Front(stack)

\* entries: what the iterator has to return of what was there when it was opened, at
\* the change opened; late: what it has returned of what was made since.
Entering(id, depth) ==
    [mode |-> "enter", id |-> id, depth |-> depth, opened |-> 0,
     entries |-> {}, late |-> {}, dirs |-> {}, songs |-> {}]

Names == UNION {ToSet(p) : p \in Paths}
Entry(n) == Append(DirPath[Top.id], n)

\* An entry is in a directory, a root is a directory.  A file that is_interesting does
\* not take for a song is as good as none.
IsTree(files) ==
    \A p \in Paths :
        /\ files[p] # "none" /\ Len(p) > 1 => files[Front(p)] = "dir"
        /\ files[p] = "song" => p \in Interesting \ ToSet(Roots)

Existing == {<<p, fs[p]>> : p \in {q \in Paths : fs[q] # "none"}}

------------------------------------------------------------------------------
\* A new database: the rows of an earlier run over other contents are those of the
\* first of the starts.
Init ==
    /\ fs \in [Paths -> {"none", "dir", "song"}]
    /\ IsTree(fs)
    /\ dirs = <<>> /\ songs = <<>>
    /\ app = "down"
    /\ todo = <<>> /\ stack = <<>>
    /\ changes = 0 /\ starts = 0 /\ made = [p \in Paths |-> 0]
    /\ stable = FALSE /\ present = {} /\ quiet = FALSE

\* App::run up to rescan().
Start ==
    /\ app = "down" /\ starts < MaxStarts
    /\ app' = "scanning"
    /\ todo' = Roots
    /\ stack' = <<>>
    /\ starts' = starts + 1
    /\ stable' = TRUE
    /\ present' = Existing
    /\ UNCHANGED <<fs, tables, changes, made, quiet>>

\* Mistaken variant: create_root does not look for the row.
ScanRootAnew ==
    /\ app = "scanning" /\ stack = <<>> /\ todo # <<>>
    /\ todo' = Tail(todo)
    /\ dirs' = Insert(dirs, [parent |-> 0, name |-> Head(todo)])
    /\ stack' = <<Entering(NewId(dirs), 0)>>
    /\ UNCHANGED <<fs, songs, app, bounds, made, observer>>

\* init_music_dir: create_root, then sync up to save_if_needed.
ScanRoot ==
    /\ app = "scanning" /\ stack = <<>> /\ todo # <<>>
    /\ todo' = Tail(todo)
    /\ LET row == [parent |-> 0, name |-> Head(todo)]
           known == {d \in DOMAIN dirs : dirs[d] = row}
       IN IF known = {}
          THEN /\ dirs' = Insert(dirs, row)
               /\ stack' = <<Entering(NewId(dirs), 0)>>
          ELSE /\ \E d \in known : stack' = <<Entering(d, 0)>>
               /\ UNCHANGED dirs
    /\ UNCHANGED <<fs, songs, app, bounds, made, observer>>

InFrame(mode) == app = "scanning" /\ stack # <<>> /\ Top.mode = mode

\* An exception ends App::run; boost::thread swallows it, the web server goes
\* on without the rest of the scan.
Abort(how) ==
    /\ app' = how
    /\ stack' = <<>>
    /\ todo' = <<>>
    /\ UNCHANGED <<fs, tables, bounds, made, observer>>

\* Mistaken variant: the depth limit is one too low.
SkipDirEarly ==
    /\ InFrame("enter")
    /\ Top.depth >= DepthLimit - 1 \/ fs[DirPath[Top.id]] = "none"
    /\ stack' = Below
    /\ UNCHANGED <<fs, tables, app, todo, bounds, made, observer>>

\* Mistaken variant: a directory that is not there is destroyed.
SkipDirDestroys ==
    /\ InFrame("enter")
    /\ Top.depth >= DepthLimit \/ fs[DirPath[Top.id]] = "none"
    /\ stack' = IF Top.depth >= DepthLimit THEN Below
                ELSE Append(Below, [Top EXCEPT !.mode = "destroy",
                                               !.dirs = Children(Top.id),
                                               !.songs = SongsOf(Top.id)])
    /\ UNCHANGED <<fs, tables, app, todo, bounds, made, observer>>

\* sync after save_if_needed: too deep, or gone, and it returns.
SkipDir ==
    /\ InFrame("enter")
    /\ Top.depth >= DepthLimit \/ fs[DirPath[Top.id]] = "none"
    /\ stack' = Below
    /\ UNCHANGED <<fs, tables, app, todo, bounds, made, observer>>

\* sync reads what the tables know of the directory and opens it.
EnterDir ==
    /\ InFrame("enter")
    /\ Top.depth < DepthLimit
    /\ fs[DirPath[Top.id]] = "dir"
    /\ stack' = Append(Below,
          [Top EXCEPT !.mode = "sync",
                      !.depth = (@ + 1) % (DepthLimit + 1),
                      !.opened = changes,
                      !.entries = {n \in Names : Entry(n) \in Paths /\ fs[Entry(n)] # "none"},
                      !.dirs = Children(Top.id),
                      !.songs = SongsOf(Top.id)])
    /\ UNCHANGED <<fs, tables, app, todo, bounds, made, observer>>

\* It has become a file, or an entry of another directory has vanished since sync saw
\* that it exists: opening it throws.  (For a root, DatabaseFails ends the scan alike.)
OpenFails ==
    /\ InFrame("enter")
    /\ Top.depth < DepthLimit
    /\ fs[DirPath[Top.id]] = "song" \/ (fs[DirPath[Top.id]] = "none" /\ Top.depth > 0)
    /\ Abort("aborted")

\* Top, when the iterator returns what was there when it was opened ...
Listed(n) == IF n \in Top.entries THEN {[Top EXCEPT !.entries = @ \ {n}]} ELSE {}

\* ... or what was made since.
Late(n) ==
    IF /\ Entry(n) \in Paths
       /\ made[Entry(n)] > Top.opened /\ made[Entry(n)] \notin Top.late
    THEN {[Top EXCEPT !.late = @ \cup {made[Entry(n)]}]} ELSE {}

\* The next entry of the directory, while it is of the given kind; frame is Top with
\* the entry taken.
Visits(n, kind, frame) ==
    /\ InFrame("sync")
    /\ frame \in Listed(n) \cup Late(n)
    /\ fs[Entry(n)] = kind

KnownDirs(n) == {d \in Top.dirs : dirs[d].name = n}
KnownSongs(n) == {s \in Top.songs : songs[s].name = n}

\* Mistaken variant: a known directory is not taken off the list to destroy.
VisitDirKeepsListed(n, frame) ==
    /\ Visits(n, "dir", frame)
    /\ IF KnownDirs(n) = {}
       THEN /\ dirs' = Insert(dirs, [parent |-> Top.id, name |-> n])
            /\ stack' = Below \o <<frame, Entering(NewId(dirs), Top.depth)>>
       ELSE /\ \E d \in KnownDirs(n) : stack' = Below \o <<frame, Entering(d, Top.depth)>>
            /\ UNCHANGED dirs
    /\ UNCHANGED <<fs, songs, app, todo, bounds, made, observer>>

\* An entry that is a directory: find its row or insert one, and sync it.
VisitDir(n, frame) ==
    /\ Visits(n, "dir", frame)
    /\ IF KnownDirs(n) = {}
       THEN /\ dirs' = Insert(dirs, [parent |-> Top.id, name |-> n])
            /\ stack' = Below \o <<frame, Entering(NewId(dirs), Top.depth)>>
       ELSE /\ \E d \in KnownDirs(n) :
                  stack' = Below \o <<[frame EXCEPT !.dirs = @ \ {d}], Entering(d, Top.depth)>>
            /\ UNCHANGED dirs
    /\ UNCHANGED <<fs, songs, app, todo, bounds, made, observer>>

\* Mistaken variant: a known song is not taken off the list to destroy.
VisitKnownSongKeepsListed(n, frame) ==
    /\ Visits(n, "song", frame)
    /\ KnownSongs(n) # {}
    /\ stack' = Append(Below, frame)
    /\ UNCHANGED <<fs, tables, app, todo, bounds, made, observer>>

\* Mistaken variant: the loop continues without going on to the next entry.
VisitKnownSongAgain(n, frame) ==
    /\ Visits(n, "song", frame)
    /\ KnownSongs(n) # {}
    /\ UNCHANGED vars

\* An entry that is a song file with a row: it is kept.
VisitKnownSong(n, frame) ==
    /\ Visits(n, "song", frame)
    /\ \E s \in KnownSongs(n) : stack' = Append(Below, [frame EXCEPT !.songs = @ \ {s}])
    /\ UNCHANGED <<fs, tables, app, todo, bounds, made, observer>>

\* create_from_file: the artist and the album are found and a row inserted.
VisitNewSong(n, frame) ==
    /\ Visits(n, "song", frame)
    /\ KnownSongs(n) = {}
    /\ Entry(n) \in Tagged
    /\ songs' = Insert(songs, [dir |-> Top.id, name |-> n])
    /\ stack' = Append(Below, frame)
    /\ UNCHANGED <<fs, dirs, app, todo, bounds, made, observer>>

\* create_from_file: find_or_create asks load_one for a name without a row, and
\* load_one throws not_found instead of returning a null pointer.
VisitNewTag(n, frame) ==
    /\ Visits(n, "song", frame)
    /\ KnownSongs(n) = {}
    /\ Entry(n) \notin Tagged
    /\ Abort("aborted")

\* The entry was removed after it was returned: is_directory throws ...
VisitVanished(n, frame) ==
    /\ Visits(n, "none", frame)
    /\ Abort("aborted")

\* ... or had answered, and create_from_file throws the file_error that sync
\* ignores.
VisitVanishing(n, frame) ==
    /\ Visits(n, "none", frame)
    /\ KnownSongs(n) = {}
    /\ stack' = Append(Below, frame)
    /\ UNCHANGED <<fs, tables, app, todo, bounds, made, observer>>

\* The iterator is at its end; what has been removed since it was opened, or removed
\* and made again, it need not have returned.
LoopEnds ==
    /\ InFrame("sync")
    /\ \A n \in Top.entries : fs[Entry(n)] = "none" \/ made[Entry(n)] > Top.opened
    /\ stack' = Append(Below, [Top EXCEPT !.mode = "reap", !.opened = 0, !.entries = {}, !.late = {}])
    /\ UNCHANGED <<fs, tables, app, todo, bounds, made, observer>>

\* The end of sync and all of destroy: what is left in the two lists goes, the
\* directories first, each with everything under it.
Reaping == InFrame("reap") \/ InFrame("destroy")

ReapDir ==
    /\ Reaping
    /\ \E d \in Top.dirs :
          stack' = Below \o
              <<[Top EXCEPT !.dirs = @ \ {d}],
                [Entering(d, 0) EXCEPT !.mode = "destroy",
                                       !.dirs = Children(d),
                                       !.songs = SongsOf(d)]>>
    /\ UNCHANGED <<fs, tables, app, todo, bounds, made, observer>>

ReapSong ==
    /\ Reaping /\ Top.dirs = {}
    /\ \E s \in Top.songs :
          /\ songs' = Delete(songs, s)
          /\ stack' = Append(Below, [Top EXCEPT !.songs = @ \ {s}])
    /\ UNCHANGED <<fs, dirs, app, todo, bounds, made, observer>>

\* Mistaken variant: destroy forgets the songs of the directory.
ReturnEarly ==
    /\ Reaping /\ Top.dirs = {}
    /\ dirs' = IF Top.mode = "destroy" THEN Delete(dirs, Top.id) ELSE dirs
    /\ stack' = Below
    /\ UNCHANGED <<fs, songs, app, todo, bounds, made, observer>>

\* destroy ends with the row of the directory itself, sync with nothing.
Return ==
    /\ Reaping /\ Top.dirs = {} /\ Top.songs = {}
    /\ dirs' = IF Top.mode = "destroy" THEN Delete(dirs, Top.id) ELSE dirs
    /\ stack' = Below
    /\ UNCHANGED <<fs, songs, app, todo, bounds, made, observer>>

ScanDone ==
    /\ app = "scanning" /\ stack = <<>> /\ todo = <<>>
    /\ app' = "done"
    /\ quiet' = stable
    /\ UNCHANGED <<fs, tables, todo, stack, bounds, made, stable, present>>

ScanStep ==
    \/ ScanRoot \/ SkipDir \/ EnterDir \/ OpenFails
    \/ (InFrame("sync") /\ \E n \in Names : \E frame \in Listed(n) \cup Late(n) :
            \/ VisitDir(n, frame) \/ VisitKnownSong(n, frame) \/ VisitNewSong(n, frame)
            \/ VisitNewTag(n, frame) \/ VisitVanished(n, frame) \/ VisitVanishing(n, frame))
    \/ LoopEnds \/ ReapDir \/ ReapSong \/ Return \/ ScanDone

------------------------------------------------------------------------------
\* A statement of the scan fails (the file stays locked, the disk is full).
DatabaseFails ==
    /\ app = "scanning"
    /\ Abort("failed")

\* The process ends, in the middle of a scan or after one.
Crash ==
    /\ app # "down"
    /\ app' = "down"
    /\ stack' = <<>> /\ todo' = <<>>
    /\ UNCHANGED <<fs, tables, bounds, made, observer>>

\* The user adds an entry, or removes one with all that is under it; a root
\* comes and goes with the volume it is on.
AddEntry(p, kind) ==
    /\ fs[p] = "none"
    /\ fs' = [fs EXCEPT ![p] = kind]
    /\ IsTree(fs')
    /\ made' = IF app = "scanning" THEN [made EXCEPT ![p] = changes'] ELSE made

RemoveEntry(p) ==
    /\ fs[p] # "none"
    /\ fs' = [q \in Paths |-> IF IsPrefix(p, q) THEN "none" ELSE fs[q]]
    /\ UNCHANGED made

ChangeFs ==
    /\ changes < MaxChanges
    /\ changes' = changes + 1
    /\ \E p \in Paths : RemoveEntry(p) \/ \E k \in {"dir", "song"} : AddEntry(p, k)
    /\ present' = {e \in present : fs'[e[1]] = e[2]}
    /\ stable' = FALSE
    /\ quiet' = FALSE
    /\ UNCHANGED <<tables, app, todo, stack, starts>>

Next == Start \/ ScanStep \/ DatabaseFails \/ Crash \/ ChangeFs

Spec == Init /\ [][Next]_vars

\* The application thread runs as long as the process does.
FairSpec == Spec /\ WF_vars(ScanStep)

------------------------------------------------------------------------------
(* Properties.                                                             *)

Frames == [mode : {"enter", "sync", "reap", "destroy"}, id : Nat, depth : 0..DepthLimit,
           opened : Nat, entries : SUBSET Names, late : SUBSET Nat,
           dirs : SUBSET Nat, songs : SUBSET Nat]

TypeOK ==
    /\ fs \in [Paths -> {"none", "dir", "song"}]
    /\ DOMAIN dirs \subseteq Nat \ {0} /\ DOMAIN songs \subseteq Nat \ {0}
    /\ app \in {"down", "scanning", "done", "aborted", "failed"}
    /\ \A i \in DOMAIN stack : stack[i] \in Frames
    /\ made \in [Paths -> 0..changes]
    /\ stable \in BOOLEAN /\ quiet \in BOOLEAN

\* MusicDir::path() and Song::directory() find every row they ask for, and the
\* way up ends, also after a crash in the middle of destroy: a parent has a row,
\* and it was there before its children.
NoOrphans ==
    /\ \A d \in DOMAIN dirs : dirs[d].parent \in (DOMAIN dirs \cap 1..(d-1)) \cup {0}
    /\ \A s \in DOMAIN songs : songs[s].dir \in DOMAIN dirs

\* sync never records an entry twice, whatever it was interrupted by, but for one that
\* was made while a scan ran.
OneRowPerEntry ==
    /\ \A d, e \in DOMAIN dirs : dirs[d] = dirs[e] => d = e \/ made[DirPath[d]] # 0
    /\ \A s, t \in DOMAIN songs : songs[s] = songs[t] => s = t \/ made[SongPath(s)] # 0

\* The path of the root that a row is under.
RootPath[d \in DOMAIN dirs] ==
    IF dirs[d].parent = 0 THEN dirs[d].name ELSE RootPath[dirs[d].parent]

\* A scan that completes over an unchanging file system leaves the tables equal
\* to it, down to the depth limit and for each root that is there, from whatever
\* earlier scans left behind, with one row for each entry, and so they stay until
\* the file system changes.
Recordable(r, kind) ==
    {p \in Paths : IsPrefix(r, p) /\ fs[p] = kind /\ Len(p) <= Len(r) + DepthLimit}

DirsUnder(r) == {d \in DOMAIN dirs : RootPath[d] = r}
SongsUnder(r) == {s \in DOMAIN songs : RootPath[songs[s].dir] = r}

MirrorsWhenDone ==
    quiet => \A r \in ToSet(Roots) : fs[r] = "dir" =>
        /\ {DirPath[d] : d \in DirsUnder(r)} = Recordable(r, "dir")
        /\ {SongPath(s) : s \in SongsUnder(r)} = Recordable(r, "song")
        /\ \A d, e \in DirsUnder(r) : DirPath[d] = DirPath[e] => d = e
        /\ \A s, t \in SongsUnder(r) : SongPath(s) = SongPath(t) => s = t

\* A rescan of what has not changed writes nothing: rowids survive restarts,
\* which playlist_songs relies on.
RescanWritesNothing == [][quiet => UNCHANGED tables]_vars

\* What existed all through the scan keeps a row: one goes only when there is another.
KeepsARow ==
    [][/\ \A d \in DOMAIN dirs \ DOMAIN dirs' : <<DirPath[d], "dir">> \in present =>
              \E e \in DOMAIN dirs' : DirPath'[e] = DirPath[d]
       /\ \A s \in DOMAIN songs \ DOMAIN songs' : <<SongPath(s), "song">> \in present =>
              \E t \in DOMAIN songs' : SongPath(t)' = SongPath(s)
      ]_vars

\* A root whose path is missing costs no rows: they go only while their root is a
\* directory that is seen to be without them.  (An empty mount point is such a one.)
MissingRootKeepsRows ==
    [][stable =>
        /\ \A d \in DOMAIN dirs \ DOMAIN dirs' : fs[RootPath[d]] = "dir"
        /\ \A s \in DOMAIN songs \ DOMAIN songs' : fs[RootPath[songs[s].dir]] = "dir"
      ]_vars

\* test/spinny_music_dir.cpp, Sync: a scan of a directory that nobody touches,
\* with a database that works, records it.
UndisturbedScanCompletes == app = "aborted" => ~stable

\* Every scan ends, completed or not, although entries come and go under it.
ScanEnds == app = "scanning" ~> app # "scanning"
==============================================================================
